CONSTANTS
  Rules = {1, 2, 3, 4}
  Workers = {w1, w2}
  NoRule = NoRule
  NoWorker = NoWorker
  Graphs <- MixedGraphs
  TargetLists <- MixedTargets
  StartTimes <- SomeFiles
  StartClock = 3
  Writes = {}
  ContainsCycle <- CycleCheck
  Waitlist <- MakeWaitlist
SYMMETRY Permute
SPECIFICATION Spec
CHECK_DEADLOCK FALSE
INVARIANTS TypeOK NeverWraps WaitsForHeld HangsOnlyByRaces
PROPERTY ImplementsMake
