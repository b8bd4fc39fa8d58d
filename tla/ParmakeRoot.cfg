CONSTANTS
  Rules = {1, 2, 3}
  Workers = {w1}
  NoRule = NoRule
  NoWorker = NoWorker
  Graphs <- Chain
  TargetLists <- OneTarget
  StartTimes <- NoFiles
  StartClock = 4
  Writes = {}
  ContainsCycle <- CycleCheck
  Waitlist <- MakeWaitlist
SPECIFICATION FairSpec
CHECK_DEADLOCK FALSE
PROPERTY RootNoticed
