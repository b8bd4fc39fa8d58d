SPECIFICATION TargetsSpec
CONSTANTS
    Rules = {1, 2, 3}
    QueueInputs <- AnyQueueing
    MakeInputs <- SmallMakes
    Times = {0, 1, 2}
    StartOfMake = 3
INVARIANTS RefusesCycles ChildrenFirst OnceAndInOrder
PROPERTIES EveryTargetQueued ResultIsTrue
CHECK_DEADLOCK FALSE
