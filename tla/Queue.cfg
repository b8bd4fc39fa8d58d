SPECIFICATION FairSpec
CONSTANTS
    Producers = {p1, p2}
    Consumers = {c1, c2}
    Data = {d1, d2}
    Node = {n1, n2}
    NULL = NULL
    NoData = NoData
    MaxSize = 2
    SizeMod = 16
INVARIANTS ListShape SleepersBounded NoStranding NoMissedWakeup
PROPERTIES ImplementsFifo KeepsFlowing
CHECK_DEADLOCK FALSE
