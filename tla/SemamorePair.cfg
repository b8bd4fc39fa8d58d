SPECIFICATION FairSpec
CONSTANTS
    Waiters = {w1}
    Posters = {p1}
    Initial = 1
    max_val = 3
    NoThread = NoThread
INVARIANTS InRange
PROPERTIES SpinEnds
CHECK_DEADLOCK FALSE
