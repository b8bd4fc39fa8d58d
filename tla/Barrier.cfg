SPECIFICATION FairSpec
CONSTANTS
    Threads = {t1, t2, t3, t4}
    Rounds = 3
INVARIANTS NoLostWakeup PhasesAgree
PROPERTIES ImplementsBarrier AllReturn
CHECK_DEADLOCK FALSE
