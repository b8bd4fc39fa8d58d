SPECIFICATION Spec
CONSTANTS
    c1 = c1
    c2 = c2
    c3 = c3
    f = f
    Conns = {c1, c2, c3}
    Workloads <- Mix
    Files = {f}
    MAX_CLIENTS = 2
    Capacity = 3
    Listener = Listener
    None = None
INVARIANTS SlotsServed GetReturnsAPut OneVerdict NobodyForgotten
CHECK_DEADLOCK FALSE
