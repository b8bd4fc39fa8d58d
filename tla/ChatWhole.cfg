SPECIFICATION Spec
CONSTANTS
    ann = ann
    bob = bob
    cleo = cleo
    People = {ann, bob, cleo}
    MAX_CLIENTS = 2
    Arrivals <- InOrder
    Leavers = {ann, cleo}
    Departures = 1
    Messages <- Talk
    Capacity = 1
    Nobody = Nobody
INVARIANT WholeMessages
CHECK_DEADLOCK FALSE
