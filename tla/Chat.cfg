SPECIFICATION FairSpec
CONSTANTS
    ann = ann
    bob = bob
    cleo = cleo
    People = {ann, bob, cleo}
    MAX_CLIENTS = 2
    Arrivals <- InOrder
    Leavers = {ann, cleo}
    Departures = 1
    Messages <- Talk
    Capacity = 1
    Nobody = Nobody
INVARIANTS TypeOK RoomIsRoom EveryMessageOnce
PROPERTIES NobodyCutOff LeavingIsNoticed ServerEnds
CHECK_DEADLOCK FALSE
