SPECIFICATION FairSpec
CONSTANTS
    Keys = {k1, k2}
    Clients = {worker, scheduler}
    Consumer = scheduler
    Horizon = 2
    MaxOffers = 3
    MaxRemoves = 1
INVARIANTS
    TypeOK
    IndexRight
    WakesInTime
PROPERTIES
    ImplementsDelayQueue
    EntriesTimeOut
CHECK_DEADLOCK FALSE
