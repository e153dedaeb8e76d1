SPECIFICATION FairSpec
CONSTANTS
    Capacities <- MCCapacities
    Sizes <- MCSizes
    LostCounts <- MCLostCounts
    HeaderSize = 2
    MaxSample = 3
    MaxOffers = 4
    MaxSessions = 2
    NoByte = NoByte
INVARIANTS
    TypeOK
    UnreadIntact
    ExportsAcceptedInOrder
    LossesAccounted
    ThreadsAgree
PROPERTIES
    ImplementsLossyQueue
    AcceptedIsExported
    StopReturns
CHECK_DEADLOCK FALSE
