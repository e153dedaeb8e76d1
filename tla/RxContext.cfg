SPECIFICATION Spec
CONSTANTS
    Keys = {0, 1}
    Generations = {1, 2}
    Times = {1, 2, 3, 4}
    Sizes = {1, 2, 4}
    Slots = 1
    Hash <- MCHash
    MaxEvents = 2
    MaxBytes = 3
    Window = 1
    MaxFeeds = 4
INVARIANTS
    TypeOK
    ListIntact
    PendingAccounted
    ReleasedByEvidence
    NoneWaitsInVain
CHECK_DEADLOCK FALSE
