SPECIFICATION FairSpec
CONSTANTS
    Grace = 3
    Idle = 2
    MaxWrites = 3
    CreateAtRename = FALSE
INVARIANTS
    TypeOK
    ChildAccounted
    EndsClean
PROPERTIES
    FilesKept
    KillJustified
    SignalEnds
CHECK_DEADLOCK FALSE
