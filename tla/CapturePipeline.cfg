SPECIFICATION FairSpec
CONSTANTS
    CPU = {c1}
    NoCpu = NoCpu
    Modes = {"capture", "events", "terminal"}
    Slots = 2
    DefaultPages = 4
    MinPages = 2
    Explicit = FALSE
    Limit = 4
    HasDuration = TRUE
    MaxOutputs = 4
INVARIANTS
    TypeOK
    DrainComplete
    CountNeverOverstates
    EveryOutputIsSomewhere
    GapsExplained
PROPERTY CaptureEnds
CHECK_DEADLOCK FALSE
