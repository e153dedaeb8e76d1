SPECIFICATION Spec
CONSTANTS
    CPU = {c1}
    NoCpu = NoCpu
    Modes = {"capture"}
    Slots = 2
    DefaultPages = 2
    MinPages = 2
    Explicit = TRUE
    Limit = 0
    HasDuration = FALSE
    MaxOutputs = 4
INVARIANT LossesReported
CHECK_DEADLOCK FALSE
