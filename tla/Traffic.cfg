SPECIFICATION Spec
CONSTANTS
    Threads = {t1, t2}
    Endpoints = {e1}
    Unknown = Unknown
    None = None
    Sizes = {0, 1, 2}
    Elements = {s1}
    HistoryCapacity = 1
    MaxIo = 2
    MaxSamples = 2
INVARIANTS
    TypeOK
    EveryIoCountedOnce
    HistoryNeverOverstates
    DeltasExplainTotals
SYMMETRY Symmetry
CHECK_DEADLOCK FALSE
