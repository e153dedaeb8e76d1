SPECIFICATION Spec
CONSTANTS
    Threads = {t1, t2}
    CPU = {c1, c2}
    Kinds = {"recv", "file"}
    Sockets = {s1}
    None = None
    TableSize = 1
    MaxCalls = 3
    MaxFaults = 1
INVARIANTS
    TypeOK
    EndsExportedOnce
    NoReopening
    NoCallForgotten
SYMMETRY Symmetry
CHECK_DEADLOCK FALSE
