SPECIFICATION Spec
CONSTANTS
    Threads = {t1}
    CPU = {c1}
    Kinds = {"recv", "file"}
    Sockets = {s1}
    None = None
    TableSize = 1
    MaxCalls = 3
    MaxFaults = 2
INVARIANT FileIoNeverExported
SYMMETRY Symmetry
CHECK_DEADLOCK FALSE
