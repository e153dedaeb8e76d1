SPECIFICATION Spec
CONSTANTS
    None = None
    Packets = {p1, p2, p3}
    Untracked = {p3}
    Local = {p1, p3}
    Sockets = {s1, s2}
    SlotOf <- OneSlot
    Times = {1, 2, 3}
    SizesOf <- MCSizesOf
    p1 = p1
    p2 = p2
    p3 = p3
    Window = 1
    MaxQueued = 2
    MaxBytes = 3
    RingWindow = 1
    RingBytes = 8
    StatusRecords = 1
    MaxEvents = 3
SYMMETRY Symmetry
INVARIANT BuffersIntact
INVARIANT OriginalsOnce
INVARIANT FileIsWindow
PROPERTY MirrorsAgree
CHECK_DEADLOCK FALSE
