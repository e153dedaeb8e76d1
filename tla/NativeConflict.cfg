SPECIFICATION Spec
CONSTANTS
    None = None
    Packets = {p1}
    Untracked = {}
    Local = {p1}
    Sockets = {s1, s2}
    SlotOf <- OneSlot
    Times = {1, 2, 3}
    SizesOf <- OneSize
    p1 = p1
    p2 = p2
    p3 = p3
    Window = 1
    MaxQueued = 2
    MaxBytes = 3
    RingWindow = 1
    RingBytes = 8
    StatusRecords = 0
    MaxEvents = 4
PROPERTY NoGuess
CHECK_DEADLOCK FALSE
