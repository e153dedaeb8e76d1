SPECIFICATION Spec
CONSTANTS
    None = None
    Tids = {t1}
    CPU = {c1, c2}
    Elements = {e1, e2}
    MaxTime = 7
SYMMETRY Symmetry
INVARIANT TypeOK
INVARIANT SnapshotIsTrue
INVARIANT WakeNotMissed
CHECK_DEADLOCK FALSE
