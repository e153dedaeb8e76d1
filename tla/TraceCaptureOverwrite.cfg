SPECIFICATION Spec
CONSTANTS
    Grace = 3
    Idle = 2
    MaxWrites = 3
    CreateAtRename = TRUE
PROPERTY UserFilesKept
CHECK_DEADLOCK FALSE
