SPECIFICATION FairSpec
CONSTANTS
    CM_SZ = 50
    ncmd = 2
    PIPE_SIZE = 6
    BLOCK = 3
    MESSAGE = 2
    Programs <- SomePrograms
    OldSizes = {0, 5}
    ndirs = 3
    Codes = {0, 1, 255}
    KILLED = KILLED
INVARIANTS
    ExecTypeOK
    OutputInOrder
    OnlyRunningAreCut
    StatusRight
    
PROPERTY
    Returns
CHECK_DEADLOCK FALSE
