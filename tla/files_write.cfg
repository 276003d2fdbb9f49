SPECIFICATION Spec
CONSTANTS
    MAX_PROCESSES = 3
    MAX_OPEN_FILES = 4
    FIRST_FD = 1
    FILE_SIZE = 2
    NUM_FILES = 2
    WORD = 32
    MAX_COUNT = 3
    Filenames = {f, g}
    Objects = {o1, o2, o3, o4}
    NULL = NULL
    OpenModes = {{"O_READ", "O_WRITE"}}
    Careless = {"write"}
SYMMETRY Symmetry
INVARIANTS
    ReadsStayInFile
CHECK_DEADLOCK FALSE
