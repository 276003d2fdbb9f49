SPECIFICATION Spec
CONSTANTS
    MAX_PROCESSES = 3
    MAX_OPEN_FILES = 3
    FIRST_FD = 1
    FILE_SIZE = 2
    NUM_FILES = 1
    WORD = 10
    MAX_COUNT = 1
    Filenames = {f}
    Objects = {o1, o2, o3}
    NULL = NULL
    OpenModes = {{"O_READ", "O_WRITE"}}
    Careless = {}
SYMMETRY Symmetry
INVARIANTS
    TypeOK
    NamedAreAllocated
    RefCountsCount
    OffsetsInFile
PROPERTIES
    FreedWithLastName
CHECK_DEADLOCK FALSE
