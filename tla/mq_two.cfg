SPECIFICATION Spec
CONSTANTS
    MAX_PROCESSES = 4
    MAX_LIVE = 2
    MAX_MEMBERS = 2
    MAX_OPEN_FILES = 5
    BUF_SLOTS = 1
    Queues = {q1, q2}
    NULL = NULL
    Texts = {t1}
    Tails <- StaleTails
SYMMETRY Symmetry
INVARIANTS
    OneDescriptor
PROPERTIES
    ImplementsMailboxes
CHECK_DEADLOCK FALSE
