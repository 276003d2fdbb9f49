SPECIFICATION FairSpec
CONSTANTS
    MAX_PROCESSES = 4
    MAX_LIVE = 3
    MAX_MEMBERS = 3
    MAX_OPEN_FILES = 4
    BUF_SLOTS = 2
    Queues = {q1}
    NULL = NULL
    Texts = {t1}
    Tails <- CleanTails
INVARIANTS
    TypeOK
    MembersHoldDescriptors
    PendingForMembers
    RowsNameOtherMembers
    BlockNeverFails
PROPERTIES
    NewMemberStartsFresh
    BlocksLast
    ImplementsMailboxes
    EveryMessageLeaves
CHECK_DEADLOCK FALSE
