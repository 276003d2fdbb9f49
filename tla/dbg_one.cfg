SPECIFICATION Spec
CONSTANTS
    MAX_PROCESSES = 4
    MAX_BREAKPOINTS = 2
    MAX_BACKTRACE = 3
    MAX_DEPTH = 3
    MAX_NUM = 3
    Debuggers = {1}
    Funcs = {f, g}
    Main = main
    END_ADDR = END_ADDR
SYMMETRY Symmetry
INVARIANTS
    TypeOK
    InfoInOrder
    CodeMatchesList
    Transparent
    BacktraceShowsCalls
CHECK_DEADLOCK FALSE
