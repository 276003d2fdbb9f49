SPECIFICATION FairSpec
CONSTANTS
    MAX_PROCESSES = 5
    MAX_BREAKPOINTS = 1
    MAX_BACKTRACE = 2
    MAX_DEPTH = 2
    MAX_NUM = 1
    Debuggers = {1, 2}
    Funcs = {f}
    Main = main
    END_ADDR = END_ADDR
INVARIANTS
    OneRuns
    RegistersAtBreakpoint
PROPERTIES
    WaitReturns
CHECK_DEADLOCK FALSE
