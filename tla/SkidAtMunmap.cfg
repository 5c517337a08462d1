SPECIFICATION Spec
CONSTANTS
    NUM_PROCS = 1
    Main = main
    Workers = {}
    Fd = {f1}
    f1 = f1
    f2 = f2
    NoFd = nofd
    MAX_MAPS = 100
    DataSize = 3
    RecSizes = {1}
    Skid = TRUE
    StackUser = FALSE
    MaxHead = 4
    MaxSessions = 1
INVARIANTS
    MemorySafe
