SPECIFICATION Spec
CONSTANTS
    NUM_PROCS = 2
    Main = main
    Workers = {}
    Fd <- TwoFds
    f1 = f1
    f2 = f2
    NoFd = nofd
    MAX_MAPS = 2
    DataSize = 3
    RecSizes = {1, 2}
    Skid = TRUE
    StackUser = FALSE
    MaxHead = 4
    MaxSessions = 1
INVARIANTS
    TypeOK
    SerialInv
    LogExact
    MemorySafeUnlessLate
    StoppedUnlessLate
    NoMallocDeadlock
    LimitBounded
PROPERTIES
    ImplementsSampleLog
SYMMETRY FdSymmetry
