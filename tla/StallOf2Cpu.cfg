SPECIFICATION Spec
CONSTANTS
    NUM_PROCS = 2
    Main = main
    Workers = {}
    Fd <- TwoFds
    f1 = f1
    f2 = f2
    NoFd = nofd
    MAX_MAPS = 100
    DataSize = 3
    RecSizes = {1}
    Skid = FALSE
    StackUser = FALSE
    MaxHead = 4
    MaxSessions = 1
INVARIANTS
    Monitored
SYMMETRY FdSymmetry
