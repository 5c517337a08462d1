SPECIFICATION FairSpec
CONSTANTS
    NUM_PROCS = 1
    Main = main
    Workers = {}
    Fd = {f1}
    f1 = f1
    f2 = f2
    NoFd = nofd
    MAX_MAPS = 100
    DataSize = 3
    RecSizes = {1, 2}
    Skid = FALSE
    StackUser = FALSE
    MaxHead = 5
    MaxSessions = 2
INVARIANTS
    Monitored
    NothingLeftBehind
PROPERTIES
    EveryWordLogged
    StopReturns
