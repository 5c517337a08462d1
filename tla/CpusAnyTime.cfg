SPECIFICATION Spec
CONSTANTS
    MaxCpu = 4
    MaxSessions = 2
INVARIANTS
    TypeOK
    EveryCpuMonitored
    WithinArrays
    AllReleased
    MappingsReleased
PROPERTIES
    LoopsEnd
