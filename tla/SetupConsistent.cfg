SPECIFICATION Spec
CONSTANTS
    NumCpus = 2
    Calls <- ConsistentCalls
    Encodable <- Events
    WithLatency <- LatencyContained
    Unreliable <- Types
    RegsMask <- Mask
    MaxSessions = 2
INVARIANTS
    TypeOK
    LayoutKnownUpToBranches
    SamplesWhatWasAsked
    ExitsExplained
