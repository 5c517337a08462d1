SPECIFICATION Spec
CONSTANTS
    NumCpus = 2
    Calls <- TestEventsCalls
    Encodable <- Events
    WithLatency <- LatencyContained
    Unreliable = {}
    RegsMask <- Mask
    MaxSessions = 1
INVARIANTS
    ExitsForAReason
