SPECIFICATION Spec
CONSTANTS
    SampleTypes <- TestEventsTypes
    BranchSupported = TRUE
    Kinds = {"SAMPLE"}
    Lengths = {0, 2}
    Regs = 2
    MaxRecords = 2
INVARIANTS
    ReadsWhatWasWritten
