SPECIFICATION Spec
CONSTANTS
    SampleTypes <- BranchTypes
    BranchSupported = FALSE
    Kinds = {"SAMPLE"}
    Lengths = {0, 2}
    Regs = 2
    MaxRecords = 2
INVARIANTS
    ReadsWhatWasWritten
