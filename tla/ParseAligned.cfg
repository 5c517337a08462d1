SPECIFICATION Spec
CONSTANTS
    SampleTypes <- PassingTypes
    BranchSupported = TRUE
    Kinds <- PassingKinds
    Lengths = {0, 2}
    Regs = 2
    MaxRecords = 2
INVARIANTS
    TypeOK
    ReadsWhatWasWritten
    DecodedAll
PROPERTIES
    ParserReturns
