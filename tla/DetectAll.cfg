SPECIFICATION Spec
CONSTANTS
    Machines <- AllMachines
    ProcReadable = FALSE
INVARIANTS
    TypeOK
    DetectsMachine
    VendorAgrees
    OneFileAtMost
PROPERTIES
    AnswersStable
