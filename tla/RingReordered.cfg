SPECIFICATION Spec
CONSTANTS
    Size = 3
    MaxWords = 7
INVARIANTS
    TypeOK
PROPERTIES
    ImplementsSampleLog
    EveryWordPrinted
    RingIsFreed
