SPECIFICATION Spec
CONSTANTS
    RxBlocks = 3
    BufUnits = 3
    MaxUnits = 5
INVARIANTS
    TakenIsNotFreed
CHECK_DEADLOCK FALSE
