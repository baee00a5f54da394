SPECIFICATION Spec
CONSTANTS
    infoA = infoA
    infoB = infoB
    start = start
    Info = Info
    Start = Start
    Handlers <- MCHandlers
    Messages <- MCMessages
    MsgOf <- MCMsgOf
    Cells = 3
SYMMETRY MCSymmetry
CHECK_DEADLOCK FALSE
INVARIANTS
    CellsAccounted
    WalkCallsEach
    RegistryInv
PROPERTY
    ImplementsTable
