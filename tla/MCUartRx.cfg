SPECIFICATION FairSpec
CONSTANTS
    RxBlocks = 3
    BufUnits = 3
    MaxUnits = 5
INVARIANTS
    TypeOK
    RxInv
    HasReceiveBlock
    BlocksAccounted
    UnitsAccounted
PROPERTIES
    ImplementsFifo
    Served
CHECK_DEADLOCK FALSE
