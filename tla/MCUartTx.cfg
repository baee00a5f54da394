SPECIFICATION FairSpec
CONSTANTS
    TxItems = 3
    MaxFrames = 6
INVARIANTS
    TypeOK
    TxInv
    StateIsHonest
    ItemsAccounted
    BufferForElement
PROPERTIES
    ImplementsFifo
    EverySent
    
CHECK_DEADLOCK FALSE
