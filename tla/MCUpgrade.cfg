SPECIFICATION Spec
CONSTANTS
    v0 = v0
    v1 = v1
    bad = bad
    Images <- MCImages
    GoodImages <- MCGoodImages
    SlotPages = 2
    InfoPages = 1
    BootPages = 1
    PageCells = 2
    ChunkCells = 3
    FlashFaults = FALSE
    PromptRerun = FALSE
    SlowDevice = TRUE
    MaxRuns = 3
    MaxCrashes = 2
    MaxLost = 1
INVARIANTS
    TypeOK
    IInv
    SInv
    BootFromInv
    FirstRunInv
    SomeSlotIntact
    RunsGoodCode
    NeverStuck
PROPERTIES
    ImplementsAB
CHECK_DEADLOCK FALSE
