SPECIFICATION FaultSpec
CONSTANTS
    v0 = v0
    v1 = v1
    bad = bad
    Images = {v0, bad}
    GoodImages = {v0}
    SlotPages = 2
    InfoPages = 1
    BootPages = 1
    PageCells = 2
    ChunkCells = 3
    FlashFaults = TRUE
    PromptRerun = FALSE
    SlowDevice = TRUE
    MaxRuns = 3
    MaxCrashes = 1
    MaxLost = 0
INVARIANTS
    SomeSlotIntact
PROPERTIES
    ToolTerminates
CHECK_DEADLOCK FALSE
