SPECIFICATION Spec
CONSTANTS
    v0 = v0
    v1 = v1
    bad = bad
    Images <- MCImages
    GoodImages <- MCGoodImages
    SlotPages = 2
    InfoPages = 1
    BootPages = 1
    PageCells = 2
    ChunkCells = 3
    FlashFaults = TRUE
    PromptRerun = FALSE
    SlowDevice = TRUE
    MaxRuns = 1
    MaxCrashes = 0
    MaxLost = 0
INVARIANTS
    CompletedIsStored
CHECK_DEADLOCK FALSE
