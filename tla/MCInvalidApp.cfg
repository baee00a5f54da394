SPECIFICATION Spec
CONSTANTS
    v0 = v0
    v1 = v1
    bad = bad
    Images <- MCImages
    GoodImages <- MCGoodImages
    SlotPages = 2
    InfoPages = 1
    BootPages = 1
    PageCells = 2
    ChunkCells = 3
    FlashFaults = FALSE
    PromptRerun = FALSE
    SlowDevice = TRUE
    MaxRuns = 2
    MaxCrashes = 1
    MaxLost = 0
INVARIANTS
    InvalidAppSkipped
CHECK_DEADLOCK FALSE
