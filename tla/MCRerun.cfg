SPECIFICATION Spec
CONSTANTS
    v0 = v0
    v1 = v1
    bad = bad
    Images = {v0, bad}
    GoodImages = {v0}
    SlotPages = 2
    InfoPages = 1
    BootPages = 1
    PageCells = 2
    ChunkCells = 3
    FlashFaults = FALSE
    PromptRerun = TRUE
    SlowDevice = TRUE
    MaxRuns = 5
    MaxCrashes = 2
    MaxLost = 1
INVARIANTS
    AcceptedIsStored
    CommitAfterStore
CHECK_DEADLOCK FALSE
