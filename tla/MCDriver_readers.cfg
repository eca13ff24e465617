SPECIFICATION Spec
CONSTANTS
    NumThreads = 3
    RecordCount = 6
    OperationCount = 6
    ReadThreadNums = 1
    SkipLoads <- NeverSkip
    SkipRatioInLoad = 2
    SkipRatioForRun = 2
    AdjustFilter = TRUE
    WithLatency = FALSE
    InsertStart = 0
    ReadKeyStart = 0
    ZeroLookups <- SomeZeroLookups
    Operations <- ReadInsert
    Upsert = FALSE
    PreLoaded <- NoKeys
    StageOps = 1
    StageTotal = 2
    OpsLen <- MCOpsLen
INVARIANT SlotOwnership ThreadsOfRun LoadReport
PROPERTY NoResetWhileRunning
