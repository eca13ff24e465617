SPECIFICATION Spec
CONSTANTS
    NumThreads = 2
    RecordCount = 3
    OperationCount = 2
    ReadThreadNums = 0
    SkipLoads <- NeverSkip
    SkipRatioInLoad = 0
    SkipRatioForRun = 0
    AdjustFilter = FALSE
    WithLatency = FALSE
    InsertStart = 0
    ReadKeyStart = 0
    ZeroLookups <- NoZeroLookup
    Operations <- ReadInsert
    Upsert = TRUE
    PreLoaded <- NoKeys
    StageOps = 2
    StageTotal = 2
    OpsLen <- MCOpsLen
INVARIANT TransactionKeysInserted
