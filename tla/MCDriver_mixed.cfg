SPECIFICATION FairSpec
CONSTANTS
    NumThreads = 2
    RecordCount = 2
    OperationCount = 4
    ReadThreadNums = 0
    SkipLoads <- SkipOrLoad
    SkipRatioInLoad = 0
    SkipRatioForRun = 0
    AdjustFilter = TRUE
    WithLatency = TRUE
    InsertStart = 0
    ReadKeyStart = 0
    ZeroLookups <- NoZeroLookup
    Operations <- ReadInsertModify
    Upsert = TRUE
    PreLoaded <- NoKeys
    StageOps = 1
    StageTotal = 2
    OpsLen <- MCOpsLen
INVARIANT TypeOK CountersAgree RunReport StageOutputOnce
PROPERTY Termination
