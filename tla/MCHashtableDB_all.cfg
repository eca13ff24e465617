SPECIFICATION HistorySpec
CONSTANTS
    c1 = c1
    c2 = c2
    k1 = k1
    k2 = k2
    Clients = {c1, c2}
    Keys = {k1, k2}
    NumFields = 2
    MaxCalls = 3
    Workloads <- AllWorkloads
    NULL = NULL
INVARIANT InsertsAreSafe HeapConsistent
PROPERTY ImplementsKVStore
