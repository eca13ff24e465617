SPECIFICATION HistorySpec
CONSTANTS
    c1 = c1
    c2 = c2
    k1 = k1
    k2 = k2
    Clients = {c1, c2}
    Keys = {k1}
    NumFields = 1
    MaxCalls = 2
    Workloads <- ReadUpdate
    NULL = NULL
INVARIANT NoUseAfterFree
