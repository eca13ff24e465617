SPECIFICATION FairSpec
CONSTANTS
    Clients = {c1, c2}
    NumKeys = 2
    MaxCalls = 2
    Kinds <- AllKinds
    NULL = NULL
INVARIANT KeyCopiesOwned EntriesComplete
PROPERTY ImplementsAtomic CallsEnd
