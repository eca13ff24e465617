SPECIFICATION Spec
CONSTANTS
    Clients = {c1, c2}
    Keys = {k1}
    MaxCalls = 1
    Calls <- ReadUpdate
    Slaves = 0
    ServerErrors = {}
    MayDisconnect = FALSE
    NONE = NONE
INVARIANT ReadGetsArray
