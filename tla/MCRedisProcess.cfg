SPECIFICATION ProcessSpec
CONSTANTS
    Clients = {c1}
    Keys = {k1, k2}
    MaxCalls = 4
    Calls <- CallNames
    Slaves = 1
    ServerErrors <- AnyWriteError
    MayDisconnect = TRUE
    NONE = NONE
    Modes <- ConnectModes
    MaxAddresses = 2
    Retries = 3
    MaxReconnects = 2
    MaxForeign = 1
INVARIANT OwnReply Acknowledged  ErrorReported DescriptorsOwned
PROPERTY CallsEnd
