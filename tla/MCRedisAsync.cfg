SPECIFICATION FairSpec
CONSTANTS
    DictKeys <- Topics
    KeyHash <- Hashes
    InitialSize = 1
    Commands <- UserCommands
    Patterns <- PatternTopics
    MaxCommands = 3
    MaxEvents = 1
    Faults = TRUE
INVARIANT OwnReply CallbackOnce   DictsAgree
PROPERTY CloseCompletes
CHECK_DEADLOCK FALSE
