SPECIFICATION FairSpec
CONSTANTS
    Streams <- AllStreams
    StackSize = 3
    DiscardAt = 6
    MayFail = TRUE
    MaxText = 4
    Alphabet = {"a", " ", "%", "s", "5", "d", "l", "."}
INVARIANT RepliesAsEncoded NoReplyLeaked CommandsFormatted
PROPERTY RepliesDelivered
CHECK_DEADLOCK FALSE
