SPECIFICATION ProcessSpec
CONSTANTS
    Clients = {c1, c2}
    Keys = {1, 2}
    Workloads <- AllWorkloads
    NumLevels = 4
    FilterSlots = 3
    MaxLen = 2
    MayFail = TRUE
    OldReports <- EarlierReports
    CommandLines <- Lines
    PropertyFiles <- Files
    Numbers = {"0", "1", "4"}
    Configs <- IniFiles
    Instances <- AllInstances
INVARIANT LastGivenWins AcknowledgedFound BoundsKept 
SYMMETRY ClientSymmetry
CHECK_DEADLOCK FALSE
