SPECIFICATION FairSpec
CONSTANTS
    n1 = n1
    n2 = n2
    Nodes <- OneNode
    Specs <- OneDrain
    PollInterval = 0
    Horizon = 2
    MaxUserOps = 3
    MaxErrors = 0
    MaxLost = 0
    MaxCrashes = 0
PROPERTIES
    RecreatedGetsScheduled
CHECK_DEADLOCK FALSE
