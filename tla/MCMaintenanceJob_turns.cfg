SPECIFICATION Spec
CONSTANTS
    n1 = n1
    n2 = n2
    Nodes <- OneNode
    Specs <- OnePod
    PollInterval = 1
    Horizon = 2
    MaxUserOps = 1
    MaxErrors = 0
    MaxLost = 0
    MaxCrashes = 0
PROPERTIES
    PodsStartInTurn
CHECK_DEADLOCK FALSE
