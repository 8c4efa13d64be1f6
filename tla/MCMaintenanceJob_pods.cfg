SPECIFICATION FairSpec
CONSTANTS
    n1 = n1
    n2 = n2
    Nodes <- OneNode
    Specs <- PodSpecs
    PollInterval = 0
    Horizon = 2
    MaxUserOps = 2
    MaxErrors = 1
    MaxLost = 0
    MaxCrashes = 1
CONSTRAINT UsersOrFaults
PROPERTIES
    StagesGetListed
    PodStagesGetJobs
CHECK_DEADLOCK FALSE
