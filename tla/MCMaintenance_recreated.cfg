SPECIFICATION FairSpec
CONSTANTS
    Names = {m1}
    NoSpec = NoSpec
    DefaultDelay = 1
    DefaultDuration = 2
    PollInterval = 1
    Specs <- OneSpec
    Horizon = 2
    MaxUserOps = 3
    MaxErrors = 0
    MaxCrashes = 0
PROPERTIES
    RecreatedGetsAdmitted
CHECK_DEADLOCK FALSE
