SPECIFICATION Spec
CONSTANTS
    Names = {m1}
    NoSpec = NoSpec
    DefaultDelay = 1
    DefaultDuration = 2
    PollInterval = 1
    Specs <- OneSpec
    Horizon = 3
    MaxUserOps = 4
    MaxErrors = 0
    MaxCrashes = 0
PROPERTIES
    KeepsScheduled
CHECK_DEADLOCK FALSE
