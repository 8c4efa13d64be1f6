SPECIFICATION Spec
CONSTANTS
    Names = {m1}
    NoSpec = NoSpec
    DefaultDelay = 1
    DefaultDuration = 2
    PollInterval = 1
    Specs <- EditedSpecs
    Horizon = 3
    MaxUserOps = 2
    MaxErrors = 1
    MaxCrashes = 0
PROPERTIES
    JobsFollowStoredSnapshot
CHECK_DEADLOCK FALSE
