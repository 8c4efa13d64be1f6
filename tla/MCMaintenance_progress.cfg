SPECIFICATION FairSpec
CONSTANTS
    Names = {m1}
    NoSpec = NoSpec
    DefaultDelay = 0
    DefaultDuration = 2
    PollInterval = 0
    Specs <- WindowSpecs
    Horizon = 3
    MaxUserOps = 2
    MaxErrors = 1
    MaxCrashes = 1
CONSTRAINT
    UsersOrFaults
PROPERTIES
    AdmissibleGetsAdmitted
    AdmittedGetsScheduled
    DeletedLeavesQueue
CHECK_DEADLOCK FALSE
