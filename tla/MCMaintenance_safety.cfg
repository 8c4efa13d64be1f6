SPECIFICATION Spec
CONSTANTS
    Names = {m1}
    NoSpec = NoSpec
    DefaultDelay = 1
    DefaultDuration = 1
    PollInterval = 1
    Specs <- RoamingSpecs
    Horizon = 4
    MaxUserOps = 3
    MaxErrors = 1
    MaxCrashes = 1
CONSTRAINT
    FewDisturbances
INVARIANTS
    TypeOK
    AcceptedVersionsExtend
    VersionsInOrder
    WindowsAgree
    JobsOnlyInWindow
    PendingJobsConsistent
    FewTimers
PROPERTIES
    ImplementsPhases
CHECK_DEADLOCK FALSE
