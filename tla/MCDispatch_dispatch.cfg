SPECIFICATION FairSpec
CONSTANTS
    Names = {"m1", "m2"}
    Nodes <- TwoNodes
    Paths = {"machineID"}
    MaxMachines = 2
    Scenarios <- AllScenarios
INVARIANTS
    TypeOK
    OneJobPerNodeMachine
PROPERTIES
    
    EligibleNodesGetJobs
CHECK_DEADLOCK FALSE
