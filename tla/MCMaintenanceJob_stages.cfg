SPECIFICATION Spec
CONSTANTS
    n1 = n1
    n2 = n2
    Nodes <- BothNodes
    Specs <- DrainSpecs
    PollInterval = 1
    Horizon = 3
    MaxUserOps = 3
    MaxErrors = 1
    MaxLost = 1
    MaxCrashes = 1
CONSTRAINT FewDisturbances
INVARIANTS
    TypeOK
    ResultsInTurn
    OutcomeOfStages
    SuccessMeansTainted
PROPERTIES
    ResultsStay
    ImplementsPhases
CHECK_DEADLOCK FALSE
