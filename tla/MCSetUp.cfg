SPECIFICATION SetUpSpec
CONSTANTS
    MaxQubits = 3
    Runs <- MCRuns
    Programs <- MCPrograms
    CouplingMaps <- MCCouplingMaps
    OptimisticLatency <- MCLatency
INVARIANTS
    SetUpTypeOK
    GraphCorrect
    RootsCorrect
    ImplementsGraphOf
    IdealCyclesCorrect
    DistancesCorrect
    HandsOverEnvironment
    SearchCyclesReach
PROPERTIES
    SetUpTerminates
CHECK_DEADLOCK FALSE
