SPECIFICATION Spec
CONSTANTS
    NumPhysical = 4
    Couplings <- MCLine
    GateNames <- MCGateNames
    Latency <- MCLatency
    Environments <- MCEnvironments
    InitialLayouts <- MCLayouts
    Configurations <- MCConfigurations
INVARIANTS
    NeverAborts
    NodesAreSound
    ResultIsCorrect
    RecordsAreLive
    IdealIsReached
PROPERTIES
    ImplementsMapping
    OnlyReplacedNodesDie
CHECK_DEADLOCK FALSE
