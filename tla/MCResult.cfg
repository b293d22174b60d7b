SPECIFICATION Spec
CONSTANTS
    NumPhysical = 3
    Couplings <- MCCouplings
    GateNames <- MCGateNames
    Latency <- MCLatency
    Environments <- MCEnvironments
    InitialLayouts <- MCLayouts
    MaxSearchCycles = 1
    MaxCycle = 6
INVARIANTS
    TypeOK
    LayoutConsistent
    ReadyIsFrontier
    CountIsExact
    NoOverlap
    DependenciesInTime
    OnCoupledQubits
    ReplayIsFaithful
    InferredLayoutIsComplete
    OrderIsPreserved
CHECK_DEADLOCK FALSE
