SPECIFICATION OptimalitySpec
CONSTANTS
    NumPhysical = 4
    Couplings <- MCLine
    GateNames <- MCGateNames
    Latency <- MCLatency
    Environments <- MCLineEnvironments
    InitialLayouts <- MCLineLayouts
    MaxSearchCycles = 0
    Configurations <- MCExact
    MaxCycle = 20
INVARIANTS
    CostIsEnd
    ResultIsShortest
    CostsAreLowerBounds
    NeverAborts
PROPERTIES
    ImplementsMapping
CHECK_DEADLOCK FALSE
