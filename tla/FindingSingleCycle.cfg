SPECIFICATION OptimalitySpec
CONSTANTS
    NumPhysical = 3
    Couplings <- MCCouplings
    GateNames <- MCGateNames
    Latency <- MCOneCycle
    Environments <- MCTriangle
    InitialLayouts <- MCTriangleLayout
    MaxSearchCycles = 0
    Configurations <- MCSimple
    MaxCycle = 20
INVARIANT NeverAborts
CHECK_DEADLOCK FALSE
