SPECIFICATION Spec
CONSTANTS
    NumPhysical = 3
    Couplings <- MCCouplings
    GateNames <- MCGateNames
    Latency <- MCLatency
    Environments <- MCSwapCircuits
    InitialLayouts <- MCLayouts
    MaxSearchCycles = 1
    MaxCycle = 4
INVARIANTS
    LayoutConsistent
    NoOverlap
CHECK_DEADLOCK FALSE
