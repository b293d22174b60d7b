SPECIFICATION Spec
CONSTANTS
    NumPhysical = 3
    Couplings <- MCCouplings
    GateNames <- MCGateNames
    Latency <- MCSlowLatency
    Environments <- MCSlowCircuits
    InitialLayouts <- MCLayouts
    MaxSearchCycles = 0
    MaxCycle = 6
INVARIANT ResultHasNoOverlap
CHECK_DEADLOCK FALSE
