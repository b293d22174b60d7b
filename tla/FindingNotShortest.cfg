SPECIFICATION OptimalitySpec
CONSTANTS
    NumPhysical = 4
    Couplings <- MCMarkedLine
    GateNames <- MCGateNames
    Latency <- MCLatency
    Environments <- MCMarked
    InitialLayouts <- MCMarkedLayout
    MaxSearchCycles = 0
    Configurations <- MCPlain
    MaxCycle = 20
INVARIANT ResultIsShortest
CHECK_DEADLOCK FALSE
