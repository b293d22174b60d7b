SPECIFICATION Spec
CONSTANTS
    NumPhysical = 4
    Couplings <- MCStar
    GateNames <- MCGateNames
    Latency <- MCLatency
    Environments <- MCBehind
    InitialLayouts <- MCBackwards
    Configurations <- MCFiltered
INVARIANT QueueNeverEmpty
CHECK_DEADLOCK FALSE
