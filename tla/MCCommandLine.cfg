SPECIFICATION Spec
CONSTANTS
    NumPhysical = 3
    Couplings <- MCCouplings
    GateNames <- MCGateNames
    Latency <- MCLatency
    DeviceFile <- MCDeviceFile
    Invocations <- MCInvocations
    Results <- MCResults
INVARIANTS
    ReadsProgram
    ChoicesAreRespected
    OutputIsEquivalent
    OutputIsWellFormed
