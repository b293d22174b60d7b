SPECIFICATION Spec
CONSTANTS
    NumPhysical = 3
    Couplings <- MCCouplings
    GateNames <- MCGateNames
    Latency <- MCLatency
    DeviceFile <- MCDeviceFile
    Invocations <- MCDefinition
    Results <- MCResults
INVARIANTS
    DefinitionsAreEntire
