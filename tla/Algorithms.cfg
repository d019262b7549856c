SPECIFICATION Spec
CONSTANTS
    MaxDomain = 5
    MaxPattern = 4
    MaxLength = 8
    Bits <- MCBits
    MappedBlock = 1
    Invalid = Invalid
    SubnetCount = 256
    UsableHosts = 14
    SourceSlots = 131069
    HostIds = 8
    PlanHashes <- MCSlots
    SourceHashes <- MCEdges
    Attempts <- MCEdges
INVARIANT MatchesWholeLabels
INVARIANT SubnetIsBlock
INVARIANT GatewayIsHost
INVARIANT SourceIsServed
INVARIANT SearchIsComplete
CHECK_DEADLOCK FALSE
