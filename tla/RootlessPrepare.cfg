SPECIFICATION Spec
CONSTANTS
    Procs = {p1, p2}
    Names = {n1, n2}
    Hash <- MCHash
    MarkerIn <- MCMarkerIn
    Interfaces = {eth, tun}
    GlobalAddrs <- MCGlobalAddrs
    Ports = {53, 5353, 5454}
    Environments <- MCEnvironments
    TakenAddrs <- MCTaken
    SourceSlots = 4
    HostIds = 8
    Attempts6 = 3
    SubnetCount = 2
    UsableHosts = 3
    None = None
    MaxPreparations = 3
    MaxFaults = 1
    Interleaved <- MCInterleaved
    Faults = {"command", "kill", "xtables-lock"}
    p1 = p1
    p2 = p2
    n1 = n1
    n2 = n2
    eth = eth
    tun = tun
    x = x
    y = y
INVARIANT TypeOK
INVARIANT RootlessFirewall
INVARIANT SharedOnlyByOverlap
INVARIANT DnsReachesDaemon
PROPERTY AddressKept
SYMMETRY Symmetry
CHECK_DEADLOCK FALSE
