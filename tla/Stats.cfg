SPECIFICATION Spec
CONSTANTS
    Names = {n1, n2}
    Tasks = {t1, t2}
    pat = pat
    a = a
    o1 = o1
    o2 = o2
    s1 = s1
    s2 = s2
    Patterns <- MCPatterns
    Domains <- MCDomains
    Ips = {}
    V6Ips = {}
    Matches <- MCMatches
    Responses = {}
    Policies <- MCPolicies
    Subnets <- MCSubnets
    Origins <- MCOrigins
    InSubnet <- MCInSubnet
    TTL = 2
    MaxEntries = 1
    MaxTime = 2
    MaxResolves = 3
    MaxPending = 1
    None = None
INVARIANT TypeOK
INVARIANT RegistryConsistent
INVARIANT ReportComplete
INVARIANT EntriesBounded
PROPERTY OnlyOldEntriesExpire
SYMMETRY TaskAndNameSymmetry
