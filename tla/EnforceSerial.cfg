SPECIFICATION FairSpec
CONSTANTS
    Tasks = {t1}
    Names = {n1, n2}
    Commands = {"CREATE", "REMOVE"}
    PreparedNames = {n1}
    PrepareNames = {n1}
    Faults = {}
    Patterns <- MCPatterns
    Domains <- MCDomains
    Ips <- MCIps
    V6Ips <- MCV6Ips
    Matches <- MCMatches
    Responses <- MCAllowedResponses
    Policies <- MCPolicies
    NoChild = NoChild
    wild = wild
    exact = exact
    a = a
    b = b
    c = c
    i1 = i1
    i2 = i2
    i6 = i6
INVARIANT OnlyAuthorisedAddresses
INVARIANT NoMissingAddress
PROPERTY FlushPutsBack
PROPERTY EventuallyInstalled
