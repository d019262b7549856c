SPECIFICATION FairSpec
CONSTANTS
    Tasks = {t1, t2}
    Names = {n1}
    Commands = {"CREATE", "REMOVE"}
    PreparedNames = {}
    PrepareNames = {n1}
    Faults = {"crash", "ipset", "prepare"}
    Patterns <- MCPatterns
    Domains <- MCDomains
    Ips <- MCIps
    V6Ips <- MCV6Ips
    Matches <- MCMatches
    Responses <- MCResponses
    Policies <- MCOnePolicy
    NoChild = NoChild
    wild = wild
    exact = exact
    a = a
    b = b
    c = c
    i1 = i1
    i2 = i2
    i6 = i6
INVARIANT TypeOK
PROPERTY ImplementsDefaultDeny
PROPERTY EveryTaskEnds
