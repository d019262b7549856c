SPECIFICATION Spec
CONSTANTS
    Tasks = {t1, t2}
    Names = {n1}
    Commands = {}
    PreparedNames = {}
    PrepareNames = {n1}
    Faults = {}
    Patterns <- MCPatterns
    Domains <- MCDomains
    Ips <- MCIps
    V6Ips <- MCV6Ips
    Matches <- MCMatches
    Responses <- MCResponses
    Policies <- MCOnePolicy
    NoChild = NoChild
    wild = wild
    exact = exact
    a = a
    b = b
    c = c
    i1 = i1
    i2 = i2
    i6 = i6
INVARIANT NoMissingAddress
