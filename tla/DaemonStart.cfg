SPECIFICATION Spec
CONSTANTS
    Daemons = {d1, d2, d3}
    Clients = {c1, c2}
    RuntimeOf <- MCOnePodman
    Names = {n1}
    Ports = {53, 5353}
    DefaultPort = 5353
    MaxPolls = 2
    None = None
    MaxPreparations = 2
    MaxByHand = 1
    Faults = {"kill"}
    c1 = c1
    c2 = c2
INVARIANT TypeOK
INVARIANT LoneDaemonReachable
INVARIANT PolicyServed
PROPERTY GivesUpForCause
PROPERTY PreparationEnds
CHECK_DEADLOCK FALSE
