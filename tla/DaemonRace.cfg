SPECIFICATION Spec
CONSTANTS
    Daemons = {d1, d2}
    Clients = {c1, c2}
    RuntimeOf <- MCTwoPodman
    Names = {n1}
    Ports = {53, 5353}
    DefaultPort = 5353
    MaxPolls = 2
    None = None
    MaxPreparations = 2
    MaxByHand = 0
    Faults = {}
    c1 = c1
    c2 = c2
INVARIANT DaemonReachable
CHECK_DEADLOCK FALSE
