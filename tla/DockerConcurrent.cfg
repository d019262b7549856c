SPECIFICATION Spec
CONSTANTS
    Procs = {p1, p2}
    Names = {n1, n2}
    Subnets = {A, B}
    Gateways = {g1, g2}
    MaxAttempts = 1
    MaxPreparations = 2
    MaxFaults = 0
    Faults = {}
    PlanOf <- MCDisjointPlanOf
    InitialChain <- MCInitialChain
    NoName = NoName
    n1 = n1
    n2 = n2
    A = A
    B = B
    g1 = g1
    g2 = g2
INVARIANT DefaultDenyAtRest
CHECK_DEADLOCK FALSE
