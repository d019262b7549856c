SPECIFICATION Spec
CONSTANTS
    Procs = {p1}
    Names = {n1, n2}
    Subnets = {A, B}
    Gateways = {g1, g2}
    MaxAttempts = 2
    MaxPreparations = 3
    MaxFaults = 3
    Faults = {"command", "kill", "xtables-lock"}
    PlanOf <- MCPlanOf
    InitialChain <- MCInitialChain
    NoName = NoName
    n1 = n1
    n2 = n2
    A = A
    B = B
    g1 = g1
    g2 = g2
INVARIANT TypeOK
INVARIANT FirewallHolds
INVARIANT DnsGoesToGateway
INVARIANT NoDuplicateRule
CHECK_DEADLOCK FALSE
