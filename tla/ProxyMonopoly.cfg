SPECIFICATION Spec
CONSTANTS
    c1 = c1
    c2 = c2
    remote = remote
    Clients <- MCClients
    LocalClients <- MCLocalClients
    Tasks = {t1, t2, t3, t4, t5}
    MaxGlobal = 4
    MaxPerIp = 2
    NoClient = NoClient
INVARIANT NoMonopoly
