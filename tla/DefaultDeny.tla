---------------------------- MODULE DefaultDeny ----------------------------
(***************************************************************************)
(* What Dockerwall promises, with no daemon, table or process in it.  The  *)
(* administrator grants patterns to networks; addresses become reachable   *)
(* from a network one at a time, and only if a response to a domain that   *)
(* was granted to that very network carries them.  Closing is always safe. *)
(***************************************************************************)
EXTENDS Network

VARIABLES
    granted,    \* the patterns each network was ever granted
    allowed     \* the addresses each network may reach now

vars == <<granted, allowed>>

Init ==
    /\ granted = [n \in Names |-> {}]
    /\ allowed = [n \in Names |-> {}]

Grant(n, patterns) ==
    /\ granted' = [granted EXCEPT ![n] = @ \cup patterns]
    /\ UNCHANGED allowed

Open(n, ip) ==
    /\ ip \in Reachable(granted[n])
    /\ allowed' = [allowed EXCEPT ![n] = @ \cup {ip}]
    /\ UNCHANGED granted

Close(n, ips) ==
    /\ allowed' = [allowed EXCEPT ![n] = @ \ ips]
    /\ UNCHANGED granted

Next ==
    \E n \in Names :
        \/ \E patterns \in SUBSET Patterns : Grant(n, patterns)
        \/ \E ip \in Ips : Open(n, ip)
        \/ \E ips \in SUBSET Ips : Close(n, ips)

Spec == Init /\ [][Next]_vars
=============================================================================
