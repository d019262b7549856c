---------------------------- MODULE AddressCases ----------------------------
(***************************************************************************)
(* The arithmetic of Addressing, tried on inputs: a step picks a function  *)
(* and what it is called with.                                             *)
(***************************************************************************)
EXTENDS Addressing

CONSTANTS
    PlanHashes,     \* hashes of a network's name and of an attempt
    SourceHashes,   \* hashes of a policy's name
    Attempts        \* attempts to find a source address

ASSUME CasesAssumption == PlanHashes \cup SourceHashes \cup Attempts \subseteq Nat

VARIABLE input

Init == input = [kind |-> "none"]

TryGateway == \E h \in PlanHashes : input' = [kind |-> "gateway", hash |-> h]

TrySource ==
    \E h \in SourceHashes, a \in Attempts :
        input' = [kind |-> "source", hash |-> h, attempt |-> a]

TrySearch == \E h \in SourceHashes : input' = [kind |-> "search", hash |-> h]

TryAddress == input.kind = "none" /\ (TryGateway \/ TrySource \/ TrySearch)

AddressSpec == Init /\ [][TryAddress]_input
-----------------------------------------------------------------------------
\* The gateway computed for a name is a host of its subnet, neither the
\* first address nor the last, and belongs to no other Dockerwall subnet.
GatewayIsHost ==
    input.kind = "gateway" =>
        LET g == subnet_and_gateway(input.hash)
            address == g.third * Octet + g.gateway
        IN  /\ g.gateway \in 1 .. SubnetSize - 2
            /\ \A third \in 0 .. Octet - 1 :
                address \in third * Octet .. third * Octet + SubnetSize - 1 <=> third = g.third

\* Every source address that a policy can get is one whose queries the proxy
\* answers, and none is the alias that queries are sent to: the search wraps
\* within 198.18.0.0/15, whatever the hash and however often it was tried.
SourceIsServed ==
    input.kind = "source" =>
        LET offset == rootless_podman_source_ip(input.hash, input.attempt)
        IN  /\ is_local_ip(198, 18 + offset \div (Octet * Octet))
            /\ offset # RootlessDnsIp

\* The search for a source address gives up after as many attempts as there
\* are addresses, and has then met every one of them, wherever the hash of
\* the name made it begin: no free address is passed over.
SearchIsComplete ==
    input.kind = "search" =>
        {rootless_podman_source_ip(input.hash, a) : a \in 0 .. SourceSlots - 1} = SourceOffsets
=============================================================================
