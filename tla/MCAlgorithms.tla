---------------------------- MODULE MCAlgorithms ----------------------------
(***************************************************************************)
(* The pure functions, each tried on every input up to a bound: a step     *)
(* picks the function and the input.  Addresses that are compared with a   *)
(* subnet have 4 and 6 bits.  Addresses of names are numbered as in the    *)
(* code: gateways are tried for every slot, and sources for hashes and     *)
(* attempts at the ends of the range and in its middle, where the second   *)
(* octet changes.                                                          *)
(***************************************************************************)
EXTENDS DomainMatch, SubnetMatch, AddressCases

CONSTANTS
    MaxDomain,      \* bound: length of the domains tried
    MaxPattern,     \* bound: length of the patterns tried
    MaxLength       \* bound: prefix lengths tried, beyond the bits there are

MCBits == [v4 |-> 4, v6 |-> 6]
MCSlots == 0 .. 3600
MCEdges == {0, 1, 65533, 65534, 65535, 131067, 131068}

TryDomain ==
    \E k \in 0 .. MaxDomain, l \in 0 .. MaxPattern :
        \E d \in [1 .. k -> Chars], p \in [1 .. l -> Chars] :
            input' = [kind |-> "domain", domain |-> d, pattern |-> p]

TrySubnet ==
    \E ip \in Address, net \in Address \cup {Invalid}, len \in (0 .. MaxLength) \cup {Invalid} :
        input' = [kind |-> "subnet", ip |-> ip, net |-> net, len |-> len]

Next == TryAddress \/ (input.kind = "none" /\ (TryDomain \/ TrySubnet))

Spec == Init /\ [][Next]_input
-----------------------------------------------------------------------------
\* Comparing characters after normalisation is comparing labels: a wildcard
\* never matches inside a label, accepts the bare suffix too, is literal
\* where nothing follows it, and neither case nor trailing dots matter.
MatchesWholeLabels ==
    input.kind = "domain" =>
        (domain_matches_pattern(input.domain, input.pattern)
            <=> MatchesLabels(input.domain, input.pattern))

\* The mask test is membership in the block of the subnet, at length 0 and
\* at lengths of the width and beyond too, where a shift would overflow, and
\* for addresses of IPv4 in either notation.  What is no subnet holds nobody.
SubnetIsBlock ==
    input.kind = "subnet" =>
        (ip_in_subnet(input.ip, input.net, input.len) <=> InBlock(input.ip, input.net, input.len))
=============================================================================
