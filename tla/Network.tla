------------------------------ MODULE Network ------------------------------
(***************************************************************************)
(* The vocabulary the modules share: networks, domain patterns, domains,   *)
(* addresses and the DNS responses that relate the last two.               *)
(***************************************************************************)
CONSTANTS
    Names,      \* names of networks
    Patterns,   \* domain patterns of policies
    Domains,    \* queried domains
    Ips,        \* addresses that answers carry
    V6Ips,      \* the IPv6 ones
    Matches,    \* the pairs <<d, p>> with domain_matches_pattern(d, p)
    Responses   \* the responses the upstream server may give

ASSUME MatchesAssumption == Matches \subseteq Domains \X Patterns
ASSUME V6Assumption == V6Ips \subseteq Ips

\* A response as inspect_and_update_state reads it: the names of its question
\* section and the A and AAAA data of its answers.  One that does not parse
\* has neither.
Response == [queries : SUBSET Domains, answers : SUBSET Ips]

ASSUME ResponsesAssumption == Responses \subseteq Response

\* Some pattern of the list matches the domain.
accepts(patterns, d) == \E p \in patterns : <<d, p>> \in Matches

\* The addresses that responses to domains the patterns accept can carry.
Reachable(patterns) ==
    {ip \in Ips : \E r \in Responses :
        ip \in r.answers /\ \E d \in r.queries : accepts(patterns, d)}
=============================================================================
