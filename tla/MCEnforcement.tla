--------------------------- MODULE MCEnforcement ---------------------------
(***************************************************************************)
(* Small instances of Enforcement: a wildcard pattern that accepts two     *)
(* domains, an exact one that accepts the first, and a domain no pattern   *)
(* accepts whose address must never open.                                  *)
(***************************************************************************)
EXTENDS Enforcement

CONSTANTS wild, exact, a, b, c, i1, i2, i6

MCPatterns == {wild, exact}
MCDomains  == {a, b, c}
MCIps      == {i1, i2, i6}
MCV6Ips    == {i6}
MCMatches  == {<<a, wild>>, <<b, wild>>, <<a, exact>>}
MCPolicies == {{wild}, {exact}}
MCOnePolicy == {{wild}}

\* The two allowed domains resolve to different addresses, of both families.
MCResponses ==
    { [queries |-> {a}, answers |-> {i1}],
      [queries |-> {b}, answers |-> {i6}],
      [queries |-> {c}, answers |-> {i2}] }

\* Without the domain that no pattern accepts: the second is foreign to {exact}.
MCAllowedResponses == {r \in MCResponses : c \notin r.queries}
=============================================================================
