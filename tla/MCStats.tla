------------------------------ MODULE MCStats ------------------------------
(***************************************************************************)
(* Small instances of Stats: a domain that one of the two policies allows, *)
(* two networks, an origin inside a subnet and one inside none, and room   *)
(* for a single entry.                                                     *)
(***************************************************************************)
EXTENDS Stats, TLC

CONSTANTS pat, a, o1, o2, s1, s2

MCDomains  == {a}
MCPatterns == {pat}
MCMatches  == {<<a, pat>>}
MCPolicies == {{}, {pat}}
MCOrigins  == {o1, o2}
MCSubnets  == {s1, s2}
MCInSubnet == {<<o1, s1>>}

TaskAndNameSymmetry == Permutations(Tasks) \cup Permutations(Names)
=============================================================================
