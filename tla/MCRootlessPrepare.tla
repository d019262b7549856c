------------------------- MODULE MCRootlessPrepare -------------------------
(***************************************************************************)
(* Two policies whose hashes collide, in a range of four addresses one of  *)
(* which somebody else has, so that the search for a free one meets an     *)
(* occupied one and wraps.  The first policy is prepared with one of two   *)
(* ports over one of two interfaces, of which one has a routed prefix; the *)
(* second with port 53.  Others move when a process has read the rules and *)
(* looks for a free address, and when it has chosen its addresses and not  *)
(* yet taken them, but not while it installs sets and rules.               *)
(***************************************************************************)
EXTENDS RootlessPrepare, TLC

CONSTANTS p1, p2, n1, n2, eth, tun, x, y

MCHash      == [n \in {n1, n2} |-> 7]
MCMarkerIn  == {<<n1, n1>>, <<n2, n2>>}
MCGlobalAddrs ==
    LET narrow == [prefix |-> y, length |-> 128]
        wide   == [prefix |-> x, length |-> 64]
    IN  [i \in {eth, tun} |-> IF i = eth THEN <<narrow, wide>> ELSE <<narrow>>]
MCEnvironments == {<<n1, 5353, eth>>, <<n1, 5454, tun>>, <<n2, 53, eth>>}
MCInterleaved == {"idle", "probe4", "assign4"}
MCTaken     == {5}

Symmetry == Permutations({p1, p2})
=============================================================================
