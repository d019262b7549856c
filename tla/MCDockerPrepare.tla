-------------------------- MODULE MCDockerPrepare --------------------------
(***************************************************************************)
(* Two networks whose plans collide: both may get subnet A, the first one  *)
(* with either gateway, and the second may move to subnet B.  DOCKER-USER  *)
(* holds the RETURN rule that Docker puts there.                           *)
(***************************************************************************)
EXTENDS DockerPrepare

CONSTANTS n1, n2, A, B, g1, g2

MCPlanOf ==
    [n \in {n1, n2} |-> [k \in 0 .. 1 |->
        IF n = n1
        THEN [subnet |-> A, gateway |-> IF k = 0 THEN g1 ELSE g2]
        ELSE [subnet |-> IF k = 0 THEN A ELSE B, gateway |-> g1]]]

\* Plans that never collide.
MCDisjointPlanOf ==
    [n \in {n1, n2} |-> [k \in 0 .. 0 |->
        [subnet |-> IF n = n1 THEN A ELSE B, gateway |-> g1]]]

MCInitialChain == <<return>>
=============================================================================
