------------------------- MODULE MCDaemonLifecycle -------------------------
(***************************************************************************)
(* One preparation for Docker and one for Podman at the same time; or two  *)
(* for Podman.                                                             *)
(***************************************************************************)
EXTENDS DaemonLifecycle

CONSTANTS c1, c2

MCOnePodman == [c \in {c1, c2} |-> IF c = c1 THEN "podman" ELSE "docker"]
MCTwoPodman == [c \in {c1, c2} |-> "podman"]
=============================================================================
