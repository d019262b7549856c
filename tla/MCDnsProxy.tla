----------------------------- MODULE MCDnsProxy -----------------------------
(***************************************************************************)
(* Small instances of DnsProxy: two local clients and a remote one, and    *)
(* one task identity more than there are global permits, so that it is the *)
(* semaphore and not the instance that stops the loop.                     *)
(***************************************************************************)
EXTENDS DnsProxy, TLC

CONSTANTS c1, c2, remote

MCClients      == {c1, c2, remote}
MCLocalClients == {c1, c2}

ClientAndTaskSymmetry == Permutations(Tasks) \cup Permutations({c1, c2})
=============================================================================
