----------------------------- MODULE Admission -----------------------------
(***************************************************************************)
(* What the admission control of the DNS proxy promises, without           *)
(* semaphores: a bounded number of queries is inside; of these a bounded   *)
(* number of each client is served at a time, the others of that client    *)
(* wait in their order, and whoever is served to the end makes way for the *)
(* first of them in the same step.  DnsProxy implements it.                *)
(***************************************************************************)
EXTENDS Naturals, Sequences, FiniteSets

CONSTANTS
    Clients,    \* who sends queries
    Tasks,      \* identities of queries
    MaxGlobal,  \* queries inside at a time
    MaxPerIp    \* queries of a client served at a time

VARIABLES
    inside,     \* the queries that were admitted
    fresh,      \* <<t, c>>: query t of client c is inside and has not moved yet
    serving,    \* the queries of each client that are served
    waiting     \* those that wait to be, first come first

vars == <<inside, fresh, serving, waiting>>

Init ==
    /\ inside = {}
    /\ fresh = {}
    /\ serving = [c \in Clients |-> {}]
    /\ waiting = [c \in Clients |-> <<>>]

Admit(c, t) ==
    /\ t \notin inside
    /\ Cardinality(inside) < MaxGlobal
    /\ inside' = inside \cup {t}
    /\ fresh' = fresh \cup {<<t, c>>}
    /\ UNCHANGED <<serving, waiting>>

\* Nobody is overtaken: there is no one to wait behind.
Begin(c, t) ==
    /\ <<t, c>> \in fresh
    /\ waiting[c] = <<>>
    /\ Cardinality(serving[c]) < MaxPerIp
    /\ fresh' = fresh \ {<<t, c>>}
    /\ serving' = [serving EXCEPT ![c] = @ \cup {t}]
    /\ UNCHANGED <<inside, waiting>>

Wait(c, t) ==
    /\ <<t, c>> \in fresh
    /\ Cardinality(serving[c]) = MaxPerIp
    /\ fresh' = fresh \ {<<t, c>>}
    /\ waiting' = [waiting EXCEPT ![c] = Append(@, t)]
    /\ UNCHANGED <<inside, serving>>

\* A place that becomes free is never left so while someone waits for it.
Finish(c, t) ==
    /\ t \in serving[c]
    /\ \/ /\ waiting[c] = <<>>
          /\ serving' = [serving EXCEPT ![c] = @ \ {t}]
          /\ UNCHANGED waiting
       \/ /\ waiting[c] # <<>>
          /\ serving' = [serving EXCEPT ![c] = (@ \ {t}) \cup {Head(waiting[c])}]
          /\ waiting' = [waiting EXCEPT ![c] = Tail(@)]
    /\ UNCHANGED <<inside, fresh>>

\* A query leaves when it was served, and not before.
Leave(t) ==
    /\ t \in inside
    /\ \A c \in Clients :
        /\ <<t, c>> \notin fresh
        /\ t \notin serving[c]
        /\ \A i \in 1..Len(waiting[c]) : waiting[c][i] # t
    /\ inside' = inside \ {t}
    /\ UNCHANGED <<fresh, serving, waiting>>

Next == \E t \in Tasks :
    Leave(t) \/ \E c \in Clients : Admit(c, t) \/ Begin(c, t) \/ Wait(c, t) \/ Finish(c, t)

Spec == Init /\ [][Next]_vars
=============================================================================
