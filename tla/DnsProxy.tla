------------------------------ MODULE DnsProxy ------------------------------
(***************************************************************************)
(* Admission control of the DNS proxy (src/proxy.rs).  One loop receives   *)
(* packets and spawns a task per query.  The loop takes a permit of the    *)
(* global semaphore or drops the packet; the task then waits for a permit  *)
(* of its client's semaphore.  Both permits are released when the task     *)
(* returns, on whatever path, the client's one first.                      *)
(***************************************************************************)
EXTENDS Naturals, Sequences, FiniteSets

CONSTANTS
    Clients,        \* source addresses of packets
    LocalClients,   \* those that is_local_ip accepts
    Tasks,          \* identities of spawned tasks
    MaxGlobal,      \* MAX_CONCURRENT_GLOBAL
    MaxPerIp,       \* MAX_CONCURRENT_PER_IP
    NoClient        \* the client of an identity not in use

ASSUME ProxyAssumption ==
    /\ LocalClients \subseteq Clients
    /\ MaxGlobal \in Nat \ {0}
    /\ MaxPerIp \in Nat \ {0}
    /\ NoClient \notin Clients
    /\ IsFiniteSet(Tasks)

VARIABLES
    global,     \* permits left in the global semaphore
    limits,     \* PER_IP_LIMITS: permits left for each client seen so far
    queue,      \* tasks waiting at each client's semaphore, first come first
    pc,         \* where each task is
    client      \* the client it serves

vars == <<global, limits, queue, pc, client>>

Holding == {"forward", "inspect", "reply", "ret"}   \* a client's permit is held
TaskPcs == Holding \cup {"free", "spawned", "waiting", "drop"}

TypeOK ==
    /\ global \in 0..MaxGlobal
    /\ DOMAIN limits \subseteq LocalClients
    /\ limits \in [DOMAIN limits -> 0..MaxPerIp]
    /\ queue \in [Clients -> Seq(Tasks)]
    /\ pc \in [Tasks -> TaskPcs]
    /\ client \in [Tasks -> Clients \cup {NoClient}]

Init ==
    /\ global = MaxGlobal
    /\ limits = [c \in {} |-> 0]
    /\ queue = [c \in Clients |-> <<>>]
    /\ pc = [t \in Tasks |-> "free"]
    /\ client = [t \in Tasks |-> NoClient]
-----------------------------------------------------------------------------
\* Variants with a fault: a permit too few, and one too many.
NewSemaphore_OneLess == MaxPerIp - 1
NewSemaphore_OneMore == MaxPerIp + 1

\* The semaphore of a client that was not seen before.
NewSemaphore == MaxPerIp

\* One turn of the loop.  A packet of a client that is not local, or one that
\* finds no global permit, is dropped and changes nothing.
run_dns_proxy(c, t) ==
    /\ c \in LocalClients
    /\ global > 0
    /\ pc[t] = "free"
    /\ global' = global - 1
    /\ limits' = [d \in DOMAIN limits \cup {c} |->
                    IF d \in DOMAIN limits THEN limits[d] ELSE NewSemaphore]
    /\ pc' = [pc EXCEPT ![t] = "spawned"]
    /\ client' = [client EXCEPT ![t] = c]
    /\ UNCHANGED queue

\* First poll of the task: the permit if there is one, else the queue.
acquire(t) ==
    /\ pc[t] = "spawned"
    /\ \/ /\ limits[client[t]] > 0
          /\ limits' = [limits EXCEPT ![client[t]] = @ - 1]
          /\ pc' = [pc EXCEPT ![t] = "forward"]
          /\ UNCHANGED queue
       \/ /\ limits[client[t]] = 0
          /\ queue' = [queue EXCEPT ![client[t]] = Append(@, t)]
          /\ pc' = [pc EXCEPT ![t] = "waiting"]
          /\ UNCHANGED limits
    /\ UNCHANGED <<global, client>>

\* Variant with a fault: the error path forgets the client's permit.
AfterForward_Leaks == {"inspect", "drop"}

AfterForward == {"inspect", "ret"}

\* An answer arrives, or the task returns on an error or after five seconds.
forward_dns_query(t) ==
    /\ pc[t] = "forward"
    /\ \E next \in AfterForward : pc' = [pc EXCEPT ![t] = next]
    /\ UNCHANGED <<global, limits, queue, client>>

\* An error of the update is logged and the answer is still sent.
inspect_and_update_state(t) ==
    /\ pc[t] = "inspect"
    /\ pc' = [pc EXCEPT ![t] = "reply"]
    /\ UNCHANGED <<global, limits, queue, client>>

send_dns_response(t) ==
    /\ pc[t] = "reply"
    /\ pc' = [pc EXCEPT ![t] = "ret"]
    /\ UNCHANGED <<global, limits, queue, client>>

\* Variant with a fault: the permit returns to the semaphore, nobody is woken.
release_ip_NoWake(t) ==
    /\ pc[t] = "ret"
    /\ limits' = [limits EXCEPT ![client[t]] = @ + 1]
    /\ pc' = [pc EXCEPT ![t] = "drop"]
    /\ UNCHANGED <<global, queue, client>>

\* _ip_permit is dropped: the semaphore hands it to the first waiter, if any.
release_ip(t) ==
    LET c == client[t] IN
    /\ pc[t] = "ret"
    /\ \/ /\ queue[c] = <<>>
          /\ limits' = [limits EXCEPT ![c] = @ + 1]
          /\ pc' = [pc EXCEPT ![t] = "drop"]
          /\ UNCHANGED queue
       \/ /\ queue[c] # <<>>
          /\ queue' = [queue EXCEPT ![c] = Tail(@)]
          /\ pc' = [pc EXCEPT ![t] = "drop", ![Head(queue[c])] = "forward"]
          /\ UNCHANGED limits
    /\ UNCHANGED <<global, client>>

\* _global_permit is dropped and the task is gone.
release_global(t) ==
    /\ pc[t] = "drop"
    /\ global' = global + 1
    /\ pc' = [pc EXCEPT ![t] = "free"]
    /\ client' = [client EXCEPT ![t] = NoClient]
    /\ UNCHANGED <<limits, queue>>

TaskStep(t) ==
    \/ acquire(t)
    \/ forward_dns_query(t)
    \/ inspect_and_update_state(t)
    \/ send_dns_response(t)
    \/ release_ip(t)
    \/ release_global(t)

Next == \E t \in Tasks : TaskStep(t) \/ \E c \in Clients : run_dns_proxy(c, t)

Spec == Init /\ [][Next]_vars

\* The runtime polls tasks that are ready, the wait for the upstream server
\* has a timeout, and `ipset` returns.  Nothing is assumed of the clients.
FairSpec == Spec /\ \A t \in Tasks : WF_vars(TaskStep(t))
-----------------------------------------------------------------------------
(* Properties *)

Busy       == {t \in Tasks : pc[t] # "free"}
Of(c)      == {t \in Tasks : client[t] = c}
Holders(c) == {t \in Of(c) : pc[t] \in Holding}
Waiters(c) == {t \in Of(c) : pc[t] = "waiting"}

\* No path through a task loses or duplicates a permit: the permits left and
\* the tasks that hold one always add up, for the global semaphore and for
\* every client's, between the two releases as well.
PermitsConserved ==
    /\ global + Cardinality(Busy) = MaxGlobal
    /\ \A c \in DOMAIN limits : limits[c] + Cardinality(Holders(c)) = MaxPerIp

\* A query that was admitted waits only behind its own client: there are
\* MaxPerIp queries of that client in progress, so nobody else's load, and no
\* lost wake-up, keeps it waiting.
WaitsOnlyForItself ==
    \A c \in Clients : Waiters(c) # {} => Cardinality(Holders(c)) = MaxPerIp

Fresh   == {<<t, client[t]>> : t \in {u \in Tasks : pc[u] = "spawned"}}
Serving == [c \in Clients |-> Holders(c)]

Queries == INSTANCE Admission WITH
    inside <- Busy, fresh <- Fresh, serving <- Serving, waiting <- queue

\* Two semaphores, with permits that tasks hold across awaits and give back
\* one after the other on every way out, amount to the abstract admission:
\* limits are never exceeded, a client's queries are served in their order,
\* none takes a place that another waits for, and none ends unserved.
ImplementsAdmission == Queries!Spec

\* Every query that was admitted is dealt with, also when its client sends
\* without pause, the upstream server never answers and updates fail.
AdmittedQueryEnds == \A t \in Tasks : pc[t] # "free" ~> pc[t] = "free"

\* The README's isolation claim: a client over its own limit never holds
\* every global permit as well, which is when packets of all others drop.
NoMonopoly ==
    \A c \in Clients : Waiters(c) # {} => Cardinality(Of(c)) < MaxGlobal
=============================================================================
