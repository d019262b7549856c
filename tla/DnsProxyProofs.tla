--------------------------- MODULE DnsProxyProofs ---------------------------
(***************************************************************************)
(* Proofs about DnsProxy for every number of clients and every value of    *)
(* the two limits.                                                         *)
(***************************************************************************)
EXTENDS DnsProxy, FiniteSetTheorems, TLAPS

-----------------------------------------------------------------------------
(* What makes the properties inductive *)

\* The queue of a client holds exactly its waiting tasks, each once.
HoldsWaiters(c) ==
    /\ \A i \in 1..Len(queue[c]) : queue[c][i] \in Waiters(c)
    /\ \A i, j \in 1..Len(queue[c]) : queue[c][i] = queue[c][j] => i = j
    /\ \A t \in Waiters(c) : \E i \in 1..Len(queue[c]) : queue[c][i] = t

QueueExact == \A c \in Clients : HoldsWaiters(c)

\* A task in progress serves a client that has a semaphore.
ClientsKnown ==
    \A t \in Tasks : IF pc[t] = "free" THEN client[t] = NoClient
                                       ELSE client[t] \in DOMAIN limits

\* Tasks wait only at a semaphore without permits.
NoIdlePermit == \A c \in Clients : Waiters(c) # {} => c \in DOMAIN limits /\ limits[c] = 0

IInv ==
    /\ TypeOK
    /\ PermitsConserved
    /\ QueueExact
    /\ ClientsKnown
    /\ NoIdlePermit
-----------------------------------------------------------------------------
\* Sets of tasks are finite, and adding or removing one counts one.
LEMMA TaskSets ==
    ASSUME NEW S \in SUBSET Tasks
    PROVE  /\ IsFiniteSet(S)
           /\ Cardinality(S) \in Nat
           /\ \A t \in Tasks \ S : Cardinality(S \cup {t}) = Cardinality(S) + 1
           /\ \A t \in S : Cardinality(S \ {t}) = Cardinality(S) - 1
<1>1. IsFiniteSet(S)
  BY ProxyAssumption, FS_Subset
<1>2. Cardinality(S) \in Nat
  BY <1>1, FS_CardinalityType
<1>3. ASSUME NEW t \in Tasks \ S PROVE Cardinality(S \cup {t}) = Cardinality(S) + 1
  BY <1>1, FS_AddElement
<1>4. ASSUME NEW t \in S PROVE Cardinality(S \ {t}) = Cardinality(S) - 1
  BY <1>1, FS_RemoveElement
<1> QED BY <1>1, <1>2, <1>3, <1>4

\* Initially every permit is there and nobody waits.
LEMMA InitInv == Init => IInv
<1> SUFFICES ASSUME Init PROVE IInv
  OBVIOUS
<1> USE ProxyAssumption DEF Init
<1>1. TypeOK
  BY DEF TypeOK, TaskPcs
<1>2. PermitsConserved
  <2>1. Busy = {} /\ DOMAIN limits = {}
    BY DEF Busy
  <2> QED BY <2>1, FS_EmptySet DEF PermitsConserved
<1>3. QueueExact /\ ClientsKnown /\ NoIdlePermit
  BY DEF QueueExact, HoldsWaiters, ClientsKnown, NoIdlePermit, Waiters, Of
<1> QED BY <1>1, <1>2, <1>3 DEF IInv

\* A turn of the loop takes a global permit for the task it spawns.
LEMMA SpawnInv ==
    ASSUME IInv, NEW t \in Tasks, NEW c \in Clients, run_dns_proxy(c, t)
    PROVE  IInv'
<1> USE ProxyAssumption DEF IInv, run_dns_proxy, NewSemaphore
<1>1. /\ pc[t] = "free" /\ client[t] = NoClient
      /\ \A u \in Tasks : u # t => pc'[u] = pc[u] /\ client'[u] = client[u]
      /\ pc'[t] = "spawned" /\ client'[t] = c
  BY DEF TypeOK, ClientsKnown
<1>2. \A d \in Clients : Holders(d)' = Holders(d) /\ Waiters(d)' = Waiters(d)
  BY <1>1 DEF Holders, Waiters, Of, Holding
<1>3. TypeOK'
  BY DEF TypeOK, TaskPcs
<1>4. PermitsConserved'
  <2>1. Busy' = Busy \cup {t} /\ t \in Tasks \ Busy
    BY <1>1 DEF Busy
  <2>2. Cardinality(Busy') = Cardinality(Busy) + 1 /\ Cardinality(Busy) \in Nat
    BY <2>1, TaskSets DEF Busy
  <2>3. global' + Cardinality(Busy') = MaxGlobal
    BY <2>2 DEF PermitsConserved, TypeOK
  <2>4. ASSUME NEW d \in DOMAIN limits' PROVE limits'[d] + Cardinality(Holders(d)') = MaxPerIp
    <3>1. CASE d \in DOMAIN limits
      BY <1>2, <3>1 DEF PermitsConserved, TypeOK
    <3>2. CASE d \notin DOMAIN limits
      <4>1. Holders(d) = {}
        BY <3>2 DEF ClientsKnown, Holders, Of, Holding
      <4>2. Cardinality(Holders(d)') = 0
        BY <1>2, <4>1, FS_EmptySet DEF TypeOK
      <4>3. limits'[d] = MaxPerIp
        BY <3>2
      <4> QED BY <4>2, <4>3
    <3> QED BY <3>1, <3>2
  <2> QED BY <2>3, <2>4 DEF PermitsConserved
<1>5. QueueExact'
  BY <1>2 DEF QueueExact, HoldsWaiters
<1>6. ClientsKnown'
  BY <1>1 DEF ClientsKnown
<1>7. NoIdlePermit'
  BY <1>2 DEF NoIdlePermit, TypeOK
<1> QED BY <1>3, <1>4, <1>5, <1>6, <1>7

\* The first poll takes a permit that is left, or joins the queue.
LEMMA AcquireInv ==
    ASSUME IInv, NEW t \in Tasks, acquire(t)
    PROVE  IInv'
<1> USE ProxyAssumption DEF IInv
<1>0. PICK c \in Clients :
        pc[t] = "spawned" /\ c = client[t] /\ c \in DOMAIN limits /\ c # NoClient
  BY DEF acquire, ClientsKnown, TypeOK
<1>1. Busy' = Busy
  BY <1>0 DEF acquire, Busy, TypeOK
<1>2. CASE limits[c] > 0
  <2>1. /\ limits' = [limits EXCEPT ![c] = @ - 1]
        /\ pc' = [pc EXCEPT ![t] = "forward"]
        /\ UNCHANGED <<queue, global, client>>
    BY <1>2, <1>0 DEF acquire, TypeOK
  <2>2. \A d \in Clients : Waiters(d)' = Waiters(d)
    BY <1>0, <2>1 DEF Waiters, Of, TypeOK
  <2>3. \A d \in Clients : d # c => Holders(d)' = Holders(d)
    BY <1>0, <2>1 DEF Holders, Of, TypeOK
  <2>4. Holders(c)' = Holders(c) \cup {t} /\ t \in Tasks \ Holders(c)
    BY <1>0, <2>1 DEF Holders, Of, Holding, TypeOK
  <2>5. Cardinality(Holders(c)') = Cardinality(Holders(c)) + 1 /\ Cardinality(Holders(c)) \in Nat
    BY <2>4, TaskSets DEF Holders, Of
  <2>6. TypeOK'
    BY <1>2, <1>0, <2>1 DEF TypeOK, TaskPcs, Holding
  <2>7. PermitsConserved'
    BY <1>0, <1>1, <2>1, <2>3, <2>5 DEF PermitsConserved, TypeOK
  <2>8. QueueExact'
    BY <2>1, <2>2 DEF QueueExact, HoldsWaiters
  <2>9. ClientsKnown'
    BY <1>0, <2>1 DEF ClientsKnown, TypeOK
  <2>10. NoIdlePermit'
    BY <1>2, <2>1, <2>2 DEF NoIdlePermit, TypeOK
  <2> QED BY <2>6, <2>7, <2>8, <2>9, <2>10
<1>3. CASE ~(limits[c] > 0)
  <2>1. /\ limits[c] = 0
        /\ queue' = [queue EXCEPT ![c] = Append(@, t)]
        /\ pc' = [pc EXCEPT ![t] = "waiting"]
        /\ UNCHANGED <<limits, global, client>>
    BY <1>3, <1>0 DEF acquire, TypeOK
  <2>2. \A d \in Clients : d # c => Waiters(d)' = Waiters(d)
    BY <1>0, <2>1 DEF Waiters, Of, TypeOK
  <2>3. \A d \in Clients : Holders(d)' = Holders(d)
    BY <1>0, <2>1 DEF Holders, Of, Holding, TypeOK
  <2>4. Waiters(c)' = Waiters(c) \cup {t} /\ t \notin Waiters(c)
    BY <1>0, <2>1 DEF Waiters, Of, TypeOK
  <2>5. queue[c] \in Seq(Tasks) /\ queue'[c] = Append(queue[c], t)
    BY <1>0, <2>1 DEF TypeOK
  <2>6. TypeOK'
    <3>1. queue' \in [Clients -> Seq(Tasks)]
      BY <2>1, <2>5 DEF TypeOK
    <3> QED BY <1>0, <2>1, <3>1 DEF TypeOK, TaskPcs
  <2>7. PermitsConserved'
    BY <1>0, <1>1, <2>1, <2>3 DEF PermitsConserved, TypeOK
  <2>8. QueueExact'
    <3>1. ASSUME NEW d \in Clients, d # c
          PROVE  HoldsWaiters(d)'
      <4>1. queue'[d] = queue[d]
        BY <2>1, <3>1 DEF TypeOK
      <4> QED BY <2>2, <3>1, <4>1 DEF QueueExact, HoldsWaiters
    <3>2. /\ Len(queue'[c]) = Len(queue[c]) + 1
          /\ Len(queue[c]) \in Nat
          /\ \A i \in 1..Len(queue[c]) : queue'[c][i] = queue[c][i]
          /\ queue'[c][Len(queue[c]) + 1] = t
      BY <2>5
    <3>3. /\ \A i \in 1..Len(queue[c]) : queue[c][i] \in Waiters(c)
          /\ \A i, j \in 1..Len(queue[c]) : queue[c][i] = queue[c][j] => i = j
          /\ \A u \in Waiters(c) : \E i \in 1..Len(queue[c]) : queue[c][i] = u
      BY <1>0 DEF QueueExact, HoldsWaiters
    <3>4. ASSUME NEW i \in 1..Len(queue'[c]) PROVE queue'[c][i] \in Waiters(c)'
      <4>1. i \in 1..Len(queue[c]) \/ i = Len(queue[c]) + 1
        BY <3>2
      <4> QED BY <2>4, <3>2, <3>3, <4>1
    <3>5. ASSUME NEW i \in 1..Len(queue'[c]), NEW j \in 1..Len(queue'[c]),
                 queue'[c][i] = queue'[c][j]
          PROVE  i = j
      <4>1. \A k \in 1..Len(queue'[c]) : k \in 1..Len(queue[c]) \/ k = Len(queue[c]) + 1
        BY <3>2
      <4>2. \A k \in 1..Len(queue[c]) : queue[c][k] # t
        BY <2>4, <3>3
      <4> QED BY <3>2, <3>3, <3>5, <4>1, <4>2
    <3>6. ASSUME NEW u \in Waiters(c)' PROVE \E i \in 1..Len(queue'[c]) : queue'[c][i] = u
      <4>1. CASE u = t
        BY <3>2, <4>1
      <4>2. CASE u # t
        <5>1. PICK i \in 1..Len(queue[c]) : queue[c][i] = u
          BY <2>4, <3>3, <4>2
        <5> QED BY <3>2, <5>1
      <4> QED BY <4>1, <4>2
    <3>7. HoldsWaiters(c)'
      BY <3>4, <3>5, <3>6 DEF HoldsWaiters
    <3> QED BY <3>1, <3>7 DEF QueueExact
  <2>9. ClientsKnown'
    BY <1>0, <2>1 DEF ClientsKnown, TypeOK
  <2>10. NoIdlePermit'
    BY <1>0, <2>1, <2>2 DEF NoIdlePermit, TypeOK
  <2> QED BY <2>6, <2>7, <2>8, <2>9, <2>10
<1> QED BY <1>2, <1>3

\* While a query is forwarded, inspected and answered no permit moves.
LEMMA ProgressInv ==
    ASSUME IInv, NEW t \in Tasks,
           forward_dns_query(t) \/ inspect_and_update_state(t) \/ send_dns_response(t)
    PROVE  IInv'
<1> USE ProxyAssumption DEF IInv
<1>1. PICK next \in Holding : pc[t] \in Holding /\ pc' = [pc EXCEPT ![t] = next]
  BY DEF forward_dns_query, AfterForward, inspect_and_update_state, send_dns_response, Holding
<1>2. UNCHANGED <<global, limits, queue, client>>
  BY DEF forward_dns_query, AfterForward, inspect_and_update_state, send_dns_response
<1>3. Busy' = Busy
  BY <1>1 DEF Busy, TypeOK, Holding
<1>4. \A d \in Clients : Holders(d)' = Holders(d) /\ Waiters(d)' = Waiters(d)
  BY <1>1, <1>2 DEF Holders, Waiters, Of, Holding, TypeOK
<1>5. TypeOK'
  BY <1>1, <1>2 DEF TypeOK, TaskPcs
<1>6. PermitsConserved'
  BY <1>2, <1>3, <1>4 DEF PermitsConserved, TypeOK
<1>7. QueueExact' /\ NoIdlePermit'
  BY <1>2, <1>4 DEF QueueExact, HoldsWaiters, NoIdlePermit
<1>8. ClientsKnown'
  BY <1>1, <1>2 DEF ClientsKnown, TypeOK, Holding
<1> QED BY <1>5, <1>6, <1>7, <1>8

\* The client's permit goes back to its semaphore, or to the first waiter.
LEMMA ReleaseIpInv ==
    ASSUME IInv, NEW t \in Tasks, release_ip(t)
    PROVE  IInv'
<1> USE ProxyAssumption DEF IInv
<1>0. PICK c \in Clients :
        pc[t] = "ret" /\ c = client[t] /\ c \in DOMAIN limits /\ t \in Holders(c)
  BY DEF release_ip, ClientsKnown, TypeOK, Holders, Of, Holding
<1>1. Cardinality(Holders(c) \ {t}) = Cardinality(Holders(c)) - 1 /\ Cardinality(Holders(c)) \in Nat
      /\ Cardinality(Holders(c) \ {t}) \in Nat
  BY <1>0, TaskSets DEF Holders, Of
<1>2. CASE queue[c] = <<>>
  <2>1. /\ limits' = [limits EXCEPT ![c] = @ + 1]
        /\ pc' = [pc EXCEPT ![t] = "drop"]
        /\ UNCHANGED <<queue, global, client>>
    BY <1>0, <1>2 DEF release_ip
  <2>2. \A d \in Clients : Waiters(d)' = Waiters(d)
    BY <1>0, <2>1 DEF Waiters, Of, TypeOK
  <2>3. \A d \in Clients : d # c => Holders(d)' = Holders(d)
    BY <1>0, <2>1 DEF Holders, Of, TypeOK
  <2>4. Holders(c)' = Holders(c) \ {t}
    BY <1>0, <2>1 DEF Holders, Of, Holding, TypeOK
  <2>5. Busy' = Busy
    BY <1>0, <2>1 DEF Busy, TypeOK
  <2>6. limits[c] + Cardinality(Holders(c)) = MaxPerIp
    BY <1>0 DEF PermitsConserved
  <2>7. TypeOK'
    BY <1>0, <1>1, <2>1, <2>6 DEF TypeOK, TaskPcs
  <2>8. PermitsConserved'
    <3>1. global' + Cardinality(Busy') = MaxGlobal
      BY <2>1, <2>5 DEF PermitsConserved
    <3>2. limits'[c] = limits[c] + 1 /\ Cardinality(Holders(c)') = Cardinality(Holders(c)) - 1
      BY <1>0, <1>1, <2>1, <2>4
    <3>3. limits'[c] + Cardinality(Holders(c)') = MaxPerIp
      BY <1>0, <1>1, <2>6, <3>2 DEF TypeOK
    <3>4. \A d \in DOMAIN limits \ {c} : limits'[d] + Cardinality(Holders(d)') = MaxPerIp
      BY <2>1, <2>3 DEF PermitsConserved, TypeOK
    <3> QED BY <2>1, <3>1, <3>3, <3>4 DEF PermitsConserved
  <2>9. QueueExact'
    BY <2>1, <2>2 DEF QueueExact, HoldsWaiters
  <2>10. ClientsKnown'
    BY <1>0, <2>1 DEF ClientsKnown, TypeOK
  <2>11. NoIdlePermit'
    <3>1. Waiters(c) = {}
      BY <1>0, <1>2 DEF QueueExact, HoldsWaiters
    <3> QED BY <2>1, <2>2, <3>1 DEF NoIdlePermit, TypeOK
  <2> QED BY <2>7, <2>8, <2>9, <2>10, <2>11
<1>3. CASE queue[c] # <<>>
  <2> DEFINE h == Head(queue[c])
             n == Len(queue[c])
  <2>0. queue[c] \in Seq(Tasks) /\ n \in Nat /\ n > 0 /\ h = queue[c][1]
    BY <1>0, <1>3 DEF TypeOK
  <2>00. h \in Waiters(c)
    BY <1>0, <2>0 DEF QueueExact, HoldsWaiters
  <2>01. h \in Tasks /\ pc[h] = "waiting" /\ client[h] = c /\ h # t
    BY <1>0, <2>00 DEF Waiters, Of
  <2>1. /\ queue' = [queue EXCEPT ![c] = Tail(@)]
        /\ pc' = [pc EXCEPT ![t] = "drop", ![h] = "forward"]
        /\ UNCHANGED <<limits, global, client>>
    BY <1>0, <1>3 DEF release_ip
  <2>2. /\ pc'[t] = "drop" /\ pc'[h] = "forward"
        /\ \A u \in Tasks : u # t /\ u # h => pc'[u] = pc[u]
    BY <2>01, <2>1 DEF TypeOK
  <2>3. \A d \in Clients : d # c => Waiters(d)' = Waiters(d) /\ Holders(d)' = Holders(d)
    BY <1>0, <2>01, <2>1, <2>2 DEF Waiters, Holders, Of
  <2>4. Waiters(c)' = Waiters(c) \ {h}
    BY <1>0, <2>01, <2>1, <2>2 DEF Waiters, Of
  <2>5. Holders(c)' = (Holders(c) \ {t}) \cup {h} /\ h \in Tasks \ (Holders(c) \ {t})
    BY <1>0, <2>01, <2>1, <2>2 DEF Holders, Of, Holding
  <2>6. Cardinality(Holders(c)') = Cardinality(Holders(c))
    <3>1. Cardinality((Holders(c) \ {t}) \cup {h}) = Cardinality(Holders(c) \ {t}) + 1
      BY <2>5, TaskSets DEF Holders, Of
    <3> QED BY <1>1, <2>5, <3>1
  <2>7. Busy' = Busy
    BY <1>0, <2>01, <2>2 DEF Busy
  <2>8. TypeOK'
    <3>1. Tail(queue[c]) \in Seq(Tasks)
      BY <1>3, <2>0
    <3>2. queue' \in [Clients -> Seq(Tasks)]
      BY <2>1, <3>1 DEF TypeOK
    <3> QED BY <2>01, <2>1, <3>2 DEF TypeOK, TaskPcs, Holding
  <2>9. PermitsConserved'
    BY <1>0, <2>1, <2>3, <2>6, <2>7 DEF PermitsConserved, TypeOK
  <2>10. QueueExact'
    <3>1. ASSUME NEW d \in Clients, d # c
          PROVE  HoldsWaiters(d)'
      <4>1. queue'[d] = queue[d]
        BY <2>1, <3>1 DEF TypeOK
      <4> QED BY <2>3, <3>1, <4>1 DEF QueueExact, HoldsWaiters
    <3>2. /\ Len(queue'[c]) = n - 1
          /\ \A i \in 1..(n - 1) : queue'[c][i] = queue[c][i + 1]
      BY <1>0, <2>0, <2>1 DEF TypeOK
    <3>3. /\ \A i \in 1..n : queue[c][i] \in Waiters(c)
          /\ \A i, j \in 1..n : queue[c][i] = queue[c][j] => i = j
          /\ \A u \in Waiters(c) : \E i \in 1..n : queue[c][i] = u
      BY <1>0 DEF QueueExact, HoldsWaiters
    <3> HIDE DEF h, n
    <3>4. ASSUME NEW i \in 1..Len(queue'[c]) PROVE queue'[c][i] \in Waiters(c)'
      <4>1. i \in 1..(n - 1) /\ i + 1 \in 1..n /\ i + 1 # 1 /\ 1 \in 1..n
        BY <2>0, <3>2
      <4>2. queue'[c][i] = queue[c][i + 1] /\ queue[c][i + 1] # h
        BY <2>0, <3>2, <3>3, <4>1
      <4> QED BY <2>4, <3>3, <4>1, <4>2
    <3>5. ASSUME NEW i \in 1..Len(queue'[c]), NEW j \in 1..Len(queue'[c]),
                 queue'[c][i] = queue'[c][j]
          PROVE  i = j
      <4>1. i \in 1..(n - 1) /\ j \in 1..(n - 1) /\ i + 1 \in 1..n /\ j + 1 \in 1..n
        BY <2>0, <3>2
      <4>2. queue[c][i + 1] = queue[c][j + 1]
        BY <3>2, <3>5, <4>1
      <4>3. i + 1 = j + 1
        BY <3>3, <4>1, <4>2
      <4> QED BY <4>3
    <3>6. ASSUME NEW u \in Waiters(c)' PROVE \E i \in 1..Len(queue'[c]) : queue'[c][i] = u
      <4>1. PICK i \in 1..n : queue[c][i] = u
        BY <2>4, <3>3
      <4>2. i # 1 /\ i - 1 \in 1..(n - 1) /\ (i - 1) + 1 = i
        BY <2>0, <2>4, <4>1
      <4> QED BY <3>2, <4>1, <4>2
    <3>7. HoldsWaiters(c)'
      BY <3>4, <3>5, <3>6 DEF HoldsWaiters
    <3> QED BY <3>1, <3>7 DEF QueueExact
  <2>11. ClientsKnown'
    BY <1>0, <2>01, <2>1, <2>2 DEF ClientsKnown
  <2>12. NoIdlePermit'
    BY <2>1, <2>3, <2>4 DEF NoIdlePermit
  <2> QED BY <2>8, <2>9, <2>10, <2>11, <2>12
<1> QED BY <1>2, <1>3

\* The global permit goes back when the task is gone.
LEMMA ReleaseGlobalInv ==
    ASSUME IInv, NEW t \in Tasks, release_global(t)
    PROVE  IInv'
<1> USE ProxyAssumption DEF IInv, release_global
<1>1. \A d \in Clients : Holders(d)' = Holders(d) /\ Waiters(d)' = Waiters(d)
  BY DEF Holders, Waiters, Of, Holding, TypeOK
<1>2. Busy' = Busy \ {t} /\ t \in Busy
  BY DEF Busy, TypeOK
<1>3. /\ Cardinality(Busy') = Cardinality(Busy) - 1
      /\ Cardinality(Busy) \in Nat
      /\ Cardinality(Busy') \in Nat
  BY <1>2, TaskSets DEF Busy
<1>4. TypeOK'
  BY <1>3 DEF TypeOK, TaskPcs, PermitsConserved
<1>5. PermitsConserved'
  <2>1. global' + Cardinality(Busy') = MaxGlobal
    BY <1>3 DEF PermitsConserved, TypeOK
  <2>2. \A d \in DOMAIN limits' : limits'[d] + Cardinality(Holders(d)') = MaxPerIp
    BY <1>1 DEF PermitsConserved, TypeOK
  <2> QED BY <2>1, <2>2 DEF PermitsConserved
<1>6. QueueExact' /\ NoIdlePermit'
  BY <1>1 DEF QueueExact, HoldsWaiters, NoIdlePermit
<1>7. ClientsKnown'
  BY DEF ClientsKnown, TypeOK
<1> QED BY <1>4, <1>5, <1>6, <1>7

\* The strengthened invariant holds of every behaviour of the proxy.
THEOREM ProxyInvariance == Spec => []IInv
<1>1. Init => IInv
  BY InitInv
<1>2. IInv /\ [Next]_vars => IInv'
  <2>1. IInv /\ UNCHANGED vars => IInv'
    BY DEF IInv, vars, TypeOK, PermitsConserved, QueueExact, HoldsWaiters, ClientsKnown, NoIdlePermit,
       Busy, Holders, Waiters, Of
  <2> QED BY <2>1, SpawnInv, AcquireInv, ProgressInv, ReleaseIpInv, ReleaseGlobalInv
          DEF Next, TaskStep
<1> QED BY <1>1, <1>2, PTL DEF Spec

\* The semaphores stay within their limits, only local clients get one, and
\* only tasks queue.
THEOREM ProxyTypes == Spec => []TypeOK
<1>1. IInv => TypeOK
  BY DEF IInv
<1> QED BY <1>1, ProxyInvariance, PTL

\* No path through a task loses or duplicates a permit, whatever the limits
\* and the number of clients.
THEOREM PermitConservation == Spec => []PermitsConserved
<1>1. IInv => PermitsConserved
  BY DEF IInv
<1> QED BY <1>1, ProxyInvariance, PTL

\* An admitted query waits only behind MaxPerIp queries of its own client.
THEOREM NoForeignWait == Spec => []WaitsOnlyForItself
<1>1. IInv => WaitsOnlyForItself
  <2> SUFFICES ASSUME IInv, NEW c \in Clients, Waiters(c) # {}
               PROVE  Cardinality(Holders(c)) = MaxPerIp
    BY DEF WaitsOnlyForItself
  <2>1. c \in DOMAIN limits /\ limits[c] = 0
    BY DEF IInv, NoIdlePermit
  <2>2. Cardinality(Holders(c)) \in Nat
    BY TaskSets DEF Holders, Of
  <2> QED BY <2>1, <2>2 DEF IInv, PermitsConserved
<1> QED BY <1>1, ProxyInvariance, PTL
-----------------------------------------------------------------------------
(* The refinement of Admission *)

\* Both specifications count alike.
LEMMA CountAlike == \A S : Queries!Cardinality(S) = Cardinality(S)
  BY Zenon DEF Cardinality, Queries!Cardinality

\* A query is fresh as long as its task was not polled.
LEMMA FreshMember ==
    \A t, c : <<t, c>> \in Fresh <=> t \in Tasks /\ pc[t] = "spawned" /\ client[t] = c
  BY DEF Fresh

\* Where the tasks keep their clients and one that was polled is the only one
\* whose place changes, it alone is no longer fresh.
LEMMA FreshLess ==
    ASSUME NEW t \in Tasks, pc[t] = "spawned", pc'[t] # "spawned", client' = client,
           \A u \in Tasks : u # t => pc'[u] = pc[u]
    PROVE  Fresh' = Fresh \ {<<t, client[t]>>}
  BY DEF Fresh

\* A turn of the loop that takes a global permit admits a query.
LEMMA SpawnAdmits ==
    ASSUME IInv, NEW t \in Tasks, NEW c \in Clients, run_dns_proxy(c, t)
    PROVE  Queries!Admit(c, t)
<1> USE ProxyAssumption DEF IInv, run_dns_proxy
<1>1. /\ pc[t] = "free"
      /\ \A u \in Tasks : u # t => pc'[u] = pc[u] /\ client'[u] = client[u]
      /\ pc'[t] = "spawned" /\ client'[t] = c
  BY DEF TypeOK
<1>2. \A d \in Clients : Holders(d)' = Holders(d)
  BY <1>1 DEF Holders, Of, Holding
<1>3. Serving' = Serving
  BY <1>2 DEF Serving
<1>4. Busy' = Busy \cup {t} /\ t \notin Busy
  BY <1>1 DEF Busy
<1>5. Fresh' = Fresh \cup {<<t, c>>}
  BY <1>1 DEF Fresh
<1>6. Cardinality(Busy) < MaxGlobal
  <2>1. Cardinality(Busy) \in Nat
    BY TaskSets DEF Busy
  <2> QED BY <2>1 DEF PermitsConserved, TypeOK
<1>7. UNCHANGED queue
  OBVIOUS
<1> HIDE ProxyAssumption DEF IInv, run_dns_proxy
<1> QED BY <1>3, <1>4, <1>5, <1>6, <1>7, CountAlike DEF Queries!Admit

\* The first poll begins a query where a place is free and nobody waits for
\* it, and otherwise puts it last.
LEMMA AcquireBegins ==
    ASSUME IInv, NEW t \in Tasks, acquire(t)
    PROVE  \E c \in Clients : Queries!Begin(c, t) \/ Queries!Wait(c, t)
<1> USE ProxyAssumption DEF IInv
<1>0. PICK c \in Clients : pc[t] = "spawned" /\ c = client[t] /\ c \in DOMAIN limits
  BY DEF acquire, ClientsKnown, TypeOK
<1>1. <<t, c>> \in Fresh
  BY <1>0, FreshMember
<1>2. limits[c] \in Nat /\ Cardinality(Holders(c)) \in Nat
      /\ limits[c] + Cardinality(Holders(c)) = MaxPerIp
  <2>1. Holders(c) \in SUBSET Tasks
    BY DEF Holders, Of
  <2>2. Cardinality(Holders(c)) \in Nat
    BY <2>1, TaskSets
  <2>3. limits[c] \in Nat
    BY <1>0 DEF TypeOK
  <2>4. limits[c] + Cardinality(Holders(c)) = MaxPerIp
    BY <1>0 DEF PermitsConserved
  <2> QED BY <2>2, <2>3, <2>4
<1>3. CASE limits[c] > 0
  <2>1. pc' = [pc EXCEPT ![t] = "forward"] /\ UNCHANGED <<queue, global, client>>
    BY <1>0, <1>3 DEF acquire, TypeOK
  <2>2. pc'[t] = "forward" /\ \A u \in Tasks : u # t => pc'[u] = pc[u]
    BY <2>1 DEF TypeOK
  <2>3. \A d \in Clients : Holders(d)' = IF d = c THEN Holders(c) \cup {t} ELSE Holders(d)
    BY <1>0, <2>1, <2>2 DEF Holders, Of, Holding
  <2>4. Serving' = [Serving EXCEPT ![c] = @ \cup {t}]
    BY <2>3 DEF Serving
  <2>5. Fresh' = Fresh \ {<<t, c>>}
    BY <1>0, <2>1, <2>2, FreshLess
  <2>6. Busy' = Busy
    BY <1>0, <2>2 DEF Busy
  <2>7. queue[c] = <<>>
    <3>1. Waiters(c) = {}
      BY <1>3 DEF NoIdlePermit
    <3>2. queue[c] \in Seq(Tasks) /\ Len(queue[c]) \in Nat
      BY DEF TypeOK
    <3>3. ~(1 \in 1..Len(queue[c]))
      BY <3>1 DEF QueueExact, HoldsWaiters
    <3> QED BY <3>2, <3>3
  <2>8. Cardinality(Serving[c]) < MaxPerIp
    BY <1>2, <1>3 DEF Serving
  <2> HIDE ProxyAssumption DEF IInv
  <2>9. Queries!Begin(c, t)
    BY <1>1, <2>1, <2>4, <2>5, <2>6, <2>7, <2>8, CountAlike DEF Queries!Begin
  <2> QED BY <2>9
<1>4. CASE ~(limits[c] > 0)
  <2>1. /\ queue' = [queue EXCEPT ![c] = Append(@, t)]
        /\ pc' = [pc EXCEPT ![t] = "waiting"] /\ UNCHANGED <<limits, global, client>>
    BY <1>0, <1>4 DEF acquire, TypeOK
  <2>2. pc'[t] = "waiting" /\ \A u \in Tasks : u # t => pc'[u] = pc[u]
    BY <2>1 DEF TypeOK
  <2>3. \A d \in Clients : Holders(d)' = Holders(d)
    BY <1>0, <2>1, <2>2 DEF Holders, Of, Holding
  <2>4. Serving' = Serving
    BY <2>3 DEF Serving
  <2>5. Fresh' = Fresh \ {<<t, c>>}
    BY <1>0, <2>1, <2>2, FreshLess
  <2>6. Busy' = Busy
    BY <1>0, <2>2 DEF Busy
  <2>7. Cardinality(Serving[c]) = MaxPerIp
    BY <1>2, <1>4 DEF Serving
  <2> HIDE ProxyAssumption DEF IInv
  <2>8. Queries!Wait(c, t)
    BY <1>1, <2>1, <2>4, <2>5, <2>6, <2>7, CountAlike DEF Queries!Wait
  <2> QED BY <2>8
<1> QED BY <1>3, <1>4

\* Forwarding, inspecting and answering are invisible.
LEMMA ProgressInvisible ==
    ASSUME IInv, NEW t \in Tasks,
           forward_dns_query(t) \/ inspect_and_update_state(t) \/ send_dns_response(t)
    PROVE  UNCHANGED Queries!vars
<1>1. PICK next \in Holding : pc[t] \in Holding /\ pc' = [pc EXCEPT ![t] = next]
  BY DEF forward_dns_query, AfterForward, inspect_and_update_state, send_dns_response, Holding
<1>2. UNCHANGED <<queue, client>>
  BY DEF forward_dns_query, inspect_and_update_state, send_dns_response
<1>3. Busy' = Busy /\ Fresh' = Fresh
  BY <1>1, <1>2 DEF Busy, Fresh, IInv, TypeOK, Holding
<1>4. \A d \in Clients : Holders(d)' = Holders(d)
  BY <1>1, <1>2 DEF Holders, Of, Holding, IInv, TypeOK
<1> QED BY <1>2, <1>3, <1>4 DEF Queries!vars, Serving

\* Giving the client's permit back finishes a query, and lets in the first one
\* that waits.
LEMMA ReleaseFinishes ==
    ASSUME IInv, NEW t \in Tasks, release_ip(t)
    PROVE  \E c \in Clients : Queries!Finish(c, t)
<1> USE DEF IInv
<1>0. PICK c \in Clients : pc[t] = "ret" /\ c = client[t] /\ t \in Holders(c)
  BY ProxyAssumption DEF release_ip, ClientsKnown, TypeOK, Holders, Of, Holding
<1>1. t \in Serving[c]
  BY <1>0 DEF Serving
<1>2. CASE queue[c] = <<>>
  <2>1. pc' = [pc EXCEPT ![t] = "drop"] /\ UNCHANGED <<queue, client>>
    BY <1>0, <1>2 DEF release_ip
  <2>2. pc'[t] = "drop" /\ \A u \in Tasks : u # t => pc'[u] = pc[u]
    BY <2>1 DEF TypeOK
  <2>3. \A d \in Clients : Holders(d)' = IF d = c THEN Holders(c) \ {t} ELSE Holders(d)
    BY <1>0, <2>1, <2>2 DEF Holders, Of, Holding
  <2>4. Serving' = [Serving EXCEPT ![c] = @ \ {t}]
    BY <2>3 DEF Serving
  <2>5. Busy' = Busy /\ Fresh' = Fresh
    BY <1>0, <2>1, <2>2 DEF Busy, Fresh
  <2> QED BY <1>1, <1>2, <2>1, <2>4, <2>5 DEF Queries!Finish
<1>3. CASE queue[c] # <<>>
  <2> DEFINE h == Head(queue[c])
  <2>0. queue[c] \in Seq(Tasks) /\ 1 \in 1..Len(queue[c]) /\ h = queue[c][1]
    BY <1>3 DEF TypeOK
  <2>1. h \in Tasks /\ pc[h] = "waiting" /\ client[h] = c /\ h # t
    BY <1>0, <2>0 DEF QueueExact, HoldsWaiters, Waiters, Of
  <2>2. /\ queue' = [queue EXCEPT ![c] = Tail(@)]
        /\ pc' = [pc EXCEPT ![t] = "drop", ![h] = "forward"]
        /\ UNCHANGED client
    BY <1>0, <1>3 DEF release_ip
  <2>3. /\ pc'[t] = "drop" /\ pc'[h] = "forward"
        /\ \A u \in Tasks : u # t /\ u # h => pc'[u] = pc[u]
    BY <2>1, <2>2 DEF TypeOK
  <2> HIDE DEF h
  <2>4. \A d \in Clients : Holders(d)' = IF d = c THEN (Holders(c) \ {t}) \cup {h} ELSE Holders(d)
    BY <1>0, <2>1, <2>2, <2>3 DEF Holders, Of, Holding
  <2>5. Serving' = [Serving EXCEPT ![c] = (@ \ {t}) \cup {h}]
    BY <2>4 DEF Serving
  <2>6. Busy' = Busy /\ Fresh' = Fresh
    BY <1>0, <2>1, <2>2, <2>3 DEF Busy, Fresh
  <2> QED BY <1>1, <1>3, <2>2, <2>5, <2>6 DEF Queries!Finish, h
<1> QED BY <1>2, <1>3

\* A task that gives its global permit back was served and waits nowhere.
LEMMA ReleaseLeaves ==
    ASSUME IInv, NEW t \in Tasks, release_global(t)
    PROVE  Queries!Leave(t)
<1> USE DEF IInv
<1>1. /\ pc[t] = "drop" /\ pc'[t] = "free" /\ UNCHANGED queue
      /\ \A u \in Tasks : u # t => pc'[u] = pc[u] /\ client'[u] = client[u]
  BY DEF release_global, TypeOK
<1>2. \A d \in Clients : Holders(d)' = Holders(d)
  BY <1>1 DEF Holders, Of, Holding
<1>3. Serving' = Serving /\ Fresh' = Fresh
  BY <1>1, <1>2 DEF Serving, Fresh
<1>4. Busy' = Busy \ {t} /\ t \in Busy
  BY <1>1 DEF Busy
<1>5. ASSUME NEW c \in Clients
      PROVE  <<t, c>> \notin Fresh /\ t \notin Serving[c] /\ \A i \in 1..Len(queue[c]) : queue[c][i] # t
  <2>1. t \notin Serving[c]
    BY <1>1 DEF Serving, Holders, Holding
  <2>2. \A i \in 1..Len(queue[c]) : queue[c][i] # t
    BY <1>1 DEF QueueExact, HoldsWaiters, Waiters
  <2> QED BY <1>1, <2>1, <2>2, FreshMember
<1> QED BY <1>1, <1>3, <1>4, <1>5 DEF Queries!Leave

\* Counting permits in two semaphores implements the admission of queries that
\* Admission promises, for all limits, clients and numbers of tasks.
THEOREM AdmissionImplemented == Spec => ImplementsAdmission
<1>1. Init => Queries!Init
  BY DEF Init, Queries!Init, Busy, Fresh, Serving, Holders, Of, Holding
<1>2. IInv /\ [Next]_vars => [Queries!Next]_(Queries!vars)
  <2> SUFFICES ASSUME IInv, [Next]_vars PROVE [Queries!Next]_(Queries!vars)
    OBVIOUS
  <2>1. CASE UNCHANGED vars
    BY <2>1 DEF vars, Queries!vars, Busy, Fresh, Serving, Holders, Of
  <2>2. ASSUME NEW t \in Tasks, TaskStep(t) PROVE [Queries!Next]_(Queries!vars)
    BY <2>2, AcquireBegins, ProgressInvisible, ReleaseFinishes, ReleaseLeaves DEF TaskStep, Queries!Next
  <2>3. ASSUME NEW t \in Tasks, NEW c \in Clients, run_dns_proxy(c, t) PROVE Queries!Next
    BY <2>3, SpawnAdmits DEF Queries!Next
  <2> QED BY <2>1, <2>2, <2>3 DEF Next
<1> QED BY <1>1, <1>2, ProxyInvariance, PTL DEF Spec, ImplementsAdmission, Queries!Spec
=============================================================================
