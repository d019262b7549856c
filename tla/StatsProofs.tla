---------------------------- MODULE StatsProofs ----------------------------
(***************************************************************************)
(* Proofs about Stats for every set of networks, subnets, origins and      *)
(* concurrent queries, and every limit of the table and of its age.        *)
(***************************************************************************)
EXTENDS Stats, FiniteSetTheorems, TLAPS

-----------------------------------------------------------------------------
(* What makes the properties inductive *)

\* One identifier is given out per registered subnet.
IdsCountSubnets == next_id = Cardinality(DOMAIN subnet_to_id) + 1

\* The calls of record_resolve between their first lock and their last.
InFlight == {t \in Tasks : pc[t] # "idle"}

\* A call under way holds a time that has passed and, if it found a network,
\* the identifier of one that is still registered; its verdict is given once
\* the policy table was asked.
LocalSound(t) ==
    /\ rec[t] \in Local
    /\ rec[t].now <= clock
    /\ rec[t].network_id \in DOMAIN registry \cup {None}
    /\ (rec[t].name = None) <=> (rec[t].network_id = None)
    /\ pc[t] = "write" => ((rec[t].accepted = None) <=> (rec[t].network_id = None))

LocalsSound == \A t \in InFlight : LocalSound(t)

\* An entry shown under a network has a verdict, one shown under none has not,
\* and it was written in the past.
EntrySound(k) ==
    /\ stats[k].last_seen <= clock
    /\ stats[k].network_id \in DOMAIN registry \cup {None}
    /\ (stats[k].accepted = None) <=> (stats[k].network_id = None)

\* Every count is covered by calls that have finished.
CountsCovered ==
    /\ IsFiniteSet(InFlight)
    /\ Cardinality(InFlight) <= resolves
    /\ \A k \in DOMAIN stats : stats[k].count + Cardinality(InFlight) <= resolves

IInv ==
    /\ TypeOK
    /\ RegistryConsistent
    /\ IdsCountSubnets
    /\ LocalsSound
    /\ CountsCovered
    /\ \A k \in DOMAIN stats : EntrySound(k)
    /\ IsFiniteSet(DOMAIN stats)
    /\ EntriesBounded
-----------------------------------------------------------------------------
(* The operators *)

\* Sets of subnets are finite, identifiers are numbers, and None is neither an
\* identifier nor a verdict nor a name.
LEMMA Constants ==
    /\ Cardinality(Subnets) \in Nat
    /\ None \notin Ids /\ None \notin Names /\ None \notin BOOLEAN
    /\ \A S \in SUBSET Subnets :
        /\ IsFiniteSet(S) /\ Cardinality(S) \in Nat
        /\ Cardinality(S) <= Cardinality(Subnets)
        /\ \A s \in Subnets \ S : /\ Cardinality(S \cup {s}) = Cardinality(S) + 1
                                  /\ Cardinality(S) + 1 <= Cardinality(Subnets)
<1>1. Cardinality(Subnets) \in Nat
  BY StatsAssumption, FS_CardinalityType
<1>2. None \notin Ids /\ None \notin Names /\ None \notin BOOLEAN
  BY <1>1, StatsAssumption DEF Ids
<1>3. ASSUME NEW S \in SUBSET Subnets
      PROVE  IsFiniteSet(S) /\ Cardinality(S) \in Nat /\ Cardinality(S) <= Cardinality(Subnets)
  <2>1. IsFiniteSet(S) /\ Cardinality(S) <= Cardinality(Subnets)
    BY StatsAssumption, FS_Subset
  <2> QED BY <2>1, FS_CardinalityType
<1>4. ASSUME NEW S \in SUBSET Subnets, NEW s \in Subnets \ S
      PROVE  /\ Cardinality(S \cup {s}) = Cardinality(S) + 1
             /\ Cardinality(S) + 1 <= Cardinality(Subnets)
  <2>1. Cardinality(S \cup {s}) = Cardinality(S) + 1
    BY <1>3, FS_AddElement
  <2>2. S \cup {s} \in SUBSET Subnets
    OBVIOUS
  <2> QED BY <1>3, <2>1, <2>2
<1> QED BY <1>1, <1>2, <1>3, <1>4

\* The operations on the policy table keep it a table.
LEMMA StateOpsType ==
    ASSUME StateType
    PROVE  /\ \A n \in Names, ps \in SUBSET Patterns : insert_managed(n, ps) => StateType'
           /\ \A n \in Names : remove_managed(n) => StateType'
<1>1. ASSUME NEW n \in Names, NEW ps \in SUBSET Patterns, insert_managed(n, ps)
      PROVE  StateType'
  BY <1>1 DEF StateType, insert_managed, ManagedIpset
<1>2. ASSUME NEW n \in Names, remove_managed(n)
      PROVE  StateType'
  BY <1>2 DEF StateType, remove_managed, ManagedIpset
<1> QED BY <1>1, <1>2

\* register_network keeps the two maps typed and in step, counts the subnets,
\* and never takes an identifier back.
LEMMA RegisterStep ==
    ASSUME TypeOK, RegistryConsistent, IdsCountSubnets,
           NEW n \in Names, NEW s \in Subnets, register_network(n, s)
    PROVE  /\ DOMAIN subnet_to_id' \subseteq Subnets
           /\ subnet_to_id' \in [DOMAIN subnet_to_id' -> Ids]
           /\ DOMAIN registry' \subseteq Ids
           /\ registry' \in [DOMAIN registry' -> [name : Names, subnet : Subnets]]
           /\ next_id' \in 1..Cardinality(Subnets) + 1
           /\ RegistryConsistent' /\ IdsCountSubnets'
           /\ DOMAIN registry \subseteq DOMAIN registry'
<1> DEFINE known == s \in DOMAIN subnet_to_id
           id    == IF known THEN subnet_to_id[s] ELSE next_id
<1>1. /\ subnet_to_id' = [r \in DOMAIN subnet_to_id \cup {s} |->
                              IF r = s THEN id ELSE subnet_to_id[r]]
      /\ registry' = [i \in DOMAIN registry \cup {id} |->
                          IF i = id THEN [name |-> n, subnet |-> s] ELSE registry[i]]
      /\ next_id' = IF known THEN next_id ELSE next_id + 1
  BY DEF register_network, NextId
<1>2. next_id \in Nat /\ next_id = Cardinality(DOMAIN subnet_to_id) + 1
      /\ DOMAIN subnet_to_id \in SUBSET Subnets
  BY Constants DEF TypeOK, IdsCountSubnets
<1>3. CASE known
  <2>1. id = subnet_to_id[s] /\ id \in Ids /\ id \in DOMAIN registry /\ registry[id].subnet = s
    BY <1>3 DEF TypeOK, RegistryConsistent
  <2>2. /\ DOMAIN subnet_to_id' = DOMAIN subnet_to_id
        /\ \A r \in DOMAIN subnet_to_id : subnet_to_id'[r] = subnet_to_id[r]
        /\ subnet_to_id' = subnet_to_id
        /\ next_id' = next_id
    BY <1>1, <1>3, <2>1 DEF TypeOK
  <2>3. /\ DOMAIN registry' = DOMAIN registry
        /\ registry'[id] = [name |-> n, subnet |-> s]
        /\ \A i \in DOMAIN registry \ {id} : registry'[i] = registry[i]
        /\ \A i \in DOMAIN registry : registry'[i].subnet = registry[i].subnet
    BY <1>1, <1>3, <2>1
  <2> HIDE DEF id, known
  <2>4. registry' \in [DOMAIN registry' -> [name : Names, subnet : Subnets]]
    <3>1. registry' = [i \in DOMAIN registry' |-> registry'[i]]
      BY <1>1
    <3>2. \A i \in DOMAIN registry' : registry'[i] \in [name : Names, subnet : Subnets]
      BY <2>3 DEF TypeOK
    <3> QED BY <3>1, <3>2
  <2>5. RegistryConsistent'
    BY <2>2, <2>3 DEF RegistryConsistent
  <2>6. IdsCountSubnets'
    BY <2>2 DEF IdsCountSubnets
  <2> QED BY <2>2, <2>3, <2>4, <2>5, <2>6 DEF TypeOK
<1>4. CASE ~known
  <2>0. Cardinality(DOMAIN subnet_to_id) \in Nat
        /\ Cardinality(DOMAIN subnet_to_id) + 1 <= Cardinality(Subnets)
    BY <1>2, <1>4, Constants
  <2>1. id = next_id /\ id \in Ids /\ next_id' = id + 1 /\ next_id' \in 1..Cardinality(Subnets) + 1
    <3>1. id = next_id /\ next_id' = id + 1
      BY <1>1, <1>4
    <3>2. Cardinality(Subnets) \in Nat
      BY Constants
    <3> HIDE DEF id
    <3> QED BY <1>2, <2>0, <3>1, <3>2 DEF Ids
  <2>2. \A r \in DOMAIN subnet_to_id : subnet_to_id[r] < id
    BY <1>4, <2>1 DEF RegistryConsistent
  <2>3. id \notin DOMAIN registry
    BY <1>2, <2>1, <2>2 DEF RegistryConsistent
  <2>4. /\ DOMAIN subnet_to_id' = DOMAIN subnet_to_id \cup {s}
        /\ subnet_to_id'[s] = id
        /\ \A r \in DOMAIN subnet_to_id : r # s /\ subnet_to_id'[r] = subnet_to_id[r]
    BY <1>1, <1>4
  <2>5. /\ DOMAIN registry' = DOMAIN registry \cup {id}
        /\ registry'[id] = [name |-> n, subnet |-> s]
        /\ \A i \in DOMAIN registry : i # id /\ registry'[i] = registry[i]
    BY <1>1, <2>3
  <2>6. /\ subnet_to_id' = [r \in DOMAIN subnet_to_id' |-> subnet_to_id'[r]]
        /\ registry' = [i \in DOMAIN registry' |-> registry'[i]]
        /\ s \notin DOMAIN subnet_to_id
    BY <1>1, <1>4
  <2> HIDE DEF id, known
  <2>7. subnet_to_id' \in [DOMAIN subnet_to_id' -> Ids]
    BY <2>1, <2>4, <2>6 DEF TypeOK
  <2>8. registry' \in [DOMAIN registry' -> [name : Names, subnet : Subnets]]
    BY <2>5, <2>6 DEF TypeOK
  <2>9. RegistryConsistent'
    <3>1. ASSUME NEW r \in DOMAIN subnet_to_id'
          PROVE  /\ subnet_to_id'[r] \in DOMAIN registry'
                 /\ registry'[subnet_to_id'[r]].subnet = r
                 /\ subnet_to_id'[r] < next_id'
      <4>1. CASE r = s
        BY <1>2, <2>1, <2>4, <2>5, <4>1
      <4>2. CASE r # s
        <5>1. r \in DOMAIN subnet_to_id /\ subnet_to_id'[r] = subnet_to_id[r]
          BY <2>4, <4>2
        <5>2. subnet_to_id[r] \in DOMAIN registry /\ registry[subnet_to_id[r]].subnet = r
          BY <5>1 DEF RegistryConsistent
        <5>3. subnet_to_id[r] < id + 1
          BY <1>2, <2>1, <2>2, <5>1, Constants DEF TypeOK, Ids
        <5> QED BY <2>1, <2>5, <5>1, <5>2, <5>3
      <4> QED BY <4>1, <4>2
    <3>2. ASSUME NEW i \in DOMAIN registry'
          PROVE  /\ registry'[i].subnet \in DOMAIN subnet_to_id'
                 /\ subnet_to_id'[registry'[i].subnet] = i
      <4>1. CASE i = id
        BY <2>4, <2>5, <4>1
      <4>2. CASE i # id
        BY <2>4, <2>5, <4>2 DEF RegistryConsistent
      <4> QED BY <4>1, <4>2
    <3> QED BY <3>1, <3>2 DEF RegistryConsistent
  <2>10. IdsCountSubnets'
    BY <1>2, <2>1, <2>4, <2>6, Constants DEF IdsCountSubnets
  <2> QED BY <1>2, <2>1, <2>4, <2>5, <2>7, <2>8, <2>9, <2>10 DEF TypeOK
<1> QED BY <1>3, <1>4
-----------------------------------------------------------------------------
(* Invariance *)

\* Initially nothing is registered, recorded or under way.
LEMMA InitInv == Init => IInv
<1> SUFFICES ASSUME Init PROVE IInv
  OBVIOUS
<1> USE StatsAssumption DEF Init
<1>1. TypeOK
  BY Constants DEF TypeOK, StateInit, StateType
<1>2. RegistryConsistent /\ (\A k \in DOMAIN stats : EntrySound(k)) /\ LocalsSound /\ InFlight = {}
  BY DEF RegistryConsistent, LocalsSound, InFlight
<1>3. IdsCountSubnets /\ CountsCovered /\ IsFiniteSet(DOMAIN stats) /\ EntriesBounded
  <2>1. DOMAIN subnet_to_id = {} /\ DOMAIN stats = {}
    OBVIOUS
  <2> QED BY <1>2, <2>1, FS_EmptySet DEF IdsCountSubnets, CountsCovered, EntriesBounded
<1> QED BY <1>1, <1>2, <1>3 DEF IInv

\* A CREATE registers its network; what calls under way and entries refer to
\* stays registered.
LEMMA CreateRegisterInv ==
    ASSUME IInv, NEW n \in Names, create_register(n)
    PROVE  IInv'
<1> USE DEF IInv
<1>1. UNCHANGED <<state, stats, clock, pc, rec, resolves>>
  BY DEF create_register, taskVars
<1>2. pending' \subseteq Create
  BY DEF create_register, TypeOK, Create
<1>3. /\ DOMAIN subnet_to_id' \subseteq Subnets
      /\ subnet_to_id' \in [DOMAIN subnet_to_id' -> Ids]
      /\ DOMAIN registry' \subseteq Ids
      /\ registry' \in [DOMAIN registry' -> [name : Names, subnet : Subnets]]
      /\ next_id' \in 1..Cardinality(Subnets) + 1
      /\ RegistryConsistent' /\ IdsCountSubnets'
      /\ DOMAIN registry \subseteq DOMAIN registry'
  <2>1. CASE \E s \in Subnets : register_network(n, s)
    BY <2>1, RegisterStep
  <2>2. CASE UNCHANGED netVars
    BY <2>2 DEF netVars, TypeOK, RegistryConsistent, IdsCountSubnets
  <2> QED BY <2>1, <2>2 DEF create_register
<1>4. TypeOK'
  BY <1>1, <1>2, <1>3 DEF TypeOK, StateType
<1>5. LocalsSound'
  BY <1>1, <1>3 DEF LocalsSound, LocalSound, InFlight
<1>6. CountsCovered' /\ IsFiniteSet(DOMAIN stats)' /\ EntriesBounded'
  BY <1>1 DEF CountsCovered, InFlight, EntriesBounded
<1>7. \A k \in DOMAIN stats' : EntrySound(k)'
  BY <1>1, <1>3 DEF EntrySound
<1> QED BY <1>3, <1>4, <1>5, <1>6, <1>7

\* The second lock of a CREATE, a REMOVE and the passing of time touch neither
\* the registry nor the statistics.
LEMMA OtherStepInv ==
    ASSUME IInv, create_insert \/ (\E n \in Names : handle_remove(n)) \/ Tick
    PROVE  IInv'
<1> USE StatsAssumption DEF IInv
<1>1. UNCHANGED <<subnet_to_id, registry, next_id, stats, pc, rec, resolves>>
  BY DEF create_insert, handle_remove, Tick, netVars, taskVars
<1>2. StateType' /\ pending' \subseteq Create
  <2>1. CASE create_insert
    BY <2>1, StateOpsType DEF create_insert, TypeOK, Create
  <2>2. CASE \E n \in Names : handle_remove(n)
    BY <2>2, StateOpsType DEF handle_remove, TypeOK
  <2>3. CASE Tick
    BY <2>3 DEF Tick, TypeOK, StateType
  <2> QED BY <2>1, <2>2, <2>3
<1>3. clock' \in 0..MaxTime /\ clock <= clock'
  BY DEF create_insert, handle_remove, Tick, TypeOK
<1>4. TypeOK'
  BY <1>1, <1>2, <1>3 DEF TypeOK
<1>5. RegistryConsistent' /\ IdsCountSubnets' /\ CountsCovered' /\ IsFiniteSet(DOMAIN stats)'
      /\ EntriesBounded'
  BY <1>1 DEF RegistryConsistent, IdsCountSubnets, CountsCovered, InFlight, EntriesBounded
<1>6. LocalsSound'
  <2>1. ASSUME NEW t \in InFlight PROVE LocalSound(t)'
    <3>1. rec[t].now <= clock /\ rec[t].now \in 0..MaxTime /\ clock \in 0..MaxTime
      BY DEF LocalsSound, LocalSound, TypeOK, Local
    <3>2. rec[t].now <= clock'
      BY <1>3, <3>1
    <3> QED BY <1>1, <3>2 DEF LocalsSound, LocalSound
  <2> QED BY <1>1, <2>1 DEF LocalsSound, InFlight
<1>7. \A k \in DOMAIN stats' : EntrySound(k)'
  <2>1. ASSUME NEW k \in DOMAIN stats PROVE EntrySound(k)'
    <3>1. stats[k].last_seen <= clock /\ stats[k].last_seen \in 0..MaxTime /\ clock \in 0..MaxTime
      BY DEF EntrySound, TypeOK, Entry
    <3>2. stats[k].last_seen <= clock'
      BY <1>3, <3>1
    <3> QED BY <1>1, <3>2 DEF EntrySound
  <2> QED BY <1>1, <2>1
<1> QED BY <1>4, <1>5, <1>6, <1>7


\* A query is counted and looks its network up under the first lock.
LEMMA LookupInv ==
    ASSUME IInv, NEW t \in Tasks, NEW k \in Keys, record_lookup(t, k)
    PROVE  IInv'
<1> USE StatsAssumption DEF IInv
<1>1. /\ pc[t] = "idle" /\ resolves < MaxResolves /\ resolves' = resolves + 1
      /\ pc' = [pc EXCEPT ![t] = "judge"]
      /\ UNCHANGED <<state, subnet_to_id, registry, next_id, stats, clock, pending>>
  BY DEF record_lookup, netVars
<1>2. PICK r \in Local :
        /\ rec' = [rec EXCEPT ![t] = r]
        /\ r.now = clock
        /\ r.network_id \in DOMAIN registry \cup {None}
        /\ (r.name = None) <=> (r.network_id = None)
  <2> DEFINE local(id, name) == [key |-> k, now |-> clock, network_id |-> id,
                                 name |-> name, accepted |-> None]
  <2>1. CASE rec' = [rec EXCEPT ![t] = local(None, None)]
    <3>1. local(None, None) \in Local
      BY DEF Local, Verdict, TypeOK
    <3> QED BY <2>1, <3>1
  <2>2. ASSUME NEW s \in DOMAIN subnet_to_id,
               rec' = [rec EXCEPT ![t] = local(subnet_to_id[s],
                        IF subnet_to_id[s] \in DOMAIN registry
                        THEN registry[subnet_to_id[s]].name ELSE None)]
        PROVE  \E r \in Local :
                    /\ rec' = [rec EXCEPT ![t] = r]
                    /\ r.now = clock
                    /\ r.network_id \in DOMAIN registry \cup {None}
                    /\ (r.name = None) <=> (r.network_id = None)
    <3> DEFINE id == subnet_to_id[s]
               nm == registry[id].name
    <3>1. id \in DOMAIN registry /\ id \in Ids /\ nm \in Names
      BY DEF RegistryConsistent, TypeOK
    <3>2. rec' = [rec EXCEPT ![t] = local(id, nm)]
      BY <2>2, <3>1
    <3>3. local(id, nm) \in Local /\ id # None /\ nm # None
      BY <3>1, Constants DEF Local, Verdict, TypeOK
    <3> HIDE DEF id, nm
    <3> QED BY <3>1, <3>2, <3>3
  <2> QED BY <2>1, <2>2 DEF record_lookup
<1>3. InFlight' = InFlight \cup {t} /\ t \notin InFlight
  BY <1>1 DEF InFlight, TypeOK
<1>4. TypeOK'
  BY <1>1, <1>2 DEF TypeOK, StateType
<1>5. RegistryConsistent' /\ IdsCountSubnets' /\ IsFiniteSet(DOMAIN stats)' /\ EntriesBounded'
      /\ \A e \in DOMAIN stats' : EntrySound(e)'
  BY <1>1 DEF RegistryConsistent, IdsCountSubnets, EntriesBounded, EntrySound
<1>6. LocalsSound'
  <2>1. LocalSound(t)'
    <3>1. rec'[t] = r /\ pc'[t] = "judge" /\ clock \in Nat
      BY <1>1, <1>2 DEF TypeOK
    <3> QED BY <1>1, <1>2, <3>1 DEF LocalSound
  <2>2. ASSUME NEW u \in InFlight PROVE LocalSound(u)'
    <3>1. u \in Tasks /\ u # t
      BY <1>3 DEF InFlight
    <3>2. rec'[u] = rec[u] /\ pc'[u] = pc[u]
      BY <1>1, <1>2, <3>1 DEF TypeOK
    <3> QED BY <1>1, <3>2 DEF LocalsSound, LocalSound
  <2> QED BY <1>3, <2>1, <2>2 DEF LocalsSound
<1>7. CountsCovered'
  <2>1. /\ IsFiniteSet(InFlight')
        /\ Cardinality(InFlight') = Cardinality(InFlight) + 1
        /\ Cardinality(InFlight) \in Nat
    BY <1>3, FS_AddElement, FS_CardinalityType DEF CountsCovered
  <2> QED BY <1>1, <2>1 DEF CountsCovered, TypeOK, Entry
<1> QED BY <1>4, <1>5, <1>6, <1>7

\* The verdict is given for exactly the calls that found a network.
LEMMA JudgeInv ==
    ASSUME IInv, NEW t \in Tasks, record_judge(t)
    PROVE  IInv'
<1> USE StatsAssumption DEF IInv
<1>1. /\ pc[t] = "judge"
      /\ pc' = [pc EXCEPT ![t] = "write"]
      /\ UNCHANGED <<state, subnet_to_id, registry, next_id, stats, clock, pending, resolves>>
  BY DEF record_judge, netVars
<1>2. t \in InFlight /\ InFlight' = InFlight
  BY <1>1 DEF InFlight, TypeOK
<1>3. LocalSound(t)
  BY <1>2 DEF LocalsSound
<1>4. PICK v \in Verdict : /\ rec' = [rec EXCEPT ![t].accepted = v]
                           /\ (v = None) <=> (rec[t].name = None)
  <2>1. is_domain_accepted_by_network(rec[t].key[1], rec[t].name) \in BOOLEAN
    BY DEF is_domain_accepted_by_network
  <2> QED BY <2>1, Constants DEF record_judge, Verdict
<1>5. rec'[t] = [rec[t] EXCEPT !.accepted = v] /\ rec'[t] \in Local
      /\ \A u \in Tasks \ {t} : rec'[u] = rec[u] /\ pc'[u] = pc[u]
  BY <1>1, <1>3, <1>4 DEF TypeOK, LocalSound, Local
<1>6. TypeOK'
  <2>1. rec' \in [Tasks -> Local \cup {None}]
    BY <1>4, <1>5 DEF TypeOK
  <2> QED BY <1>1, <2>1 DEF TypeOK, StateType
<1>7. RegistryConsistent' /\ IdsCountSubnets' /\ IsFiniteSet(DOMAIN stats)' /\ EntriesBounded'
      /\ CountsCovered' /\ \A e \in DOMAIN stats' : EntrySound(e)'
  BY <1>1, <1>2 DEF RegistryConsistent, IdsCountSubnets, EntriesBounded, CountsCovered, EntrySound
<1>8. LocalsSound'
  <2>1. LocalSound(t)'
    <3>1. /\ rec'[t].now = rec[t].now /\ rec'[t].network_id = rec[t].network_id
          /\ rec'[t].name = rec[t].name /\ rec'[t].accepted = v
      BY <1>3, <1>5 DEF LocalSound, Local
    <3> QED BY <1>1, <1>3, <1>4, <1>5, <3>1 DEF LocalSound
  <2>2. ASSUME NEW u \in InFlight \ {t} PROVE LocalSound(u)'
    BY <1>1, <1>5 DEF LocalsSound, LocalSound, InFlight
  <2> QED BY <1>2, <2>1, <2>2 DEF LocalsSound
<1> QED BY <1>6, <1>7, <1>8

\* What record_write leaves of the table: entries that were there, unchanged,
\* and the one it writes, which is new only when there is room for it.
LEMMA WriteStep ==
    ASSUME IInv, NEW t \in Tasks, record_write(t)
    PROVE  LET r == rec[t] IN
           /\ Retained(r.now) \subseteq DOMAIN stats
           /\ \A k \in DOMAIN stats' :
                \/ k \in Retained(r.now) /\ stats'[k] = stats[k]
                \/ /\ k = r.key
                   /\ stats'[k] = [count |-> Count(r.key, r.now) + 1, last_seen |-> r.now,
                                   network_id |-> r.network_id, accepted |-> r.accepted]
           /\ stats' = [k \in DOMAIN stats' |-> stats'[k]]
           /\ \/ DOMAIN stats' = Retained(r.now)
              \/ /\ DOMAIN stats' = Retained(r.now) \cup {r.key}
                 /\ ~(Cardinality(Retained(r.now)) >= MaxEntries)
  BY DEF record_write, Retained, Full

\* The entry is written under the last lock and the call is over.
LEMMA WriteInv ==
    ASSUME IInv, NEW t \in Tasks, record_write(t)
    PROVE  IInv'
<1> USE StatsAssumption DEF IInv
<1> DEFINE r == rec[t]
           old == Retained(r.now)
           written == [count |-> Count(r.key, r.now) + 1, last_seen |-> r.now,
                       network_id |-> r.network_id, accepted |-> r.accepted]
<1>1. /\ pc[t] = "write"
      /\ pc' = [pc EXCEPT ![t] = "idle"]
      /\ rec' = [rec EXCEPT ![t] = None]
      /\ UNCHANGED <<state, subnet_to_id, registry, next_id, clock, pending, resolves>>
  BY DEF record_write, netVars
<1>2. t \in InFlight /\ InFlight' = InFlight \ {t} /\ LocalSound(t)
  BY <1>1 DEF InFlight, TypeOK, LocalsSound
<1>3. /\ r \in Local
      /\ r.now <= clock
      /\ r.network_id \in DOMAIN registry \cup {None}
      /\ (r.accepted = None) <=> (r.network_id = None)
  BY <1>1, <1>2 DEF LocalSound
<1>4. /\ old \subseteq DOMAIN stats
      /\ \A k \in DOMAIN stats' : \/ k \in old /\ stats'[k] = stats[k]
                                  \/ k = r.key /\ stats'[k] = written
      /\ stats' = [k \in DOMAIN stats' |-> stats'[k]]
      /\ \/ DOMAIN stats' = old
         \/ DOMAIN stats' = old \cup {r.key} /\ ~(Cardinality(old) >= MaxEntries)
  BY WriteStep
<1>5. /\ IsFiniteSet(InFlight') /\ Cardinality(InFlight') \in Nat
      /\ Cardinality(InFlight') + 1 = Cardinality(InFlight)
      /\ Cardinality(InFlight) \in Nat
  <2>1. IsFiniteSet(InFlight) /\ IsFiniteSet(InFlight \ {t})
        /\ Cardinality(InFlight \ {t}) = Cardinality(InFlight) - 1
    BY <1>2, FS_RemoveElement DEF CountsCovered
  <2>2. Cardinality(InFlight) \in Nat /\ Cardinality(InFlight \ {t}) \in Nat
    BY <2>1, FS_CardinalityType
  <2> QED BY <1>2, <2>1, <2>2
<1>6. /\ Count(r.key, r.now) + 1 \in 1..MaxResolves
      /\ Count(r.key, r.now) + 1 + Cardinality(InFlight') <= resolves
  <2>1. Count(r.key, r.now) \in Nat /\ Count(r.key, r.now) + Cardinality(InFlight) <= resolves
    <3>1. CASE r.key \in old
      <4>1. stats[r.key].count \in Nat
            /\ stats[r.key].count + Cardinality(InFlight) <= resolves
        BY <1>4, <3>1 DEF TypeOK, Entry, CountsCovered
      <4> QED BY <3>1, <4>1 DEF Count
    <3>2. CASE r.key \notin old
      BY <3>2, <1>5 DEF Count, CountsCovered, TypeOK
    <3> QED BY <3>1, <3>2
  <2>2. resolves \in 0..MaxResolves
    BY DEF TypeOK
  <2> HIDE DEF r
  <2> QED BY <1>5, <2>1, <2>2
<1>7. written \in Entry
  BY <1>3, <1>6 DEF Local, Entry
<1> HIDE DEF r, old, written
<1>8. TypeOK'
  <2>1. r.key \in Keys
    BY <1>3 DEF Local
  <2>2. DOMAIN stats' \subseteq Keys
    BY <1>4, <2>1 DEF TypeOK
  <2>3. \A k \in DOMAIN stats' : stats'[k] \in Entry
    BY <1>4, <1>7 DEF TypeOK
  <2>4. stats' \in [DOMAIN stats' -> Entry]
    BY <1>4, <2>3
  <2> QED BY <1>1, <2>2, <2>4 DEF TypeOK, StateType
<1>9. RegistryConsistent' /\ IdsCountSubnets'
  BY <1>1 DEF RegistryConsistent, IdsCountSubnets
<1>10. LocalsSound'
  <2>1. ASSUME NEW u \in InFlight' PROVE LocalSound(u)'
    <3>1. u \in InFlight /\ u \in Tasks \ {t}
      BY <1>2 DEF InFlight
    <3>2. rec'[u] = rec[u] /\ pc'[u] = pc[u]
      BY <1>1, <3>1 DEF TypeOK
    <3> QED BY <1>1, <3>1, <3>2 DEF LocalsSound, LocalSound
  <2> QED BY <2>1 DEF LocalsSound
<1>11. CountsCovered'
  <2>1. ASSUME NEW k \in DOMAIN stats'
        PROVE  stats'[k].count + Cardinality(InFlight') <= resolves
    <3>1. CASE k = r.key /\ stats'[k] = written
      BY <1>6, <3>1 DEF written
    <3>2. CASE k \in old /\ stats'[k] = stats[k]
      <4>1. k \in DOMAIN stats
        BY <1>4, <3>2
      <4>2. stats[k].count \in Nat /\ stats[k].count + Cardinality(InFlight) <= resolves
        BY <4>1 DEF TypeOK, Entry, CountsCovered
      <4> QED BY <1>5, <3>2, <4>2 DEF TypeOK
    <3> QED BY <1>4, <3>1, <3>2
  <2>2. Cardinality(InFlight') <= resolves
    BY <1>5 DEF CountsCovered, TypeOK
  <2> QED BY <1>1, <1>5, <2>1, <2>2 DEF CountsCovered
<1>12. \A k \in DOMAIN stats' : EntrySound(k)'
  <2>1. ASSUME NEW k \in DOMAIN stats' PROVE EntrySound(k)'
    <3>1. CASE k = r.key /\ stats'[k] = written
      BY <1>1, <1>3, <3>1 DEF written, EntrySound
    <3>2. CASE k \in old /\ stats'[k] = stats[k]
      BY <1>1, <1>4, <3>2 DEF EntrySound
    <3> QED BY <1>4, <3>1, <3>2
  <2> QED BY <2>1
<1>13. IsFiniteSet(DOMAIN stats') /\ EntriesBounded'
  <2>1. IsFiniteSet(old) /\ Cardinality(old) <= Cardinality(DOMAIN stats)
        /\ Cardinality(old) \in Nat /\ Cardinality(DOMAIN stats) \in Nat
    <3>1. IsFiniteSet(old) /\ Cardinality(old) <= Cardinality(DOMAIN stats)
      BY <1>4, FS_Subset
    <3> QED BY <3>1, FS_CardinalityType
  <2>2. CASE DOMAIN stats' = old
    BY <2>1, <2>2 DEF EntriesBounded
  <2>3. CASE DOMAIN stats' = old \cup {r.key} /\ ~(Cardinality(old) >= MaxEntries)
    <3>1. IsFiniteSet(old \cup {r.key})
          /\ Cardinality(old \cup {r.key}) <= Cardinality(old) + 1
      BY <2>1, FS_AddElement
    <3>2. Cardinality(old \cup {r.key}) \in Nat
      BY <3>1, FS_CardinalityType
    <3> QED BY <2>1, <2>3, <3>1, <3>2 DEF EntriesBounded
  <2> QED BY <1>4, <2>2, <2>3
<1> QED BY <1>8, <1>9, <1>10, <1>11, <1>12, <1>13
-----------------------------------------------------------------------------
(* Theorems *)

\* The strengthened invariant holds of every behaviour.
THEOREM StatsInvariance == Spec => []IInv
<1>1. Init => IInv
  BY InitInv
<1>2. IInv /\ [Next]_vars => IInv'
  <2>1. ASSUME IInv, UNCHANGED vars PROVE IInv'
    <3>1. UNCHANGED <<state, subnet_to_id, registry, next_id, stats, clock, pending, pc, rec, resolves>>
      BY <2>1 DEF vars, netVars, taskVars
    <3> QED BY <2>1, <3>1 DEF IInv, TypeOK, StateType, RegistryConsistent, IdsCountSubnets,
              LocalsSound, LocalSound, CountsCovered, InFlight, EntrySound, EntriesBounded
  <2> QED BY <2>1, CreateRegisterInv, OtherStepInv, LookupInv, JudgeInv, WriteInv DEF Next
<1> QED BY <1>1, <1>2, PTL DEF Spec

\* Every variable keeps its type: no identifier is given out beyond the number
\* of subnets, and no count exceeds the calls of record_resolve.
THEOREM StatsTypes == Spec => []TypeOK
<1>1. IInv => TypeOK
  BY DEF IInv
<1> QED BY <1>1, StatsInvariance, PTL

\* SUBNET_TO_ID and NETWORK_REGISTRY stay each other's inverse.
THEOREM RegistryInStep == Spec => []RegistryConsistent
<1>1. IInv => RegistryConsistent
  BY DEF IInv
<1> QED BY <1>1, StatsInvariance, PTL

\* The report shows every entry once, under a registered network with a verdict
\* or under none without one, however many queries are recorded at a time.
THEOREM ReportCovers == Spec => []ReportComplete
<1>1. IInv => ReportComplete
  BY DEF IInv, EntrySound, ReportComplete, Shown
<1> QED BY <1>1, StatsInvariance, PTL

\* The table of statistics never grows beyond MAX_STATS_ENTRIES.
THEOREM TableBounded == Spec => []EntriesBounded
<1>1. IInv => EntriesBounded
  BY DEF IInv
<1> QED BY <1>1, StatsInvariance, PTL

\* record_resolve drops no entry before its time, although the time it judges
\* by was read before the locks.
THEOREM NoEarlyExpiry == Spec => OnlyOldEntriesExpire
<1> DEFINE OnlyOld == \A k \in DOMAIN stats \ DOMAIN stats' : clock >= stats[k].last_seen + TTL
<1>1. ASSUME IInv, Next PROVE OnlyOld
  <2>1. CASE \E t \in Tasks : record_write(t)
    <3>1. PICK t \in Tasks : record_write(t)
      BY <2>1
    <3> SUFFICES ASSUME NEW k \in DOMAIN stats, k \notin DOMAIN stats'
                 PROVE  clock >= stats[k].last_seen + TTL
      OBVIOUS
    <3>2. rec[t].now <= clock /\ rec[t].now \in Nat /\ clock \in Nat
      BY <1>1, <3>1 DEF IInv, record_write, LocalsSound, LocalSound, InFlight, Local, TypeOK
    <3>3. stats[k].last_seen <= clock /\ stats[k].last_seen \in Nat /\ TTL \in Nat
      BY <1>1, StatsAssumption DEF IInv, EntrySound, TypeOK, Entry
    <3>4. ~(Age(k, rec[t].now) < TTL)
      BY <3>1 DEF record_write, Retained
    <3> QED BY <3>2, <3>3, <3>4 DEF Age
  <2>2. CASE UNCHANGED stats
    BY <2>2
  <2> QED BY <1>1, <2>1, <2>2 DEF Next, create_register, handle_remove, create_insert, record_judge,
                                  record_lookup, Tick
<1>2. IInv /\ [Next]_vars => [OnlyOld]_vars
  BY <1>1
<1> QED BY <1>2, StatsInvariance, PTL DEF Spec, OnlyOldEntriesExpire
=============================================================================
