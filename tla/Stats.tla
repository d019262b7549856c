------------------------------- MODULE Stats -------------------------------
(***************************************************************************)
(* The daemon's statistics (src/stats.rs).  A network is known by its      *)
(* subnet: register_network gives every new subnet an identifier and keeps *)
(* two maps in step.  record_resolve takes three locks one after another:  *)
(* it looks the origin's network up, then asks the policy table whether    *)
(* that network allows the domain, then updates the statistics; commands   *)
(* and other queries run in between, and the time it stores is older than  *)
(* all three.                                                              *)
(***************************************************************************)
EXTENDS PolicyState, Naturals, FiniteSets

CONSTANTS
    Subnets,        \* subnets networks are created with
    Origins,        \* addresses queries come from
    InSubnet,       \* the pairs <<o, s>> with ip_in_subnet(o, s)
    Tasks,          \* identities of concurrent DNS tasks
    Policies,       \* the pattern lists commands may carry
    TTL,            \* --stats-ttl
    MaxEntries,     \* MAX_STATS_ENTRIES
    MaxTime,        \* bound: the clock stops here
    MaxResolves,    \* bound: queries recorded
    MaxPending,     \* bound: CREATE commands under way
    None            \* Option::None

ASSUME StatsAssumption ==
    /\ InSubnet \subseteq Origins \X Subnets
    /\ IsFiniteSet(Subnets)
    /\ Policies \subseteq SUBSET Patterns
    /\ TTL \in Nat /\ MaxEntries \in Nat /\ MaxTime \in Nat
    /\ MaxResolves \in Nat /\ MaxPending \in Nat
    /\ None \notin Nat \cup Names \cup BOOLEAN

VARIABLES
    subnet_to_id,   \* SUBNET_TO_ID
    registry,       \* NETWORK_REGISTRY
    next_id,        \* NEXT_NETWORK_ID
    stats,          \* STATS
    clock,          \* SystemTime::now()
    pending,        \* CREATE commands between their two locks
    pc,             \* where each task is in record_resolve
    rec,            \* its local variables
    resolves        \* number of calls of record_resolve so far

netVars  == <<subnet_to_id, registry, next_id>>
taskVars == <<pc, rec, resolves>>
vars     == <<state, netVars, stats, clock, pending, taskVars>>

Keys    == Domains \X Origins
Verdict == BOOLEAN \cup {None}
Ids     == 1..Cardinality(Subnets)
Entry   == [count : 1..MaxResolves, last_seen : 0..MaxTime,
            network_id : Ids \cup {None}, accepted : Verdict]
Local   == [key : Keys, now : 0..MaxTime, network_id : Ids \cup {None},
            name : Names \cup {None}, accepted : Verdict]
Create  == [name : Names, patterns : Policies]

TypeOK ==
    /\ StateType
    /\ DOMAIN subnet_to_id \subseteq Subnets
    /\ subnet_to_id \in [DOMAIN subnet_to_id -> Ids]
    /\ DOMAIN registry \subseteq Ids
    /\ registry \in [DOMAIN registry -> [name : Names, subnet : Subnets]]
    /\ next_id \in 1..Cardinality(Subnets) + 1
    /\ DOMAIN stats \subseteq Keys
    /\ stats \in [DOMAIN stats -> Entry]
    /\ clock \in 0..MaxTime
    /\ pending \subseteq Create
    /\ pc \in [Tasks -> {"idle", "judge", "write"}]
    /\ rec \in [Tasks -> Local \cup {None}]
    /\ resolves \in 0..MaxResolves

Init ==
    /\ StateInit
    /\ subnet_to_id = [s \in {} |-> 0]
    /\ registry = [i \in {} |-> {}]
    /\ next_id = 1
    /\ stats = [k \in {} |-> {}]
    /\ clock = 0
    /\ pending = {}
    /\ pc = [t \in Tasks |-> "idle"]
    /\ rec = [t \in Tasks |-> None]
    /\ resolves = 0
-----------------------------------------------------------------------------
(* Commands *)

\* Variants with a fault: an identifier is taken before the look-up, and the
\* counter is read without being advanced.
NextId_Early(known)  == next_id + 1
NextId_Shared(known) == next_id

NextId(known) == IF known THEN next_id ELSE next_id + 1

\* Both maps are locked throughout: a subnet seen before keeps its
\* identifier, and the newest name.
register_network(n, s) ==
    LET known == s \in DOMAIN subnet_to_id
        id    == IF known THEN subnet_to_id[s] ELSE next_id
    IN  /\ subnet_to_id' = [r \in DOMAIN subnet_to_id \cup {s} |->
                              IF r = s THEN id ELSE subnet_to_id[r]]
        /\ registry' = [i \in DOMAIN registry \cup {id} |->
                          IF i = id THEN [name |-> n, subnet |-> s] ELSE registry[i]]
        /\ next_id' = NextId(known)

\* A CREATE with a subnet registers it first; one without does not.
create_register(n) ==
    /\ Cardinality(pending) < MaxPending
    /\ \E patterns \in Policies :
        pending' = pending \cup {[name |-> n, patterns |-> patterns]}
    /\ (\E s \in Subnets : register_network(n, s)) \/ UNCHANGED netVars
    /\ UNCHANGED <<state, stats, clock, taskVars>>

\* Then it locks the policy table.
create_insert ==
    /\ \E cmd \in pending :
        /\ insert_managed(cmd.name, cmd.patterns)
        /\ pending' = pending \ {cmd}
    /\ UNCHANGED <<netVars, stats, clock, taskVars>>

\* Variant with a fault: a REMOVE takes the network out of one of the maps.
handle_remove_Unregisters(n) ==
    /\ n \in DOMAIN state
    /\ remove_managed(n)
    /\ registry' = [i \in {j \in DOMAIN registry : registry[j].name # n} |-> registry[i]]
    /\ UNCHANGED <<subnet_to_id, next_id, stats, clock, pending, taskVars>>

\* A REMOVE leaves the network registered.
handle_remove(n) ==
    /\ n \in DOMAIN state
    /\ remove_managed(n)
    /\ UNCHANGED <<netVars, stats, clock, pending, taskVars>>
-----------------------------------------------------------------------------
(* record_resolve *)

\* Some registered subnet that holds the origin, in the map's order.  The time
\* is read just before, and gets as old as can be on the way to the entry.
record_lookup(t, k) ==
    LET found == {s \in DOMAIN subnet_to_id : <<k[2], s>> \in InSubnet}
        local(id, name) == [key |-> k, now |-> clock, network_id |-> id,
                            name |-> name, accepted |-> None]
    IN  /\ pc[t] = "idle"
        /\ resolves < MaxResolves
        /\ resolves' = resolves + 1
        /\ \/ /\ found = {}
              /\ rec' = [rec EXCEPT ![t] = local(None, None)]
           \/ \E s \in found :
                LET id == subnet_to_id[s] IN
                rec' = [rec EXCEPT ![t] =
                          local(id, IF id \in DOMAIN registry THEN registry[id].name ELSE None)]
        /\ pc' = [pc EXCEPT ![t] = "judge"]
        /\ UNCHANGED <<state, netVars, stats, clock, pending>>

is_domain_accepted_by_network(d, n) ==
    n \in DOMAIN state /\ accepts(state[n].allowed_domain_patterns, d)

record_judge(t) ==
    /\ pc[t] = "judge"
    /\ rec' = [rec EXCEPT ![t].accepted =
                IF rec[t].name = None THEN None
                ELSE is_domain_accepted_by_network(rec[t].key[1], rec[t].name)]
    /\ pc' = [pc EXCEPT ![t] = "write"]
    /\ UNCHANGED <<state, netVars, stats, clock, pending, resolves>>

\* An entry written with a later time than the caller's has no age.
Age(k, now) == IF now > stats[k].last_seen THEN now - stats[k].last_seen ELSE 0

\* Variant with a fault: entries go one tick early.
Retained_OffByOne(now) == {k \in DOMAIN stats : Age(k, now) + 1 < TTL}

\* The entries record_resolve keeps.
Retained(now) == {k \in DOMAIN stats : Age(k, now) < TTL}

\* Variant with a fault: the limit itself still has room.
Full_OffByOne(k, now) == k \notin Retained(now) /\ Cardinality(Retained(now)) > MaxEntries

\* With the table full, a domain and origin not seen before is not recorded.
Full(k, now) == k \notin Retained(now) /\ Cardinality(Retained(now)) >= MaxEntries

Count(k, now) == IF k \in Retained(now) THEN stats[k].count ELSE 0

record_write(t) ==
    LET r == rec[t]
        written == [count      |-> Count(r.key, r.now) + 1,
                    last_seen  |-> r.now,
                    network_id |-> r.network_id,
                    accepted   |-> r.accepted]
        recorded == IF Full(r.key, r.now) THEN {} ELSE {r.key}
    IN  /\ pc[t] = "write"
        /\ stats' = [k \in Retained(r.now) \cup recorded |->
                        IF k \in recorded THEN written ELSE stats[k]]
        /\ pc' = [pc EXCEPT ![t] = "idle"]
        /\ rec' = [rec EXCEPT ![t] = None]
        /\ UNCHANGED <<state, netVars, clock, pending, resolves>>

Tick ==
    /\ clock < MaxTime
    /\ clock' = clock + 1
    /\ UNCHANGED <<state, netVars, stats, pending, taskVars>>

Next ==
    \/ \E n \in Names : create_register(n) \/ handle_remove(n)
    \/ create_insert
    \/ \E t \in Tasks : record_judge(t) \/ record_write(t)
                        \/ \E k \in Keys : record_lookup(t, k)
    \/ Tick

Spec == Init /\ [][Next]_vars
-----------------------------------------------------------------------------
(* The report, which reads the registry and the statistics under both locks *)

\* The entries shown under a registered network, and those under none.
Shown(id) == {k \in DOMAIN stats : stats[k].network_id = id}

-----------------------------------------------------------------------------
(* Properties *)

\* The two maps of networks stay in step: identifiers are never shared, and
\* each leads to the subnet it was given for.  The report's unwrap() and the
\* verdict of every query rest on it.
RegistryConsistent ==
    /\ \A s \in DOMAIN subnet_to_id :
        /\ subnet_to_id[s] \in DOMAIN registry
        /\ registry[subnet_to_id[s]].subnet = s
        /\ subnet_to_id[s] < next_id
    /\ \A i \in DOMAIN registry :
        /\ registry[i].subnet \in DOMAIN subnet_to_id
        /\ subnet_to_id[registry[i].subnet] = i

\* No entry falls through the report: it is shown under a network that is
\* registered at that time, with a verdict, or as unknown, without one, also
\* when the network changed hands while its query was being recorded.
ReportComplete ==
    /\ DOMAIN stats = Shown(None) \cup UNION {Shown(i) : i \in DOMAIN registry}
    /\ \A k \in DOMAIN stats : (stats[k].accepted = None) <=> (k \in Shown(None))

\* The table never exceeds its limit, whatever the interleaving of writers.
EntriesBounded == Cardinality(DOMAIN stats) <= MaxEntries

\* An entry disappears only once its age has reached the limit, although the
\* writer that removes it judges by a time it read before it got the locks.
OnlyOldEntriesExpire ==
    [][\A k \in DOMAIN stats \ DOMAIN stats' : clock >= stats[k].last_seen + TTL]_vars
=============================================================================
