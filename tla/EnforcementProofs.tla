------------------------- MODULE EnforcementProofs -------------------------
(***************************************************************************)
(* Proofs about Enforcement for every number of networks, tasks, patterns, *)
(* domains and addresses.                                                  *)
(***************************************************************************)
EXTENDS Enforcement, TLAPS

-----------------------------------------------------------------------------
(* What makes OnlyAuthorisedAddresses inductive: the same holds of         *)
(* everything on its way into the sets.                                    *)

\* The table lists only granted patterns and authorised addresses.
TableAuthorised ==
    \A n \in DOMAIN state :
        /\ state[n].allowed_domain_patterns \subseteq granted[n]
        /\ state[n].ips \subseteq Reachable(granted[n])

\* So do the snapshots that tasks took of it, however old.
SnapshotsAuthorised ==
    \A t \in Tasks : \A ch \in changed[t] : ch.ips \subseteq Reachable(granted[ch.name])

\* So do the payloads of running children, orphans included.
PayloadsAuthorised ==
    \A t \in Tasks :
        child[t] # NoChild => child[t].todo \subseteq Reachable(granted[child[t].name])

\* And each kernel set, of either family.
SetsAuthorised ==
    \A k \in DOMAIN kset : kset[k] \subseteq Reachable(granted[k[1]])

\* A task handles a response of the upstream server.
ResponsesGenuine == \A t \in Tasks : resp[t] \in Responses \cup {NoResponse}

IInv ==
    /\ TypeOK
    /\ TableAuthorised
    /\ SnapshotsAuthorised
    /\ PayloadsAuthorised
    /\ SetsAuthorised
    /\ ResponsesGenuine

-----------------------------------------------------------------------------
(* What makes NoMissingAddress inductive, for one task and without faults: *)
(* while the task pushes, what the table lists is in what it still has to. *)

Serial == Faults = {} /\ \A t, u \in Tasks : t = u

\* A task has snapshots and a child only where the code has them.
Phased(t) ==
    /\ pc[t] # "orphan"
    /\ Running(t) <=> pc[t] = "restore"
    /\ pc[t] \in {"idle", "inspect", "reply"} => changed[t] = {}

\* A task has still to push the network, or its child is at it.
Pending(t, n) == \E c \in changed[t] : c.name = n
Pushing(t, n) == Running(t) /\ child[t].name = n

\* No address of the table gets lost: a snapshot has them all, a child that
\* has flushed has them in the kernel or still to add.
Covered(n) ==
    /\ \A t \in Tasks : \A c \in changed[t] : c.name = n => StateIps(n) \subseteq c.ips
    /\ \A t \in Tasks : Pushing(t, n) =>
        StateIps(n) \subseteq child[t].todo \cup (IF child[t].line = "add" THEN KernelIps(n) ELSE {})
    /\ (\A t \in Tasks : ~Pending(t, n) /\ ~Pushing(t, n)) => StateIps(n) \subseteq KernelIps(n)

PushInv ==
    /\ \A t \in Tasks : Phased(t)
    /\ \A n \in Names : Prepared(n) /\ prep[n] = "idle" => Covered(n)
-----------------------------------------------------------------------------
(* Types *)

\* The operations on the policy table keep it a table.
LEMMA StateOpsType ==
    ASSUME StateType
    PROVE  /\ \A qs \in SUBSET Domains, ips \in SUBSET Ips :
                apply_resolved_ips(qs, ips) => StateType'
           /\ \A n \in Names, ps \in SUBSET Patterns :
                insert_managed(n, ps) => StateType'
           /\ \A n \in Names : remove_managed(n) => StateType'
<1>1. ASSUME NEW qs \in SUBSET Domains, NEW ips \in SUBSET Ips, apply_resolved_ips(qs, ips)
      PROVE  StateType'
  BY <1>1 DEF StateType, apply_resolved_ips, ManagedIpset
<1>2. ASSUME NEW n \in Names, NEW ps \in SUBSET Patterns, insert_managed(n, ps)
      PROVE  StateType'
  BY <1>2 DEF StateType, insert_managed, ManagedIpset
<1>3. ASSUME NEW n \in Names, remove_managed(n)
      PROVE  StateType'
  BY <1>3 DEF StateType, remove_managed, ManagedIpset
<1> QED BY <1>1, <1>2, <1>3

\* What apply_resolved_ips returns is a set of changes to named networks.
LEMMA ChangedSetsType ==
    ASSUME StateType, NEW qs \in SUBSET Domains, NEW ips \in SUBSET Ips
    PROVE  ChangedSets(qs, ips) \in SUBSET Change
  BY DEF StateType, ChangedSets, MatchingSets, Change, ManagedIpset

\* The operations on the kernel's sets keep the sets and the rules typed.
LEMMA IpsetOpsType ==
    ASSUME IpsetType, NEW k \in SetKeys, UNCHANGED referenced
    PROVE  /\ destroy_set(k) => IpsetType'
           /\ create_set(k) => IpsetType'
           /\ swap_in_empty(k) => IpsetType'
           /\ k \in DOMAIN kset /\ flush_set(k) => IpsetType'
           /\ \A ip \in Ips : k \in DOMAIN kset /\ add_entry(k, ip) => IpsetType'
<1>1. destroy_set(k) => IpsetType'
  BY DEF IpsetType, destroy_set
<1>2. create_set(k) => IpsetType'
  BY DEF IpsetType, create_set
<1>3. k \in DOMAIN kset /\ flush_set(k) => IpsetType'
  BY DEF IpsetType, flush_set
<1>4. ASSUME NEW ip \in Ips, k \in DOMAIN kset, add_entry(k, ip)
      PROVE  IpsetType'
  BY <1>4 DEF IpsetType, add_entry
<1>5. swap_in_empty(k) => IpsetType'
  BY DEF IpsetType, swap_in_empty
<1> QED BY <1>1, <1>2, <1>3, <1>4, <1>5

\* The keys the actions compute are keys of the kernel's sets.
LEMMA KeyTypes ==
    ASSUME TypeOK
    PROVE  /\ \A t \in Tasks : Running(t) => LineSet(t) \in SetKeys
           /\ \A t \in Tasks, ip \in Ips : Running(t) => <<child[t].name, family(ip)>> \in SetKeys
           /\ \A n \in Names : PrepSet(n) \in SetKeys
  BY DEF TypeOK, Running, LineSet, SetKeys, Families, family, PrepSet, Child

\* Initially every variable has its type.
LEMMA InitType == Init => TypeOK
  BY EnforcementAssumption
     DEF Init, TypeOK, StateInit, StateType, IpsetInit, IpsetType, SetKeys, Families,
         NoResponse, Response, TaskPcs, PrepPcs

\* Every step of the DNS tasks and of their child processes keeps the types.
LEMMA TaskStepType ==
    ASSUME TypeOK, NEW t \in Tasks, forward_dns_query(t) \/ TaskStep(t)
    PROVE  TypeOK'
<1> USE EnforcementAssumption
<1>1. CASE forward_dns_query(t)
  BY <1>1, ResponsesAssumption
     DEF forward_dns_query, TypeOK, TaskPcs, StateType, IpsetType
<1>2. CASE inspect_and_update_state(t)
  <2>1. resp[t].queries \in SUBSET Domains /\ resp[t].answers \in SUBSET Ips
    BY DEF TypeOK, Response
  <2>2. StateType'
    BY <1>2, <2>1, StateOpsType DEF inspect_and_update_state, TypeOK
  <2>3. ChangedSets(resp[t].queries, resp[t].answers) \in SUBSET Change
    BY <2>1, ChangedSetsType DEF TypeOK
  <2> QED BY <1>2, <2>2, <2>3 DEF inspect_and_update_state, TypeOK, TaskPcs, IpsetType
<1>3. CASE update_ipset(t)
  <2>1. PICK c \in changed[t] : update_ipset(t)!2!(c)
    BY <1>3 DEF update_ipset
  <2>2. [name |-> c.name, line |-> "flush", todo |-> c.ips] \in Child
    BY DEF TypeOK, Change, Child, Lines
  <2>3. AfterUpdate(t, changed[t] \ {c}) \in TaskPcs \ {"restore", "orphan"}
    BY <1>3 DEF AfterUpdate, TaskPcs, update_ipset
  <2> QED BY <1>3, <2>1, <2>2, <2>3 DEF update_ipset, TypeOK, TaskPcs, IpsetType, StateType
<1>4. CASE send_dns_response(t)
  BY <1>4 DEF send_dns_response, TypeOK, TaskPcs, StateType, IpsetType, NoResponse, Response
<1>5. CASE restore_flush(t)
  <2>1. IpsetType'
    BY <1>5, KeyTypes, IpsetOpsType DEF restore_flush, TypeOK
  <2> QED BY <1>5, <2>1 DEF restore_flush, Running, TypeOK, StateType, Child, Lines
<1>6. CASE restore_add(t)
  <2>1. PICK ip \in child[t].todo : restore_add(t)!3!(ip)
    BY <1>6 DEF restore_add
  <2>2. ip \in Ips
    BY <1>6, <2>1 DEF restore_add, Running, TypeOK, Child
  <2>3. IpsetType'
    BY <1>6, <2>1, <2>2, KeyTypes, IpsetOpsType DEF restore_add, TypeOK
  <2> QED BY <1>6, <2>1, <2>3 DEF restore_add, Running, TypeOK, StateType, Child, Lines
<1>7. CASE restore_exit(t) /\ UNCHANGED kset
  <2>1. AfterUpdate(t, changed[t]) \in TaskPcs \ {"restore", "orphan"}
    BY DEF AfterUpdate, TaskPcs
  <2> QED BY <1>7, <2>1 DEF restore_exit, TypeOK, StateType, IpsetType
<1> QED
  BY <1>1, <1>2, <1>3, <1>4, <1>5, <1>6, <1>7
     DEF TaskStep, restore_done, restore_missing_set, restore_fail

\* Control commands, preparations and restarts keep the types.
LEMMA OtherStepType ==
    ASSUME TypeOK,
           \/ \E n \in Names : ipset_create(n) \/ ipset_remove(n) \/ PrepStep(n)
           \/ crash_restart
    PROVE  TypeOK'
<1> USE EnforcementAssumption
<1>1. CASE crash_restart
  BY <1>1 DEF crash_restart, Running, TypeOK, TaskPcs, StateType, IpsetType, NoResponse, Response
<1>2. ASSUME NEW n \in Names, NEW ps \in Policies, handle_create(n, ps)
      PROVE  StateType' /\ granted' \in [Names -> SUBSET Patterns]
  BY <1>2, StateOpsType DEF handle_create, TypeOK
<1>3. ASSUME NEW n \in Names, ipset_create(n) PROVE TypeOK'
  BY <1>2, <1>3 DEF ipset_create, TypeOK, taskVars, IpsetType
<1>4. ASSUME NEW n \in Names, ipset_remove(n) PROVE TypeOK'
  BY <1>4, StateOpsType DEF ipset_remove, TypeOK, taskVars, IpsetType
<1>5. ASSUME NEW n \in Names, prepare_network(n) \/ prepare_fails(n) PROVE TypeOK'
  BY <1>5 DEF prepare_network, prepare_fails, TypeOK, taskVars, IpsetType, StateType, PrepPcs
<1>6. ASSUME NEW n \in Names, destroy_ipsets(n) PROVE TypeOK'
  <2>1. IpsetType'
    BY <1>6, KeyTypes, IpsetOpsType DEF destroy_ipsets, TypeOK
  <2> QED BY <1>6, <2>1 DEF destroy_ipsets, TypeOK, taskVars, StateType, PrepPcs
<1>7. ASSUME NEW n \in Names, create_ipsets(n) PROVE TypeOK'
  <2>1. IpsetType'
    BY <1>7, KeyTypes, IpsetOpsType DEF create_ipsets, TypeOK
  <2> QED BY <1>7, <2>1 DEF create_ipsets, TypeOK, taskVars, StateType, PrepPcs
<1>8. ASSUME NEW n \in Names, ensure_rules(n) PROVE TypeOK'
  BY <1>8 DEF ensure_rules, TypeOK, taskVars, IpsetType, StateType, PrepPcs, SetKeys, Families
<1>9. ASSUME NEW n \in Names, send_create(n) PROVE TypeOK'
  BY <1>2, <1>9 DEF send_create, TypeOK, taskVars, IpsetType, PrepPcs
<1>10. ASSUME NEW n \in Names, create_ipset_fallback(n) PROVE TypeOK'
  <2>1. IpsetType'
    BY <1>10, KeyTypes, IpsetOpsType DEF create_ipset_fallback, TypeOK
  <2> QED BY <1>10, <2>1 DEF create_ipset_fallback, TypeOK, taskVars, StateType, PrepPcs
<1> QED BY <1>1, <1>3, <1>4, <1>5, <1>6, <1>7, <1>8, <1>9, <1>10 DEF PrepStep

\* A step that changes nothing keeps the types.
LEMMA StutterType == TypeOK /\ UNCHANGED vars => TypeOK'
  BY DEF TypeOK, vars, StateType, IpsetType

\* The tasks, the children, the commands and the kernel's sets always have
\* the shape the code gives them, through every interleaving and crash.
THEOREM TypeCorrect == Spec => []TypeOK
<1>1. Init => TypeOK
  BY InitType
<1>2. TypeOK /\ [Next]_vars => TypeOK'
  BY TaskStepType, OtherStepType, StutterType DEF Next
<1> QED BY <1>1, <1>2, PTL DEF Spec
-----------------------------------------------------------------------------
(* Only authorised addresses *)

\* More patterns reach more addresses.
LEMMA ReachableMonotone ==
    ASSUME NEW P, NEW Q, P \subseteq Q
    PROVE  Reachable(P) \subseteq Reachable(Q)
  BY DEF Reachable, accepts

\* The addresses of a response to an accepted domain are reachable.
LEMMA AnswersReachable ==
    ASSUME NEW P, NEW r \in Responses, NEW d \in r.queries, accepts(P, d)
    PROVE  r.answers \subseteq Reachable(P)
  BY ResponsesAssumption DEF Reachable, Response

\* A network that apply_resolved_ips selects may be given the answers.
LEMMA MatchingReachable ==
    ASSUME IInv, NEW t \in Tasks, NEW n \in MatchingSets(resp[t].queries)
    PROVE  resp[t].answers \subseteq Reachable(granted[n])
<1>1. PICK d \in resp[t].queries : accepts(state[n].allowed_domain_patterns, d)
  BY DEF MatchingSets
<1>2. accepts(granted[n], d)
  BY <1>1 DEF MatchingSets, IInv, TableAuthorised, accepts
<1>3. resp[t] \in Responses
  BY <1>1 DEF IInv, ResponsesGenuine, NoResponse
<1> QED BY <1>1, <1>2, <1>3, AnswersReachable

\* Granting more keeps everything authorised that was.
LEMMA GrantKeepsReachable ==
    ASSUME TypeOK, NEW n \in Names, NEW ps, handle_create(n, ps)
    PROVE  \A m \in Names : Reachable(granted[m]) \subseteq Reachable(granted'[m])
<1> SUFFICES ASSUME NEW m \in Names PROVE Reachable(granted[m]) \subseteq Reachable(granted'[m])
  OBVIOUS
<1>1. granted[m] \subseteq granted'[m]
  BY DEF handle_create, TypeOK
<1> QED BY <1>1, ReachableMonotone

\* The table after a step of the lock-holding part of a task.
LEMMA InspectKeepsAuthorised ==
    ASSUME IInv, NEW t \in Tasks, inspect_and_update_state(t)
    PROVE  TableAuthorised' /\ SnapshotsAuthorised'
<1> DEFINE qs == resp[t].queries
           ips == resp[t].answers
<1>1. granted' = granted
  BY DEF inspect_and_update_state
<1>2. TableAuthorised'
  <2> SUFFICES ASSUME NEW n \in DOMAIN state
               PROVE  /\ state'[n].allowed_domain_patterns \subseteq granted[n]
                      /\ state'[n].ips \subseteq Reachable(granted[n])
    BY <1>1 DEF TableAuthorised, inspect_and_update_state, apply_resolved_ips
  <2>0. /\ state[n].allowed_domain_patterns \subseteq granted[n]
        /\ state[n].ips \subseteq Reachable(granted[n])
        /\ state[n] \in ManagedIpset
    BY DEF IInv, TableAuthorised, TypeOK, StateType
  <2>1. CASE n \in MatchingSets(qs)
    <3>1. state'[n].allowed_domain_patterns = state[n].allowed_domain_patterns
          /\ state'[n].ips = state[n].ips \cup ips
      BY <2>0, <2>1 DEF inspect_and_update_state, apply_resolved_ips, ManagedIpset
    <3> QED BY <2>0, <2>1, <3>1, MatchingReachable
  <2>2. CASE n \notin MatchingSets(qs)
    BY <2>0, <2>2 DEF inspect_and_update_state, apply_resolved_ips
  <2> QED BY <2>1, <2>2
<1>3. SnapshotsAuthorised'
  <2> SUFFICES ASSUME NEW u \in Tasks, NEW ch \in changed'[u]
               PROVE  ch.ips \subseteq Reachable(granted[ch.name])
    BY <1>1 DEF SnapshotsAuthorised
  <2>1. CASE u # t
    BY <2>1 DEF inspect_and_update_state, IInv, TypeOK, SnapshotsAuthorised
  <2>2. CASE u = t
    <3>1. ch \in ChangedSets(qs, ips)
      BY <2>2 DEF inspect_and_update_state, IInv, TypeOK
    <3>2. PICK n \in MatchingSets(qs) : ch = [name |-> n, ips |-> state[n].ips \cup ips]
      BY <3>1 DEF ChangedSets
    <3>3. state[n].ips \subseteq Reachable(granted[n])
      BY DEF MatchingSets, IInv, TableAuthorised
    <3> QED BY <3>2, <3>3, MatchingReachable
  <2> QED BY <2>1, <2>2
<1> QED BY <1>2, <1>3

\* A CREATE keeps everything authorised: what was stays so under more
\* patterns, and the new entry starts without addresses.
LEMMA CreateKeepsAuthorised ==
    ASSUME IInv, NEW n \in Names, NEW ps \in SUBSET Patterns, handle_create(n, ps),
           UNCHANGED <<kset, taskVars>>
    PROVE  /\ TableAuthorised'
           /\ SnapshotsAuthorised'
           /\ PayloadsAuthorised'
           /\ SetsAuthorised'
<1>1. \A m \in Names : Reachable(granted[m]) \subseteq Reachable(granted'[m])
  BY GrantKeepsReachable DEF IInv
<1>2. \A m \in Names : granted[m] \subseteq granted'[m]
  BY DEF handle_create, IInv, TypeOK
<1>3. ps \subseteq granted'[n]
  BY DEF handle_create, IInv, TypeOK
<1>4. TableAuthorised'
  BY <1>1, <1>2, <1>3
     DEF TableAuthorised, handle_create, insert_managed, IInv, TypeOK, StateType
<1>5. SnapshotsAuthorised'
  BY <1>1 DEF SnapshotsAuthorised, taskVars, IInv, TypeOK, Change
<1>6. PayloadsAuthorised'
  BY <1>1 DEF PayloadsAuthorised, taskVars, IInv, TypeOK, Child
<1>7. SetsAuthorised'
  BY <1>1 DEF SetsAuthorised, IInv, TypeOK, IpsetType, SetKeys
<1> QED BY <1>4, <1>5, <1>6, <1>7

\* One step of a task or of its child keeps everything authorised.
LEMMA TaskStepInv ==
    ASSUME IInv, NEW t \in Tasks, forward_dns_query(t) \/ TaskStep(t)
    PROVE  IInv'
<1> USE DEF IInv
<1>0. TypeOK'
  BY TaskStepType
<1>1. CASE forward_dns_query(t)
  BY <1>0, <1>1 DEF forward_dns_query, TableAuthorised, SnapshotsAuthorised,
     PayloadsAuthorised, SetsAuthorised, ResponsesGenuine, TypeOK
<1>2. CASE inspect_and_update_state(t)
  BY <1>0, <1>2, InspectKeepsAuthorised
     DEF inspect_and_update_state, PayloadsAuthorised, SetsAuthorised, ResponsesGenuine
<1>3. CASE update_ipset(t)
  <2>1. PICK c \in changed[t] : update_ipset(t)!2!(c)
    BY <1>3 DEF update_ipset
  <2>2. c.ips \subseteq Reachable(granted[c.name])
    BY DEF SnapshotsAuthorised
  <2>3. SnapshotsAuthorised'
    BY <1>3, <2>1 DEF update_ipset, SnapshotsAuthorised, TypeOK
  <2>4. PayloadsAuthorised'
    BY <1>3, <2>1, <2>2 DEF update_ipset, PayloadsAuthorised, TypeOK
  <2> QED BY <1>0, <1>3, <2>3, <2>4
          DEF update_ipset, TableAuthorised, SetsAuthorised, ResponsesGenuine
<1>4. CASE send_dns_response(t)
  BY <1>0, <1>4 DEF send_dns_response, TableAuthorised, SnapshotsAuthorised,
     PayloadsAuthorised, SetsAuthorised, ResponsesGenuine, TypeOK
<1>5. CASE restore_flush(t)
  <2>1. SetsAuthorised'
    BY <1>5 DEF restore_flush, flush_set, SetsAuthorised, TypeOK, IpsetType
  <2>2. PayloadsAuthorised'
    BY <1>5, EnforcementAssumption DEF restore_flush, Running, PayloadsAuthorised, TypeOK, Child
  <2> QED BY <1>0, <1>5, <2>1, <2>2
          DEF restore_flush, TableAuthorised, SnapshotsAuthorised, ResponsesGenuine
<1>6. CASE restore_add(t)
  <2>1. PICK ip \in child[t].todo : restore_add(t)!3!(ip)
    BY <1>6 DEF restore_add
  <2>2. ip \in Reachable(granted[child[t].name])
    BY <1>6, <2>1 DEF restore_add, Running, PayloadsAuthorised
  <2>3. SetsAuthorised'
    BY <1>6, <2>1, <2>2 DEF restore_add, add_entry, SetsAuthorised, TypeOK, IpsetType
  <2>4. PayloadsAuthorised'
    BY <1>6, <2>1, EnforcementAssumption
       DEF restore_add, Running, PayloadsAuthorised, TypeOK, Child
  <2> QED BY <1>0, <1>6, <2>3, <2>4
          DEF restore_add, TableAuthorised, SnapshotsAuthorised, ResponsesGenuine
<1>7. CASE restore_exit(t) /\ UNCHANGED kset
  BY <1>0, <1>7 DEF restore_exit, TableAuthorised, SnapshotsAuthorised,
     PayloadsAuthorised, SetsAuthorised, ResponsesGenuine, TypeOK
<1> QED
  BY <1>1, <1>2, <1>3, <1>4, <1>5, <1>6, <1>7
     DEF TaskStep, restore_done, restore_missing_set, restore_fail

\* Commands, preparations and restarts keep everything authorised.
LEMMA OtherStepInv ==
    ASSUME IInv,
           \/ \E n \in Names : ipset_create(n) \/ ipset_remove(n) \/ PrepStep(n)
           \/ crash_restart
    PROVE  IInv'
<1> USE DEF IInv
<1>0. TypeOK'
  BY OtherStepType
<1>1. CASE crash_restart
  BY <1>0, <1>1 DEF crash_restart, TableAuthorised, SnapshotsAuthorised,
     PayloadsAuthorised, SetsAuthorised, ResponsesGenuine
<1>2. ASSUME NEW n \in Names, ipset_create(n) \/ send_create(n) PROVE IInv'
  <2>1. PICK ps \in Policies : handle_create(n, ps)
    BY <1>2 DEF ipset_create, send_create
  <2>2. UNCHANGED <<kset, taskVars>>
    BY <1>2 DEF ipset_create, send_create
  <2>3. ResponsesGenuine'
    BY <2>2 DEF ResponsesGenuine, taskVars
  <2> QED BY <1>0, <2>1, <2>2, <2>3, EnforcementAssumption, CreateKeepsAuthorised
<1>3. ASSUME NEW n \in Names, ipset_remove(n) PROVE IInv'
  BY <1>0, <1>3 DEF ipset_remove, remove_managed, taskVars, TableAuthorised,
     SnapshotsAuthorised, PayloadsAuthorised, SetsAuthorised, ResponsesGenuine
<1>4. ASSUME NEW n \in Names, prepare_network(n) \/ prepare_fails(n) \/ ensure_rules(n)
      PROVE  IInv'
  BY <1>0, <1>4 DEF prepare_network, prepare_fails, ensure_rules, taskVars, TableAuthorised,
     SnapshotsAuthorised, PayloadsAuthorised, SetsAuthorised, ResponsesGenuine
<1>5. ASSUME NEW n \in Names, destroy_ipsets(n) PROVE IInv'
  <2>1. SetsAuthorised'
    BY <1>5 DEF destroy_ipsets, destroy_set, SetsAuthorised
  <2> QED BY <1>0, <1>5, <2>1 DEF destroy_ipsets, taskVars, TableAuthorised,
             SnapshotsAuthorised, PayloadsAuthorised, ResponsesGenuine
<1>6. ASSUME NEW n \in Names, create_ipsets(n) PROVE IInv'
  <2>1. SetsAuthorised'
    BY <1>6 DEF create_ipsets, create_set, SetsAuthorised
  <2> QED BY <1>0, <1>6, <2>1 DEF create_ipsets, taskVars, TableAuthorised,
             SnapshotsAuthorised, PayloadsAuthorised, ResponsesGenuine
<1>7. ASSUME NEW n \in Names, create_ipset_fallback(n) PROVE IInv'
  <2>1. SetsAuthorised'
    BY <1>7 DEF create_ipset_fallback, swap_in_empty, SetsAuthorised
  <2> QED BY <1>0, <1>7, <2>1 DEF create_ipset_fallback, taskVars, TableAuthorised,
             SnapshotsAuthorised, PayloadsAuthorised, ResponsesGenuine
<1> QED BY <1>1, <1>2, <1>3, <1>4, <1>5, <1>6, <1>7 DEF PrepStep

\* A step that changes nothing keeps the invariant.
LEMMA StutterInv == IInv /\ UNCHANGED vars => IInv'
  BY StutterType DEF IInv, vars, TableAuthorised, SnapshotsAuthorised, PayloadsAuthorised,
     SetsAuthorised, ResponsesGenuine

\* The strengthened invariant holds of every behaviour of the daemon.
THEOREM Invariance == Spec => []IInv
<1>1. Init => IInv
  <2> SUFFICES ASSUME Init PROVE IInv
    OBVIOUS
  <2>1. TypeOK
    BY InitType
  <2> QED BY <2>1 DEF Init, StateInit, IpsetInit, IInv, TableAuthorised, SnapshotsAuthorised,
             PayloadsAuthorised, SetsAuthorised, ResponsesGenuine
<1>2. IInv /\ [Next]_vars => IInv'
  BY TaskStepInv, OtherStepInv, StutterInv DEF Next
<1> QED BY <1>1, <1>2, PTL DEF Spec

\* Membership in a network's pair of sets.
LEMMA KernelIpsMember ==
    ASSUME NEW n, NEW ip
    PROVE  ip \in KernelIps(n) <=>
             \E f \in Families : <<n, f>> \in DOMAIN kset /\ ip \in kset[<<n, f>>]
  BY DEF KernelIps

\* An address is in a network's kernel sets only if a response to a domain
\* the network was granted carries it, for every number of concurrent tasks,
\* networks and responses, through crashes and failing updates.
THEOREM AuthorisedOnly == Spec => []OnlyAuthorisedAddresses
<1>1. IInv => OnlyAuthorisedAddresses
  <2> SUFFICES ASSUME IInv, NEW n \in Names, NEW ip \in KernelIps(n)
               PROVE  ip \in Reachable(granted[n])
    BY DEF OnlyAuthorisedAddresses
  <2>1. PICK f \in Families : <<n, f>> \in DOMAIN kset /\ ip \in kset[<<n, f>>]
    BY KernelIpsMember
  <2> QED BY <2>1 DEF IInv, SetsAuthorised
<1> QED BY <1>1, Invariance, PTL
-----------------------------------------------------------------------------
(* The refinement of DefaultDeny *)

\* A step that touches neither the sets nor the grants is invisible.
LEMMA InvisibleStep ==
    ASSUME UNCHANGED <<kset, granted>>
    PROVE  UNCHANGED Deny!vars
  BY DEF Deny!vars, KernelIps

\* Emptying or destroying one set closes addresses of its network.
LEMMA ShrinkingCloses ==
    ASSUME TypeOK, NEW n \in Names, UNCHANGED granted,
           \A m \in Names : KernelIps(m)' \subseteq KernelIps(m),
           \A m \in Names : m # n => KernelIps(m)' = KernelIps(m)
    PROVE  Deny!Next
<1> DEFINE gone == KernelIps(n) \ KernelIps(n)'
<1>1. gone \in SUBSET Ips
  BY DEF TypeOK, IpsetType, KernelIps
<1>2. Deny!Close(n, gone)
  BY DEF Deny!Close
<1> QED BY <1>1, <1>2 DEF Deny!Next

\* Destroying a set takes addresses from its own network only.
LEMMA DestroyShrinks ==
    ASSUME TypeOK, NEW n \in Names, NEW f \in Families, destroy_set(<<n, f>>)
    PROVE  /\ \A m \in Names : KernelIps(m)' \subseteq KernelIps(m)
           /\ \A m \in Names : m # n => KernelIps(m)' = KernelIps(m)
<1>1. \A k \in DOMAIN kset' : k \in DOMAIN kset /\ kset'[k] = kset[k]
  BY DEF destroy_set
<1>2. \A k \in DOMAIN kset : k[1] # n => k \in DOMAIN kset'
  BY DEF destroy_set
<1> QED BY <1>1, <1>2 DEF KernelIps

\* Flushing a set takes addresses from its own network only.
LEMMA FlushShrinks ==
    ASSUME TypeOK, NEW n \in Names, NEW f \in Families,
           <<n, f>> \in DOMAIN kset, flush_set(<<n, f>>)
    PROVE  /\ \A m \in Names : KernelIps(m)' \subseteq KernelIps(m)
           /\ \A m \in Names : m # n => KernelIps(m)' = KernelIps(m)
<1>1. DOMAIN kset' = DOMAIN kset
  BY DEF flush_set
<1>2. \A k \in DOMAIN kset : kset'[k] \subseteq kset[k]
  BY DEF flush_set, TypeOK, IpsetType
<1>3. \A k \in DOMAIN kset : k[1] # n => kset'[k] = kset[k]
  BY DEF flush_set, TypeOK, IpsetType
<1> QED BY <1>1, <1>2, <1>3 DEF KernelIps

\* Swapping in an empty set takes addresses from its own network only.
LEMMA SwapShrinks ==
    ASSUME TypeOK, NEW n \in Names, NEW f \in Families, swap_in_empty(<<n, f>>)
    PROVE  /\ \A m \in Names : KernelIps(m)' \subseteq KernelIps(m)
           /\ \A m \in Names : m # n => KernelIps(m)' = KernelIps(m)
<1>1. \A k : k # <<n, f>> => (k \in DOMAIN kset' <=> k \in DOMAIN kset)
  BY DEF swap_in_empty
<1>2. \A k \in DOMAIN kset' : kset'[k] = IF k = <<n, f>> THEN {} ELSE kset[k]
  BY DEF swap_in_empty
<1> QED BY <1>1, <1>2 DEF KernelIps

\* A set that is created is empty, and one that exists is left alone.
LEMMA CreateInvisible ==
    ASSUME NEW k, create_set(k)
    PROVE  \A m : KernelIps(m)' = KernelIps(m)
  BY DEF create_set, KernelIps

\* Adding an entry opens one address for one network.
LEMMA AddOpens ==
    ASSUME TypeOK, NEW n \in Names, NEW ip \in Reachable(granted[n]),
           <<n, family(ip)>> \in DOMAIN kset, add_entry(<<n, family(ip)>>, ip),
           UNCHANGED granted
    PROVE  Deny!Next
<1>1. DOMAIN kset' = DOMAIN kset
  BY DEF add_entry
<1>2. \A k \in DOMAIN kset : kset'[k] = IF k = <<n, family(ip)>> THEN kset[k] \cup {ip} ELSE kset[k]
  BY DEF add_entry, TypeOK, IpsetType
<1>3. family(ip) \in Families
  BY DEF family, Families
<1>4. KernelIps(n)' = KernelIps(n) \cup {ip}
  BY <1>1, <1>2, <1>3 DEF KernelIps
<1>5. \A m \in Names : m # n => KernelIps(m)' = KernelIps(m)
  BY <1>1, <1>2 DEF KernelIps
<1>6. ip \in Deny!Reachable(granted[n])
  BY DEF Deny!Reachable, Reachable, Deny!accepts, accepts
<1>7. Deny!Open(n, ip)
  BY <1>4, <1>5, <1>6 DEF Deny!Open
<1>8. ip \in Ips
  BY DEF Reachable
<1> QED BY <1>7, <1>8 DEF Deny!Next

\* Every step of the daemon, its children, the commands and the crashes is a
\* step of the abstract firewall, or leaves it as it is.
LEMMA StepSimulation ==
    ASSUME IInv, [Next]_vars
    PROVE  [Deny!Next]_(Deny!vars)
<1> USE DEF IInv
<1>1. CASE UNCHANGED vars
  BY <1>1, InvisibleStep DEF vars
<1>2. ASSUME NEW t \in Tasks, restore_flush(t) PROVE Deny!Next
  <2>1. child[t].name \in Names
    BY <1>2 DEF restore_flush, Running, TypeOK, Child
  <2>2. PICK f \in Families : LineSet(t) = <<child[t].name, f>>
    BY DEF LineSet, Families
  <2> QED BY <1>2, <2>1, <2>2, FlushShrinks, ShrinkingCloses DEF restore_flush
<1>3. ASSUME NEW t \in Tasks, restore_add(t) PROVE Deny!Next
  <2>1. PICK ip \in child[t].todo : restore_add(t)!3!(ip)
    BY <1>3 DEF restore_add
  <2>2. child[t].name \in Names /\ ip \in Reachable(granted[child[t].name])
    BY <1>3, <2>1 DEF restore_add, Running, TypeOK, Child, PayloadsAuthorised
  <2> QED BY <1>3, <2>1, <2>2, AddOpens DEF restore_add
<1>4. ASSUME NEW n \in Names, destroy_ipsets(n) PROVE Deny!Next
  <2>1. PICK f \in Families : PrepSet(n) = <<n, f>>
    BY DEF PrepSet, Families
  <2> QED BY <1>4, <2>1, DestroyShrinks, ShrinkingCloses DEF destroy_ipsets
<1>5. ASSUME NEW n \in Names, create_ipsets(n) PROVE UNCHANGED Deny!vars
  BY <1>5, CreateInvisible DEF create_ipsets, Deny!vars
<1>6. ASSUME NEW n \in Names, ipset_create(n) \/ send_create(n) PROVE Deny!Next
  <2>1. PICK ps \in Policies : handle_create(n, ps)
    BY <1>6 DEF ipset_create, send_create
  <2>2. UNCHANGED kset
    BY <1>6 DEF ipset_create, send_create
  <2>3. Deny!Grant(n, ps)
    BY <2>1, <2>2 DEF Deny!Grant, handle_create, KernelIps
  <2> QED BY <2>3, EnforcementAssumption DEF Deny!Next
<1>7. ASSUME NEW t \in Tasks,
             \/ forward_dns_query(t)
             \/ inspect_and_update_state(t)
             \/ update_ipset(t)
             \/ send_dns_response(t)
             \/ restore_exit(t) /\ UNCHANGED kset
      PROVE  UNCHANGED Deny!vars
  BY <1>7, InvisibleStep DEF forward_dns_query, inspect_and_update_state, update_ipset,
     send_dns_response, restore_exit
<1>8. ASSUME NEW n \in Names,
             ipset_remove(n) \/ prepare_network(n) \/ ensure_rules(n) \/ prepare_fails(n)
      PROVE  UNCHANGED Deny!vars
  BY <1>8, InvisibleStep DEF ipset_remove, prepare_network, ensure_rules, prepare_fails
<1>9. CASE crash_restart
  BY <1>9, InvisibleStep DEF crash_restart
<1>10. ASSUME NEW n \in Names, create_ipset_fallback(n) PROVE Deny!Next
  <2>1. PICK f \in Families : PrepSet(n) = <<n, f>>
    BY DEF PrepSet, Families
  <2> QED BY <1>10, <2>1, SwapShrinks, ShrinkingCloses DEF create_ipset_fallback
<1> QED
  BY <1>1, <1>2, <1>3, <1>4, <1>5, <1>6, <1>7, <1>8, <1>9, <1>10
     DEF Next, TaskStep, PrepStep, restore_done, restore_missing_set, restore_fail

\* The daemon with its children, the commands and the crashes implements the
\* abstract default-deny firewall, for every value of the constants.
THEOREM Refinement == Spec => ImplementsDefaultDeny
<1>1. Init => Deny!Init
  BY DEF Init, IpsetInit, KernelIps, Deny!Init
<1>2. IInv /\ [Next]_vars => [Deny!Next]_(Deny!vars)
  BY StepSimulation
<1> QED BY <1>1, <1>2, Invariance, PTL DEF Spec, ImplementsDefaultDeny, Deny!Spec
-----------------------------------------------------------------------------
(* No address of the table is missing *)

\* What the kernel holds for a network depends on its own two sets alone.
LEMMA OwnSetsOnly ==
    ASSUME TypeOK, NEW n, NEW k \in SetKeys, k[1] # n,
           flush_set(k) \/ destroy_set(k) \/ create_set(k) \/ \E ip : add_entry(k, ip)
    PROVE  KernelIps(n)' = KernelIps(n) /\ (Prepared(n)' <=> Prepared(n))
<1>1. \A f \in Families : <<n, f>> # k
  BY DEF SetKeys
<1>2. \A f \in Families : <<n, f>> \in DOMAIN kset' <=> <<n, f>> \in DOMAIN kset
  BY <1>1 DEF flush_set, destroy_set, create_set, add_entry, TypeOK, IpsetType
<1>3. \A f \in Families : <<n, f>> \in DOMAIN kset => kset'[<<n, f>>] = kset[<<n, f>>]
  BY <1>1 DEF flush_set, destroy_set, create_set, add_entry, TypeOK, IpsetType
<1>4. \A x : x \in KernelIps(n)' <=> x \in KernelIps(n)
  BY <1>2, <1>3 DEF KernelIps
<1> QED BY <1>2, <1>4 DEF Prepared

\* Adding an entry to a set of a network takes nothing away.
LEMMA AddedEntry ==
    ASSUME TypeOK, NEW n, NEW f \in Families, NEW ip, <<n, f>> \in DOMAIN kset,
           add_entry(<<n, f>>, ip)
    PROVE  KernelIps(n) \cup {ip} \subseteq KernelIps(n)' /\ (Prepared(n)' <=> Prepared(n))
<1>1. DOMAIN kset' = DOMAIN kset
  BY DEF add_entry, TypeOK, IpsetType
<1>2. \A k \in DOMAIN kset : kset[k] \subseteq kset'[k]
  BY DEF add_entry, TypeOK, IpsetType
<1>3. ip \in kset'[<<n, f>>]
  BY DEF add_entry, TypeOK, IpsetType
<1> QED BY <1>1, <1>2, <1>3 DEF KernelIps, Prepared

\* The table of a network is empty after CREATE and REMOVE and that of others
\* is as it was.
LEMMA TableReplaced ==
    ASSUME NEW n \in Names, remove_managed(n) \/ \E ps : insert_managed(n, ps)
    PROVE  StateIps(n)' = {} /\ \A m \in Names : m # n => StateIps(m)' = StateIps(m)
  BY DEF remove_managed, insert_managed, StateIps

\* A snapshot has all that the table lists of a network that grew, and the
\* table of any other network does not change.
LEMMA SnapshotTaken ==
    ASSUME TypeOK, NEW t \in Tasks, inspect_and_update_state(t), NEW n \in Names
    PROVE  /\ \A c \in changed'[t] : c.name = n => StateIps(n)' \subseteq c.ips
           /\ (\A c \in changed'[t] : c.name # n) => StateIps(n)' = StateIps(n)
<1> DEFINE qs == resp[t].queries
           ips == resp[t].answers
<1>1. changed'[t] = ChangedSets(qs, ips)
  BY DEF inspect_and_update_state, TypeOK
<1>2. apply_resolved_ips(qs, ips)
  BY DEF inspect_and_update_state
<1>3. CASE n \notin DOMAIN state
  <2>1. StateIps(n)' = {} /\ StateIps(n) = {}
    BY <1>2, <1>3 DEF apply_resolved_ips, StateIps
  <2> QED BY <2>1
<1>4. CASE n \in DOMAIN state /\ n \notin MatchingSets(qs)
  <2>1. StateIps(n)' = StateIps(n)
    BY <1>2, <1>4 DEF apply_resolved_ips, StateIps
  <2>2. \A c \in changed'[t] : c.name # n
    BY <1>1, <1>4 DEF ChangedSets
  <2> QED BY <2>1, <2>2
<1>5. CASE n \in DOMAIN state /\ n \in MatchingSets(qs)
  <2>1. state[n] \in ManagedIpset
    BY <1>5 DEF TypeOK, StateType
  <2>2. StateIps(n)' = state[n].ips \cup ips /\ StateIps(n) = state[n].ips
    BY <1>2, <1>5, <2>1 DEF apply_resolved_ips, StateIps, ManagedIpset
  <2>3. \A c \in changed'[t] : c.name = n => c.ips = state[n].ips \cup ips
    BY <1>1 DEF ChangedSets
  <2>4. CASE ips \subseteq state[n].ips
    BY <2>2, <2>3, <2>4
  <2>5. CASE ~(ips \subseteq state[n].ips)
    <3>1. [name |-> n, ips |-> state[n].ips \cup ips] \in changed'[t]
      BY <1>1, <1>5, <2>5 DEF ChangedSets
    <3> QED BY <2>2, <2>3, <3>1
  <2> QED BY <2>4, <2>5
<1> QED BY <1>3, <1>4, <1>5

\* A task, alone and without faults, loses no address on the way.
LEMMA TaskStepPush ==
    ASSUME TypeOK, PushInv, Serial, NEW t \in Tasks, forward_dns_query(t) \/ TaskStep(t)
    PROVE  PushInv'
<1> USE DEF Phased, Pending, Pushing, Running
<1>0. /\ \A u \in Tasks : u = t
      /\ Phased(t)
      /\ pc[t] \in TaskPcs /\ changed[t] \in SUBSET Change /\ child[t] \in Child \cup {NoChild}
  BY DEF Serial, PushInv, TypeOK
<1>1. prep' = prep
  BY DEF forward_dns_query, TaskStep, inspect_and_update_state, update_ipset, send_dns_response,
     restore_flush, restore_add, restore_done, restore_missing_set, restore_fail, restore_exit
<1>2. SUFFICES Phased(t)' /\ \A n \in Names : Prepared(n)' /\ prep[n] = "idle" => Covered(n)'
  BY <1>0, <1>1 DEF PushInv
<1>3. CASE forward_dns_query(t) \/ send_dns_response(t)
  <2>1. UNCHANGED <<state, kset, changed, child>>
    BY <1>3 DEF forward_dns_query, send_dns_response
  <2>2. Phased(t)'
    BY <1>0, <1>3, <2>1 DEF forward_dns_query, send_dns_response, TypeOK
  <2>3. ASSUME NEW n \in Names, Prepared(n)', prep[n] = "idle" PROVE Covered(n)'
    BY <2>1, <2>3 DEF Covered, PushInv, Prepared, StateIps, KernelIps
  <2> QED BY <1>2, <2>2, <2>3
<1>4. CASE inspect_and_update_state(t)
  <2>1. UNCHANGED <<kset, child>> /\ changed[t] = {} /\ child[t] = NoChild
    BY <1>0, <1>4 DEF inspect_and_update_state
  <2>2. Phased(t)'
    BY <1>0, <1>4, <2>1 DEF inspect_and_update_state, TypeOK
  <2>3. ASSUME NEW n \in Names, Prepared(n)', prep[n] = "idle" PROVE Covered(n)'
    <3>1. Prepared(n) /\ KernelIps(n)' = KernelIps(n)
      BY <2>1, <2>3 DEF Prepared, KernelIps
    <3>2. StateIps(n) \subseteq KernelIps(n)
      BY <1>0, <2>1, <2>3, <3>1 DEF PushInv, Covered
    <3>3. /\ \A c \in changed'[t] : c.name = n => StateIps(n)' \subseteq c.ips
          /\ (\A c \in changed'[t] : c.name # n) => StateIps(n)' = StateIps(n)
      BY <1>4, SnapshotTaken
    <3> QED BY <1>0, <2>1, <3>1, <3>2, <3>3 DEF Covered
  <2> QED BY <1>2, <2>2, <2>3
<1>5. CASE update_ipset(t)
  <2>1. PICK c \in changed[t] :
          /\ changed' = [changed EXCEPT ![t] = @ \ {c}]
          /\ child' = [child EXCEPT ![t] = [name |-> c.name, line |-> "flush", todo |-> c.ips]]
          /\ pc' = [pc EXCEPT ![t] = "restore"]
    BY <1>5 DEF update_ipset, Serial
  <2>2. UNCHANGED <<state, kset>> /\ pc[t] = "update" /\ child[t] = NoChild
    BY <1>0, <1>5 DEF update_ipset
  <2>3. /\ changed'[t] = changed[t] \ {c}
        /\ child'[t] = [name |-> c.name, line |-> "flush", todo |-> c.ips]
        /\ pc'[t] = "restore"
    BY <2>1 DEF TypeOK
  <2>4. child'[t] \in Child
    BY <1>0, <2>3 DEF Change, Child, Lines
  <2>5. Phased(t)'
    BY <2>3, <2>4, EnforcementAssumption
  <2>6. ASSUME NEW n \in Names, Prepared(n)', prep[n] = "idle" PROVE Covered(n)'
    <3>1. Prepared(n) /\ KernelIps(n)' = KernelIps(n) /\ StateIps(n)' = StateIps(n)
      BY <2>2, <2>6 DEF Prepared, KernelIps, StateIps
    <3>2. Covered(n)
      BY <2>6, <3>1 DEF PushInv
    <3>3. c.name = n => StateIps(n)' \subseteq c.ips
      BY <3>1, <3>2 DEF Covered
    <3>4. \A d \in changed'[t] : d.name = n => StateIps(n)' \subseteq d.ips
      BY <2>3, <3>1, <3>2 DEF Covered
    <3>5. Pushing(t, n)' => StateIps(n)' \subseteq child'[t].todo
      BY <2>3, <3>3
    <3>6. c.name # n /\ ~Pending(t, n)' => ~Pending(t, n) /\ ~Pushing(t, n)
      BY <2>2, <2>3
    <3>7. ~Pending(t, n)' /\ ~Pushing(t, n)' => StateIps(n)' \subseteq KernelIps(n)'
      BY <1>0, <2>3, <2>4, <3>1, <3>2, <3>6, EnforcementAssumption DEF Covered
    <3> QED BY <1>0, <3>4, <3>5, <3>7 DEF Covered
  <2> QED BY <1>2, <2>5, <2>6
<1>6. CASE restore_flush(t)
  <2>1. /\ child[t] \in Child /\ LineSet(t) \in SetKeys /\ LineSet(t)[1] = child[t].name
        /\ flush_set(LineSet(t)) /\ LineSet(t) \in DOMAIN kset
        /\ UNCHANGED <<state, pc, changed>> /\ child[t].line # "add"
    BY <1>0, <1>6, KeyTypes DEF restore_flush, LineSet
  <2>2. /\ child'[t] \in Child
        /\ child'[t].name = child[t].name /\ child'[t].todo = child[t].todo
    BY <1>6, <2>1 DEF restore_flush, TypeOK, Child, Lines
  <2>3. Phased(t)'
    BY <1>0, <2>1, <2>2, EnforcementAssumption
  <2>4. ASSUME NEW n \in Names, Prepared(n)', prep[n] = "idle" PROVE Covered(n)'
    <3>1. StateIps(n)' = StateIps(n)
      BY <2>1 DEF StateIps
    <3>2. Prepared(n)
      BY <2>1, <2>4 DEF Prepared, flush_set, TypeOK, IpsetType
    <3>3. Covered(n)
      BY <2>4, <3>2 DEF PushInv
    <3>4. CASE child[t].name = n
      <4>1. StateIps(n) \subseteq child[t].todo
        BY <1>0, <2>1, <3>3, <3>4, EnforcementAssumption DEF Covered
      <4> QED BY <1>0, <2>1, <2>2, <3>1, <3>3, <3>4, <4>1, EnforcementAssumption DEF Covered
    <3>5. CASE child[t].name # n
      <4>1. KernelIps(n)' = KernelIps(n)
        BY <2>1, <3>5, OwnSetsOnly
      <4> QED BY <1>0, <2>1, <2>2, <3>1, <3>3, <3>5, <4>1 DEF Covered
    <3> QED BY <3>4, <3>5
  <2> QED BY <1>2, <2>3, <2>4
<1>7. CASE restore_add(t)
  <2>1. PICK ip \in child[t].todo : restore_add(t)!3!(ip)
    BY <1>7 DEF restore_add
  <2>2. /\ child[t] \in Child /\ child[t].line = "add"
        /\ UNCHANGED <<state, pc, changed>>
        /\ family(ip) \in Families /\ <<child[t].name, family(ip)>> \in SetKeys
        /\ <<child[t].name, family(ip)>>[1] = child[t].name
    BY <1>0, <1>7 DEF restore_add, family, Families, SetKeys, Child
  <2>3. /\ child'[t] \in Child /\ child'[t].line = "add"
        /\ child'[t].name = child[t].name /\ child'[t].todo = child[t].todo \ {ip}
    BY <2>1, <2>2 DEF TypeOK, Child
  <2>4. Phased(t)'
    BY <1>0, <2>2, <2>3, EnforcementAssumption
  <2>5. ASSUME NEW n \in Names, Prepared(n)', prep[n] = "idle" PROVE Covered(n)'
    <3>1. StateIps(n)' = StateIps(n)
      BY <2>2 DEF StateIps
    <3>2. CASE child[t].name = n
      <4>1. KernelIps(n) \cup {ip} \subseteq KernelIps(n)' /\ Prepared(n)
        BY <2>1, <2>2, <2>5, <3>2, AddedEntry
      <4>2. Covered(n)
        BY <2>5, <4>1 DEF PushInv
      <4>3. StateIps(n) \subseteq child[t].todo \cup KernelIps(n)
        BY <1>0, <2>2, <3>2, <4>2, EnforcementAssumption DEF Covered
      <4>4. StateIps(n) \subseteq child'[t].todo \cup KernelIps(n)'
        BY <2>3, <4>1, <4>3
      <4> QED BY <1>0, <2>2, <2>3, <3>1, <3>2, <4>2, <4>4, EnforcementAssumption DEF Covered
    <3>3. CASE child[t].name # n
      <4>1. KernelIps(n)' = KernelIps(n) /\ Prepared(n)
        BY <2>1, <2>2, <2>5, <3>3, OwnSetsOnly
      <4>2. Covered(n)
        BY <2>5, <4>1 DEF PushInv
      <4> QED BY <1>0, <2>2, <2>3, <3>1, <3>3, <4>1, <4>2 DEF Covered
    <3> QED BY <3>2, <3>3
  <2> QED BY <1>2, <2>4, <2>5
<1>8. CASE restore_done(t) \/ restore_missing_set(t)
  <2>1. /\ child[t] \in Child /\ restore_exit(t)
        /\ UNCHANGED <<state, kset, changed>> /\ child'[t] = NoChild
        /\ pc'[t] = AfterUpdate(t, changed[t])
    BY <1>0, <1>8 DEF restore_done, restore_missing_set, restore_exit, TypeOK
  <2>2. Phased(t)'
    BY <1>0, <2>1 DEF AfterUpdate
  <2>3. ASSUME NEW n \in Names, Prepared(n)', prep[n] = "idle" PROVE Covered(n)'
    <3>1. Prepared(n) /\ KernelIps(n)' = KernelIps(n) /\ StateIps(n)' = StateIps(n)
      BY <2>1, <2>3 DEF Prepared, KernelIps, StateIps
    <3>2. Covered(n)
      BY <2>3, <3>1 DEF PushInv
    <3>3. CASE child[t].name = n
      <4>1. \A f \in Families : <<n, f>> \in DOMAIN kset
        BY <3>1 DEF Prepared
      <4>2. ~restore_missing_set(t)
        BY <3>3, <4>1 DEF restore_missing_set, LineSet, Families, family
      <4>3. child[t].line = "add" /\ child[t].todo = {}
        BY <1>8, <4>2 DEF restore_done
      <4>4. StateIps(n) \subseteq KernelIps(n)
        BY <1>0, <2>1, <3>2, <3>3, <4>3, EnforcementAssumption DEF Covered
      <4> QED BY <1>0, <2>1, <3>1, <3>2, <4>4 DEF Covered
    <3>4. CASE child[t].name # n
      BY <1>0, <2>1, <3>1, <3>2, <3>4 DEF Covered
    <3> QED BY <3>3, <3>4
  <2> QED BY <1>2, <2>2, <2>3
<1>9. ~restore_fail(t)
  BY <1>0 DEF restore_fail, Serial
<1> QED BY <1>3, <1>4, <1>5, <1>6, <1>7, <1>8, <1>9 DEF TaskStep

\* Neither do commands and preparations: a network that is prepared again, or
\* gets another policy, starts with an empty table.
LEMMA OtherStepPush ==
    ASSUME TypeOK, PushInv, Serial, NEW n \in Names,
           ipset_create(n) \/ ipset_remove(n) \/ PrepStep(n)
    PROVE  PushInv'
<1>1. UNCHANGED <<pc, changed, child>>
  BY DEF ipset_create, ipset_remove, PrepStep, prepare_network, destroy_ipsets, create_ipsets,
     create_ipset_fallback, ensure_rules, send_create, prepare_fails, taskVars
<1>2. \A t \in Tasks : Phased(t)'
  BY <1>1 DEF PushInv, Phased, Running
<1>3. ASSUME NEW m \in Names, KernelIps(m)' = KernelIps(m), StateIps(m)' = StateIps(m), Covered(m)
      PROVE  Covered(m)'
  BY <1>1, <1>3 DEF Covered, Pending, Pushing, Running
<1>4. ASSUME NEW m \in Names, StateIps(m)' = {}
      PROVE  Covered(m)'
  BY <1>4 DEF Covered
<1>5. SUFFICES ASSUME NEW m \in Names, Prepared(m)', prep'[m] = "idle" PROVE Covered(m)'
  BY <1>2 DEF PushInv
<1>6. CASE ipset_create(n) \/ ipset_remove(n) \/ send_create(n)
  <2>1. StateIps(n)' = {} /\ \A k \in Names : k # n => StateIps(k)' = StateIps(k)
    BY <1>6, TableReplaced DEF ipset_create, ipset_remove, send_create, handle_create
  <2>2. CASE m = n
    BY <1>4, <2>1, <2>2
  <2>3. CASE m # n
    <3>1. Prepared(m) /\ KernelIps(m)' = KernelIps(m) /\ prep[m] = "idle"
      BY <1>5, <1>6, <2>3 DEF ipset_create, ipset_remove, send_create, Prepared, KernelIps, TypeOK
    <3> QED BY <1>3, <2>1, <2>3, <3>1 DEF PushInv
  <2> QED BY <2>2, <2>3
<1>7. CASE prepare_network(n) \/ ensure_rules(n)
  <2>1. Prepared(m) /\ KernelIps(m)' = KernelIps(m) /\ StateIps(m)' = StateIps(m) /\ prep[m] = "idle"
    BY <1>5, <1>7 DEF prepare_network, ensure_rules, Prepared, KernelIps, StateIps, TypeOK
  <2> QED BY <1>3, <2>1 DEF PushInv
<1>8. CASE destroy_ipsets(n) \/ create_ipsets(n)
  <2>1. m # n /\ prep[m] = "idle" /\ StateIps(m)' = StateIps(m)
    BY <1>5, <1>8 DEF destroy_ipsets, create_ipsets, StateIps, TypeOK
  <2>2. PrepSet(n) \in SetKeys /\ PrepSet(n)[1] = n
    BY KeyTypes DEF PrepSet
  <2>3. KernelIps(m)' = KernelIps(m) /\ Prepared(m)
    BY <1>5, <1>8, <2>1, <2>2, OwnSetsOnly DEF destroy_ipsets, create_ipsets
  <2> QED BY <1>3, <2>1, <2>3 DEF PushInv
<1>9. ~create_ipset_fallback(n) /\ ~prepare_fails(n)
  BY DEF create_ipset_fallback, prepare_fails, Serial
<1> QED BY <1>6, <1>7, <1>8, <1>9 DEF PrepStep

\* What a single task has still to push is never lost from sight.
LEMMA PushInvariance ==
    ASSUME Serial
    PROVE  Spec => [](TypeOK /\ PushInv)
<1>1. Init => PushInv
  BY EnforcementAssumption
     DEF Init, StateInit, IpsetInit, PushInv, Phased, Running, Covered, StateIps, Pending, Pushing
<1>2. TypeOK /\ PushInv /\ [Next]_vars => PushInv'
  <2> SUFFICES ASSUME TypeOK, PushInv, [Next]_vars PROVE PushInv'
    OBVIOUS
  <2>1. CASE UNCHANGED vars
    BY <2>1 DEF vars, PushInv, Phased, Running, Covered, StateIps, KernelIps, Pending, Pushing, Prepared
  <2>2. ~crash_restart
    BY DEF crash_restart, Serial
  <2> QED BY <2>1, <2>2, TaskStepPush, OtherStepPush DEF Next
<1> QED BY <1>1, <1>2, TypeCorrect, PTL DEF Spec

\* With one query handled at a time and nothing failing, every address that
\* the table lists for a prepared network is in the kernel's sets once no
\* update is under way: for any number of networks, policies and addresses,
\* and commands and preparations between any two lines of an update.
THEOREM NothingMissing ==
    ASSUME Serial
    PROVE  Spec => []NoMissingAddress
<1>1. TypeOK /\ PushInv => NoMissingAddress
  <2> SUFFICES ASSUME TypeOK, PushInv, ~UpdatesPending, NEW n \in Names, Prepared(n), prep[n] = "idle"
               PROVE  StateIps(n) \subseteq KernelIps(n)
    BY DEF NoMissingAddress
  <2>1. \A t \in Tasks : changed[t] = {} /\ ~Running(t)
    BY DEF PushInv, Phased, UpdatesPending, TypeOK, TaskPcs
  <2> QED BY <2>1 DEF PushInv, Covered, Pending, Pushing
<1> QED BY <1>1, PushInvariance, PTL
-----------------------------------------------------------------------------
(* What takes an address away puts it back *)

\* Of all steps only the flush of a child takes an address from a network
\* that is prepared and not being prepared again.
LEMMA OnlyFlushTakes ==
    ASSUME TypeOK, Next, NEW n \in Names, NEW ip, prep[n] = "idle",
           ip \in KernelIps(n), ip \notin KernelIps(n)'
    PROVE  \E t \in Tasks : restore_flush(t) /\ child[t].name = n
<1>1. ~UNCHANGED kset
  BY DEF KernelIps
<1>2. ASSUME NEW t \in Tasks, restore_flush(t) PROVE child[t].name = n
  <2>1. child[t].name \in Names
    BY <1>2 DEF restore_flush, Running, TypeOK, Child
  <2>2. PICK f \in Families : LineSet(t) = <<child[t].name, f>>
    BY DEF LineSet, Families
  <2> QED BY <1>2, <2>1, <2>2, FlushShrinks DEF restore_flush
<1>3. ASSUME NEW t \in Tasks, restore_add(t) PROVE FALSE
  <2>1. PICK x \in child[t].todo : restore_add(t)!3!(x)
    BY <1>3 DEF restore_add
  <2>2. child[t].name \in Names /\ family(x) \in Families
    BY <1>3 DEF restore_add, Running, TypeOK, Child, family, Families
  <2> DEFINE k == <<child[t].name, family(x)>>
  <2>3. CASE child[t].name = n
    BY <2>1, <2>2, <2>3, AddedEntry
  <2>4. CASE child[t].name # n
    <3>1. k \in SetKeys /\ k[1] # n /\ add_entry(k, x)
      BY <2>1, <2>2, <2>4 DEF SetKeys
    <3> HIDE DEF k
    <3> QED BY <3>1, OwnSetsOnly
  <2> QED BY <2>3, <2>4
<1>4. ASSUME NEW m \in Names, destroy_ipsets(m) PROVE FALSE
  <2>1. m # n
    BY <1>4 DEF destroy_ipsets
  <2>2. PICK f \in Families : PrepSet(m) = <<m, f>>
    BY DEF PrepSet, Families
  <2> QED BY <1>4, <2>1, <2>2, DestroyShrinks DEF destroy_ipsets
<1>5. ASSUME NEW m \in Names, create_ipset_fallback(m) PROVE FALSE
  <2>1. m # n
    BY <1>5 DEF create_ipset_fallback
  <2>2. PICK f \in Families : PrepSet(m) = <<m, f>>
    BY DEF PrepSet, Families
  <2> QED BY <1>5, <2>1, <2>2, SwapShrinks DEF create_ipset_fallback
<1>6. ASSUME NEW m \in Names, create_ipsets(m) PROVE FALSE
  BY <1>6, CreateInvisible DEF create_ipsets
<1>7. \A t \in Tasks : ~forward_dns_query(t) /\ ~inspect_and_update_state(t) /\ ~update_ipset(t)
                     /\ ~send_dns_response(t) /\ ~restore_done(t) /\ ~restore_missing_set(t)
                     /\ ~restore_fail(t)
  BY <1>1 DEF forward_dns_query, inspect_and_update_state, update_ipset, send_dns_response,
     restore_done, restore_missing_set, restore_fail
<1>8. \A m \in Names : ~ipset_create(m) /\ ~ipset_remove(m) /\ ~prepare_network(m)
                     /\ ~ensure_rules(m) /\ ~send_create(m) /\ ~prepare_fails(m)
  BY <1>1 DEF ipset_create, ipset_remove, prepare_network, ensure_rules, send_create, prepare_fails
<1>9. ~crash_restart
  BY <1>1 DEF crash_restart
<1> QED BY <1>2, <1>3, <1>4, <1>5, <1>6, <1>7, <1>8, <1>9 DEF Next, TaskStep, PrepStep

\* With one query handled at a time and nothing failing, an address that the
\* table lists leaves the sets of a prepared network only by the flush of a
\* child that has it still to add.
THEOREM GapIsClosed ==
    ASSUME Serial
    PROVE  Spec => FlushPutsBack
<1> DEFINE Back ==
      \A n \in Names, ip \in Ips :
        /\ Prepared(n) /\ prep[n] = "idle"
        /\ ip \in StateIps(n) \cap KernelIps(n)
        /\ ip \notin KernelIps(n)'
        => \E t \in Tasks : Running(t) /\ child[t].name = n /\ ip \in child[t].todo
<1>1. TypeOK /\ PushInv /\ [Next]_vars => [Back]_vars
  <2> SUFFICES ASSUME TypeOK, PushInv, Next, NEW n \in Names, NEW ip \in Ips,
                      Prepared(n), prep[n] = "idle", ip \in StateIps(n) \cap KernelIps(n),
                      ip \notin KernelIps(n)'
               PROVE  \E t \in Tasks : Running(t) /\ child[t].name = n /\ ip \in child[t].todo
    OBVIOUS
  <2>1. PICK t \in Tasks : restore_flush(t) /\ child[t].name = n
    BY OnlyFlushTakes
  <2>2. Running(t) /\ child[t].line # "add"
    BY <2>1 DEF restore_flush
  <2>3. StateIps(n) \subseteq child[t].todo
    BY <2>1, <2>2 DEF PushInv, Covered, Pushing
  <2> QED BY <2>1, <2>2, <2>3
<1> QED BY <1>1, PushInvariance, PTL DEF Spec, FlushPutsBack
=============================================================================
