---------------------------- MODULE Enforcement ----------------------------
(***************************************************************************)
(* How DNS answers become firewall openings.  The daemon runs one          *)
(* asynchronous task per query: when the upstream answer arrives, the task *)
(* updates the policy table under its lock, releases the lock, and for     *)
(* each network that changed runs an `ipset restore` child process that    *)
(* flushes and refills the kernel's sets; then it forwards the answer.     *)
(* Meanwhile `prepare-network` commands build sets and rules, control      *)
(* commands replace and remove policies, and the daemon may be killed and  *)
(* started again, which leaves its child processes and the kernel behind.  *)
(***************************************************************************)
EXTENDS PolicyState, Ipset

CONSTANTS
    Tasks,      \* identities of concurrent DNS tasks
    Policies,   \* the pattern lists commands may carry
    PreparedNames,  \* networks prepared before this daemon was started
    PrepareNames,   \* networks that prepare-network is run for
    Commands,   \* which control commands are sent: subset of {"CREATE", "REMOVE"}
    Faults,     \* what may go wrong: subset of {"crash", "ipset", "prepare"}
    NoChild     \* a task that has no child process

VARIABLES
    pc,         \* where each task is
    resp,       \* the response it handles
    changed,    \* the changed sets it has still to push
    child,      \* its running `ipset restore` process
    prep,       \* where the prepare-network of each name is
    granted     \* history: every pattern a name was given

taskVars == <<pc, resp, changed, child>>
vars     == <<state, kset, referenced, pc, resp, changed, child, prep, granted>>

Lines    == {"flush", "flush6", "add"}
Child    == [name : Names, line : Lines, todo : SUBSET Ips]
Change   == [name : Names, ips : SUBSET Ips]
TaskPcs  == {"idle", "inspect", "update", "restore", "reply", "orphan"}
PrepPcs  == {"idle", "destroy", "destroy6", "create", "create6", "rules", "send"}

ASSUME EnforcementAssumption ==
    /\ Policies \subseteq SUBSET Patterns
    /\ PreparedNames \subseteq Names
    /\ PrepareNames \subseteq Names
    /\ NoChild \notin Child

NoResponse == [queries |-> {}, answers |-> {}]

\* A child has a task that waits for it, unless its daemon is dead.
TypeOK ==
    /\ StateType
    /\ IpsetType
    /\ pc \in [Tasks -> TaskPcs]
    /\ resp \in [Tasks -> Response]
    /\ changed \in [Tasks -> SUBSET Change]
    /\ child \in [Tasks -> Child \cup {NoChild}]
    /\ \A t \in Tasks : child[t] # NoChild <=> pc[t] \in {"restore", "orphan"}
    /\ prep \in [Names -> PrepPcs]
    /\ granted \in [Names -> SUBSET Patterns]

\* Sets and rules outlive a daemon: those of PreparedNames are there already,
\* while the table starts empty.
Init ==
    /\ StateInit
    /\ IpsetInit(PreparedNames)
    /\ pc = [t \in Tasks |-> "idle"]
    /\ resp = [t \in Tasks |-> NoResponse]
    /\ changed = [t \in Tasks |-> {}]
    /\ child = [t \in Tasks |-> NoChild]
    /\ prep = [n \in Names |-> "idle"]
    /\ granted = [n \in Names |-> {}]
-----------------------------------------------------------------------------
(* The DNS task *)

\* The upstream server answered.  A query that fails or times out ends its
\* task without touching anything modelled here.
forward_dns_query(t) ==
    /\ pc[t] = "idle"
    /\ \E r \in Responses : resp' = [resp EXCEPT ![t] = r]
    /\ pc' = [pc EXCEPT ![t] = "inspect"]
    /\ UNCHANGED <<state, kset, referenced, changed, child, prep, granted>>

\* The part of inspect_and_update_state that holds the table's lock.
inspect_and_update_state(t) ==
    LET sets == ChangedSets(resp[t].queries, resp[t].answers) IN
    /\ pc[t] = "inspect"
    /\ apply_resolved_ips(resp[t].queries, resp[t].answers)
    /\ changed' = [changed EXCEPT ![t] = sets]
    /\ pc' = [pc EXCEPT ![t] = IF sets = {} THEN "reply" ELSE "update"]
    /\ UNCHANGED <<kset, referenced, resp, child, prep, granted>>

\* Where a task is once it has dealt with one changed set: an error is only
\* logged.  The child of a dead daemon has no task to return to.
AfterUpdate(t, rest) ==
    CASE pc[t] = "orphan" -> "idle"
      [] pc[t] # "orphan" /\ rest = {} -> "reply"
      [] OTHER -> "update"

\* Variant with a fault: the child is started and not waited for.
update_ipset_NotAwaited(t) ==
    /\ pc[t] = "update"
    /\ \E c \in changed[t] :
        /\ changed' = [changed EXCEPT ![t] = @ \ {c}]
        /\ child' = [child EXCEPT ![t] = [name |-> c.name, line |-> "flush", todo |-> c.ips]]
        /\ pc' = [pc EXCEPT ![t] = AfterUpdate(t, changed[t] \ {c})]
    /\ UNCHANGED <<state, kset, referenced, resp, prep, granted>>

\* update_ipset starts the child, for the changed sets in any order.
update_ipset(t) ==
    /\ pc[t] = "update"
    /\ \E c \in changed[t] :
        /\ changed' = [changed EXCEPT ![t] = @ \ {c}]
        /\ \/ /\ child' = [child EXCEPT ![t] =
                            [name |-> c.name, line |-> "flush", todo |-> c.ips]]
              /\ pc' = [pc EXCEPT ![t] = "restore"]
           \/ /\ "ipset" \in Faults  \* no trusted binary, or it does not start
              /\ pc' = [pc EXCEPT ![t] = AfterUpdate(t, changed[t] \ {c})]
              /\ UNCHANGED child
    /\ UNCHANGED <<state, kset, referenced, resp, prep, granted>>

send_dns_response(t) ==
    /\ pc[t] = "reply"
    /\ pc' = [pc EXCEPT ![t] = "idle"]
    /\ resp' = [resp EXCEPT ![t] = NoResponse]
    /\ UNCHANGED <<state, kset, referenced, changed, child, prep, granted>>
-----------------------------------------------------------------------------
(* Its child process: one line of the payload at a time.  It survives a    *)
(* daemon that is killed.                                                  *)

Running(t) == child[t] # NoChild

LineSet(t) == <<child[t].name, IF child[t].line = "flush" THEN "inet" ELSE "inet6">>

restore_exit(t) ==
    /\ child' = [child EXCEPT ![t] = NoChild]
    /\ pc' = [pc EXCEPT ![t] = AfterUpdate(t, changed[t])]
    /\ UNCHANGED <<state, referenced, resp, changed, prep, granted>>

restore_flush(t) ==
    /\ Running(t)
    /\ child[t].line # "add"
    /\ LineSet(t) \in DOMAIN kset
    /\ flush_set(LineSet(t))
    /\ child' = [child EXCEPT ![t].line = IF @ = "flush" THEN "flush6" ELSE "add"]
    /\ UNCHANGED <<state, referenced, pc, resp, changed, prep, granted>>

restore_add(t) ==
    /\ Running(t)
    /\ child[t].line = "add"
    /\ \E ip \in child[t].todo :
        /\ <<child[t].name, family(ip)>> \in DOMAIN kset
        /\ add_entry(<<child[t].name, family(ip)>>, ip)
        /\ child' = [child EXCEPT ![t].todo = @ \ {ip}]
    /\ UNCHANGED <<state, referenced, pc, resp, changed, prep, granted>>

restore_done(t) ==
    /\ Running(t)
    /\ child[t].line = "add" /\ child[t].todo = {}
    /\ restore_exit(t)
    /\ UNCHANGED kset

\* Variant with a fault: a missing set makes the payload start again.
restore_missing_set_Retried(t) ==
    /\ Running(t)
    /\ \/ child[t].line # "add" /\ LineSet(t) \notin DOMAIN kset
       \/ /\ child[t].line = "add"
          /\ \E ip \in child[t].todo : <<child[t].name, family(ip)>> \notin DOMAIN kset
    /\ child' = [child EXCEPT ![t].line = "flush"]
    /\ UNCHANGED <<state, kset, referenced, pc, resp, changed, prep, granted>>

\* The set of the current line does not exist: the rest is not carried out.
restore_missing_set(t) ==
    /\ Running(t)
    /\ \/ child[t].line # "add" /\ LineSet(t) \notin DOMAIN kset
       \/ /\ child[t].line = "add"
          /\ \E ip \in child[t].todo : <<child[t].name, family(ip)>> \notin DOMAIN kset
    /\ restore_exit(t)
    /\ UNCHANGED kset

\* A kernel error, or the input of an orphan ends early.
restore_fail(t) ==
    /\ Running(t)
    /\ "ipset" \in Faults \/ pc[t] = "orphan"
    /\ restore_exit(t)
    /\ UNCHANGED kset
-----------------------------------------------------------------------------
(* Control commands *)

handle_create(n, patterns) ==
    /\ insert_managed(n, patterns)
    /\ granted' = [granted EXCEPT ![n] = @ \cup patterns]

\* `dockerwall ipset create`: the command alone, without any kernel set.
ipset_create(n) ==
    /\ "CREATE" \in Commands
    /\ \E patterns \in Policies : handle_create(n, patterns)
    /\ UNCHANGED <<kset, referenced, taskVars, prep>>

\* `dockerwall ipset remove`: the kernel sets stay as they are.
ipset_remove(n) ==
    /\ "REMOVE" \in Commands
    /\ remove_managed(n)
    /\ UNCHANGED <<kset, referenced, taskVars, prep, granted>>
-----------------------------------------------------------------------------
(* The steps of prepare-network that touch sets and policy, in the code's  *)
(* order; a failed step ends the attempt and a new one starts afresh.      *)

PrepSet(n) == <<n, IF prep[n] \in {"destroy", "create"} THEN "inet" ELSE "inet6">>

prepare_network(n) ==
    /\ n \in PrepareNames
    /\ prep[n] = "idle"
    /\ prep' = [prep EXCEPT ![n] = "destroy"]
    /\ UNCHANGED <<state, kset, referenced, taskVars, granted>>

destroy_ipsets(n) ==
    /\ prep[n] \in {"destroy", "destroy6"}
    /\ destroy_set(PrepSet(n))
    /\ prep' = [prep EXCEPT ![n] = IF @ = "destroy" THEN "destroy6" ELSE "create"]
    /\ UNCHANGED <<state, referenced, taskVars, granted>>

create_ipsets(n) ==
    /\ prep[n] \in {"create", "create6"}
    /\ create_set(PrepSet(n))
    /\ prep' = [prep EXCEPT ![n] = IF @ = "create" THEN "create6" ELSE "rules"]
    /\ UNCHANGED <<state, referenced, taskVars, granted>>

\* `ipset create` failed, for instance on an existing set of other parameters.
create_ipset_fallback(n) ==
    /\ "prepare" \in Faults
    /\ prep[n] \in {"create", "create6"}
    /\ swap_in_empty(PrepSet(n))
    /\ prep' = [prep EXCEPT ![n] = IF @ = "create" THEN "create6" ELSE "rules"]
    /\ UNCHANGED <<state, referenced, taskVars, granted>>

\* Docker rules match the IPv4 set only, rootless Podman rules both when the
\* host has a routed IPv6 prefix.
ensure_rules(n) ==
    /\ prep[n] = "rules"
    /\ \E fs \in {{"inet"}, Families} :
        referenced' = referenced \cup {<<n, f>> : f \in fs}
    /\ prep' = [prep EXCEPT ![n] = "send"]
    /\ UNCHANGED <<state, kset, taskVars, granted>>

send_create(n) ==
    /\ prep[n] = "send"
    /\ \E patterns \in Policies : handle_create(n, patterns)
    /\ prep' = [prep EXCEPT ![n] = "idle"]
    /\ UNCHANGED <<kset, referenced, taskVars>>

\* Among the rules it may fail between the deletion of an old rule and the
\* insertion of the new one, and then nothing refers to the set.
prepare_fails(n) ==
    /\ "prepare" \in Faults
    /\ prep[n] # "idle"
    /\ prep' = [prep EXCEPT ![n] = "idle"]
    /\ \E deleted \in SUBSET {<<n, f>> : f \in Families} :
        /\ deleted # {} => prep[n] = "rules"
        /\ referenced' = referenced \ deleted
    /\ UNCHANGED <<state, kset, taskVars, granted>>
-----------------------------------------------------------------------------
\* The daemon is killed and started again: the table and the tasks are gone,
\* the kernel's sets and the processes that fill them are not.
crash_restart ==
    /\ "crash" \in Faults
    /\ state' = [n \in {} |-> {}]
    /\ pc' = [t \in Tasks |-> IF Running(t) THEN "orphan" ELSE "idle"]
    /\ resp' = [t \in Tasks |-> NoResponse]
    /\ changed' = [t \in Tasks |-> {}]
    /\ UNCHANGED <<kset, referenced, child, prep, granted>>

TaskStep(t) ==
    \/ inspect_and_update_state(t)
    \/ update_ipset(t)
    \/ send_dns_response(t)
    \/ restore_flush(t)
    \/ restore_add(t)
    \/ restore_done(t)
    \/ restore_missing_set(t)
    \/ restore_fail(t)

PrepStep(n) ==
    \/ prepare_network(n)
    \/ destroy_ipsets(n)
    \/ create_ipsets(n)
    \/ create_ipset_fallback(n)
    \/ ensure_rules(n)
    \/ send_create(n)
    \/ prepare_fails(n)

Next ==
    \/ \E t \in Tasks : forward_dns_query(t) \/ TaskStep(t)
    \/ \E n \in Names : ipset_create(n) \/ ipset_remove(n) \/ PrepStep(n)
    \/ crash_restart

Spec == Init /\ [][Next]_vars

\* The runtime polls every ready task and child processes end; whether
\* queries arrive, commands are given or the daemon dies is left open.
FairSpec == Spec /\ \A t \in Tasks : WF_vars(TaskStep(t))
-----------------------------------------------------------------------------
(* Properties *)

\* An address is in a network's kernel sets only if a response to a domain
\* that a policy given to THAT network accepts can carry it.  It must hold
\* through stale snapshots (taken before a CREATE, written after it), torn
\* and overlapping `ipset restore` runs, orphans of a killed daemon, and
\* responses that match several networks at once.
OnlyAuthorisedAddresses ==
    \A n \in Names : KernelIps(n) \subseteq Reachable(granted[n])

Deny == INSTANCE DefaultDeny WITH allowed <- [n \in Names |-> KernelIps(n)]

\* Step by step, what the daemon, its children, the commands and the crashes
\* do to the kernel's sets is something the abstract firewall may do: at most
\* one address opens at a time, for one network, and it is authorised then.
ImplementsDefaultDeny == Deny!Spec

Prepared(n) == {<<n, f>> : f \in Families} \subseteq DOMAIN kset

StateIps(n) == IF n \in DOMAIN state THEN state[n].ips ELSE {}

UpdatesPending == \E t \in Tasks : pc[t] \in {"update", "restore", "orphan"}

\* Once no update is under way, every address the table lists for a prepared
\* network is in its kernel sets.  apply_resolved_ips depends on it: an
\* address already in the table is never pushed again, so one the kernel
\* lost stays blocked for good.
NoMissingAddress ==
    ~UpdatesPending =>
        \A n \in Names : Prepared(n) /\ prep[n] = "idle" => StateIps(n) \subseteq KernelIps(n)

\* The gap that the flush of an update opens is its own to close: an address
\* the table lists leaves the kernel's sets of a prepared network only when a
\* child is at work that has it still to add.  No child flushes what a
\* snapshot older than the table would not put back.
FlushPutsBack ==
    [][\A n \in Names, ip \in Ips :
        /\ Prepared(n) /\ prep[n] = "idle"
        /\ ip \in StateIps(n) \cap KernelIps(n)
        /\ ip \notin KernelIps(n)'
        => \E t \in Tasks : Running(t) /\ child[t].name = n /\ ip \in child[t].todo]_vars

\* An address put in the table of a prepared network reaches the kernel,
\* unless the entry is replaced or removed, or the network prepared again.
EventuallyInstalled ==
    \A n \in Names, ip \in Ips :
        (ip \in StateIps(n) /\ Prepared(n) /\ prep[n] = "idle")
            ~> (ip \in KernelIps(n) \/ ip \notin StateIps(n) \/ prep[n] # "idle")

\* Every query whose answer arrived is replied to, unless its daemon dies first,
\* whatever its updates meet: sets that are missing or destroyed meanwhile,
\* children that fail or do not start, another task's update of the same sets.
\* The children of a dead daemon end too.
EveryTaskEnds == \A t \in Tasks : pc[t] # "idle" ~> pc[t] = "idle"
=============================================================================
