------------------------ MODULE DockerPrepareProofs ------------------------
(***************************************************************************)
(* Proofs about DockerPrepare for every set of names, subnets and plans,   *)
(* and every number of attempts and preparations.                          *)
(***************************************************************************)
EXTENDS DockerPrepare, IptablesProofs

-----------------------------------------------------------------------------
(* What makes the properties inductive *)

\* A process under way has a name, and an attempt starts at the first rule.
TypeInv ==
    /\ TypeOK
    /\ \A p \in Procs :
        /\ proc[p].pc # "idle" => proc[p].name \in Names
        /\ proc[p].pc \notin {"delete", "insert", "send"} => proc[p].rule = 1

\* Preparations are not run at the same time: what the rest is about.
OneProc == \A p, q \in Procs : p = q

filter_rule(kind, n, s) == [kind |-> kind, name |-> n, subnet |-> s]
nat_rule(kind, n, pl)   == [kind |-> kind, name |-> n, plan |-> pl]

\* A rule that decides nothing about the subnet of a network, unless it lets
\* through what the network may reach.
Harmless(r, n, s) ==
    \/ r.kind = "established"
    \/ r.kind \notin {"established", "return"} /\ r.subnet # s
    \/ r \in {filter_rule("allow", n, s), filter_rule("allow-local", n, s)}

\* The drop rule of the subnet stands below the two rules that let through and
\* above everything else that is about the subnet.
Shielded(f, n, s) ==
    \E k \in DOMAIN f :
        /\ f[k] = filter_rule("drop", n, s)
        /\ \A kind \in {"allow", "allow-local"} : \E i \in 1..(k - 1) : f[i] = filter_rule(kind, n, s)
        /\ \A i \in 1..(k - 1) : Harmless(f[i], n, s)

\* The first rule about the DNS queries of the subnet leads to its gateway.
Redirected(g, kind, n, pl) ==
    \E k \in DOMAIN g :
        /\ g[k] = nat_rule(kind, n, pl)
        /\ \A i \in 1..(k - 1) : g[i].kind = kind => g[i].plan.subnet # pl.subnet

RulesStand ==
    \A n \in firewalled :
        /\ Shielded(chain["filter"], n, net[n].subnet)
        /\ Redirected(chain["nat"], "dns-udp", n, net[n])
        /\ Redirected(chain["nat"], "dns-tcp", n, net[n])

\* While a process installs the rules of a subnet no other network has that
\* subnet, the rules so far are at the top, and the next one is inserted only
\* when no copy of it is left, or when the deletion of its copies broke off.
Installs(p) ==
    LET n == proc[p].name IN
    /\ n \notin firewalled
    /\ \A m \in DOMAIN net : m = n \/ net[m].subnet = plan(p).subnet => m = n /\ net[m] = plan(p)
    /\ \A i \in 1..4 : i < proc[p].rule =>
        i <= Len(chain["filter"]) /\ chain["filter"][i] = RuleList(n, plan(p))[i].rule
    /\ proc[p].rule = NumRules => Redirected(chain["nat"], "dns-udp", n, plan(p))
    /\ proc[p].pc = "insert" =>
        ~has_rule(chain[Item(p).table], Item(p).rule) \/ Copy(p) \in leftover

IInv ==
    /\ TypeInv
    /\ RulesStand
    /\ NoDuplicateRule
    /\ \A p \in Procs : proc[p].pc \in {"delete", "insert"} => Installs(p)
-----------------------------------------------------------------------------
(* Types *)

\* The list of rules, written out.
LEMMA RuleItems ==
    ASSUME NEW n, NEW pl
    PROVE  LET L == RuleList(n, pl) IN
           /\ L[1] = [table |-> "filter", pos |-> 1, rule |-> established]
           /\ L[2] = [table |-> "filter", pos |-> 2, rule |-> filter_rule("allow", n, pl.subnet)]
           /\ L[3] = [table |-> "filter", pos |-> 3, rule |-> filter_rule("allow-local", n, pl.subnet)]
           /\ L[4] = [table |-> "filter", pos |-> 4, rule |-> filter_rule("drop", n, pl.subnet)]
           /\ L[5] = [table |-> "nat", pos |-> 1, rule |-> nat_rule("dns-udp", n, pl)]
           /\ L[6] = [table |-> "nat", pos |-> 1, rule |-> nat_rule("dns-tcp", n, pl)]
  BY DEF RuleList, filter_rule, nat_rule

\* The kinds of rules are rules of their table.
LEMMA RuleTypes ==
    /\ established \in FilterRule /\ return \in FilterRule
    /\ \A kind \in {"allow", "allow-local", "drop"}, n \in Names, s \in Subnets :
        filter_rule(kind, n, s) \in FilterRule
    /\ \A kind \in {"dns-udp", "dns-tcp"}, n \in Names, pl \in Plan :
        nat_rule(kind, n, pl) \in NatRule
  BY DEF FilterRule, NatRule, filter_rule, nat_rule

\* What a process that is under way works on.
LEMMA WorkType ==
    ASSUME TypeInv, NEW p \in Procs, proc[p].pc # "idle"
    PROVE  /\ proc[p] \in Process
           /\ proc[p].name \in Names /\ plan(p) \in Plan /\ plan(p).subnet \in Subnets
           /\ proc[p].rule \in {1, 2, 3, 4, 5, 6}
<1>1. proc[p] \in Process /\ proc[p].name \in Names
  BY DEF TypeInv, TypeOK
<1>2. plan(p) \in Plan
  BY <1>1, DockerAssumption DEF plan, Process
<1>3. proc[p].rule \in {1, 2, 3, 4, 5, 6}
  BY <1>1 DEF Process, NumRules
<1> QED BY <1>1, <1>2, <1>3 DEF Plan

\* The rule a process is at belongs to the table it names.
LEMMA ItemType ==
    ASSUME TypeInv, NEW p \in Procs, proc[p].pc # "idle"
    PROVE  /\ Item(p).pos \in Nat \ {0}
           /\ \/ Item(p).table = "filter" /\ Item(p).rule \in FilterRule
              \/ Item(p).table = "nat" /\ Item(p).rule \in NatRule
<1> DEFINE L == RuleList(proc[p].name, plan(p))
<1>1. Item(p) = L[proc[p].rule]
  BY DEF Item
<1>2. /\ L[1] = [table |-> "filter", pos |-> 1, rule |-> established]
      /\ L[2] = [table |-> "filter", pos |-> 2, rule |-> filter_rule("allow", proc[p].name, plan(p).subnet)]
      /\ L[3] = [table |-> "filter", pos |-> 3, rule |-> filter_rule("allow-local", proc[p].name, plan(p).subnet)]
      /\ L[4] = [table |-> "filter", pos |-> 4, rule |-> filter_rule("drop", proc[p].name, plan(p).subnet)]
      /\ L[5] = [table |-> "nat", pos |-> 1, rule |-> nat_rule("dns-udp", proc[p].name, plan(p))]
      /\ L[6] = [table |-> "nat", pos |-> 1, rule |-> nat_rule("dns-tcp", proc[p].name, plan(p))]
  BY RuleItems
<1> HIDE DEF L
<1> QED BY <1>1, <1>2, WorkType, RuleTypes

\* Initially nothing is prepared.
LEMMA InitType == Init => TypeInv
<1> SUFFICES ASSUME Init PROVE TypeInv
  OBVIOUS
<1>1. Idle \in Process /\ Idle.pc = "idle"
  BY DockerAssumption DEF Idle, Process, Pcs, NumRules
<1>2. chain["filter"] \in Seq(FilterRule) /\ chain["nat"] \in Seq(NatRule) /\ DOMAIN chain = Tables
  <2>1. InitialChain \in Seq(FilterRule)
    BY DockerAssumption, RuleTypes, SeqMonotonic
  <2> QED BY <2>1 DEF Init, Tables
<1>3. Idle.rule = 1
  BY DEF Idle
<1> QED BY <1>1, <1>2, <1>3, DockerAssumption DEF Init, TypeInv, TypeOK

ProcOK(pr) ==
    /\ pr \in Process
    /\ pr.pc # "idle" => pr.name \in Names
    /\ pr.pc \notin {"delete", "insert", "send"} => pr.rule = 1

\* Only the process that takes the step moves.
LEMMA Moves ==
    ASSUME TypeInv, NEW p \in Procs, DOMAIN proc' = Procs, proc' = [q \in Procs |-> proc'[q]],
           \A q \in Procs : q # p => proc'[q] = proc[q], ProcOK(proc'[p])
    PROVE  /\ proc' \in [Procs -> Process]
           /\ \A q \in Procs : ProcOK(proc'[q])
<1>1. \A q \in Procs : ProcOK(proc[q])
  BY DEF TypeInv, TypeOK, ProcOK
<1>2. \A q \in Procs : ProcOK(proc'[q])
  BY <1>1
<1> QED BY <1>2 DEF ProcOK

\* Where a process may go.
LEMMA ProcType ==
    ASSUME TypeInv, NEW p \in Procs,
           \/ \E pc \in Pcs : /\ goto(p, pc)
                              /\ pc # "idle" => proc[p].pc # "idle"
                              /\ pc \notin {"delete", "insert", "send"} => proc[p].rule = 1
           \/ attempt_fails(p) /\ proc[p].pc # "idle"
           \/ proc' = [proc EXCEPT ![p] = Idle]
    PROVE  /\ proc' \in [Procs -> Process]
           /\ \A q \in Procs : ProcOK(proc'[q])
<1>0. proc \in [Procs -> Process] /\ ProcOK(proc[p]) /\ proc = [q \in Procs |-> proc[q]]
  BY DEF TypeInv, TypeOK, ProcOK
<1>00. ProcOK(Idle)
  BY DockerAssumption DEF Idle, Process, Pcs, NumRules, ProcOK
<1>1. ASSUME NEW pc \in Pcs, goto(p, pc), pc # "idle" => proc[p].pc # "idle",
             pc \notin {"delete", "insert", "send"} => proc[p].rule = 1
      PROVE  ProcOK(proc'[p]) /\ proc' \in [Procs -> Process] /\ \A q \in Procs : q # p => proc'[q] = proc[q]
  BY <1>0, <1>1 DEF goto, Process, ProcOK
<1>2. ASSUME attempt_fails(p), proc[p].pc # "idle"
      PROVE  ProcOK(proc'[p]) /\ proc' \in [Procs -> Process] /\ \A q \in Procs : q # p => proc'[q] = proc[q]
  <2>1. CASE proc[p].attempt + 1 < MaxAttempts
    <3>1. proc[p].attempt + 1 \in 0 .. MaxAttempts - 1 /\ 1 \in 1 .. NumRules
      BY <1>0, <2>1, DockerAssumption DEF Process, NumRules
    <3>2. proc' = [proc EXCEPT ![p].pc = "destroy", ![p].attempt = @ + 1, ![p].rule = 1]
      BY <1>2, <2>1 DEF attempt_fails
    <3> QED BY <1>0, <1>2, <3>1, <3>2 DEF Process, Pcs, ProcOK
  <2>2. CASE ~(proc[p].attempt + 1 < MaxAttempts)
    <3>1. proc' = [proc EXCEPT ![p] = Idle]
      BY <1>2, <2>2 DEF attempt_fails
    <3> QED BY <1>0, <1>00, <3>1 DEF ProcOK
  <2> QED BY <2>1, <2>2
<1>3. ASSUME proc' = [proc EXCEPT ![p] = Idle]
      PROVE  ProcOK(proc'[p]) /\ proc' \in [Procs -> Process] /\ \A q \in Procs : q # p => proc'[q] = proc[q]
  BY <1>0, <1>00, <1>3 DEF ProcOK
<1>4. ProcOK(proc'[p]) /\ proc' \in [Procs -> Process] /\ \A q \in Procs : q # p => proc'[q] = proc[q]
  BY <1>1, <1>2, <1>3
<1> QED BY <1>4, Moves

\* What the two commands on a chain leave.
ChainOK(ch) == DOMAIN ch = Tables /\ ch["filter"] \in Seq(FilterRule) /\ ch["nat"] \in Seq(NatRule)

LEMMA ChainType ==
    ASSUME TypeInv, NEW p \in Procs, proc[p].pc # "idle", NEW f,
           chain' = [chain EXCEPT ![Item(p).table] = f],
           \/ has_rule(chain[Item(p).table], Item(p).rule) /\ f = delete_rule(chain[Item(p).table], Item(p).rule)
           \/ insert_succeeds(p) /\ f = placed(chain[Item(p).table], Item(p))
    PROVE  ChainOK(chain')
<1>0. ChainOK(chain)
  BY DEF TypeInv, TypeOK, ChainOK
<1>1. ASSUME NEW S, chain[Item(p).table] \in Seq(S), Item(p).rule \in S PROVE f \in Seq(S)
  <2>1. Item(p).pos \in Nat \ {0}
    BY ItemType
  <2>2. CASE has_rule(chain[Item(p).table], Item(p).rule) /\ f = delete_rule(chain[Item(p).table], Item(p).rule)
    BY <1>1, <2>2, DeleteExtends
  <2>3. CASE insert_succeeds(p) /\ f = placed(chain[Item(p).table], Item(p))
    BY <1>1, <2>1, <2>3, InsertExtends DEF insert_succeeds, placed
  <2> QED BY <2>2, <2>3
<1>2. CASE Item(p).table = "filter" /\ Item(p).rule \in FilterRule
  <2>1. f \in Seq(FilterRule)
    BY <1>0, <1>1, <1>2 DEF ChainOK
  <2> QED BY <1>0, <1>2, <2>1 DEF ChainOK, Tables
<1>3. CASE Item(p).table = "nat" /\ Item(p).rule \in NatRule
  <2>1. f \in Seq(NatRule)
    BY <1>0, <1>1, <1>3 DEF ChainOK
  <2> QED BY <1>0, <1>3, <2>1 DEF ChainOK, Tables
<1> QED BY <1>2, <1>3, ItemType

\* Removing a Docker network.
LEMMA RmType ==
    ASSUME TypeInv, NEW n, rm(n)
    PROVE  /\ DOMAIN net' \subseteq Names /\ net' \in [DOMAIN net' -> Plan]
           /\ firewalled' \subseteq DOMAIN net'
  BY DEF rm, TypeInv, TypeOK

\* Every step keeps the types.
LEMMA NextType ==
    ASSUME TypeInv, [Next]_vars
    PROVE  TypeInv'
<1>0. /\ proc \in [Procs -> Process] /\ \A q \in Procs : ProcOK(proc[q])
      /\ sets \subseteq Names
      /\ DOMAIN net \subseteq Names /\ net \in [DOMAIN net -> Plan]
      /\ firewalled \subseteq DOMAIN net
      /\ ChainOK(chain)
      /\ started \in 0 .. MaxPreparations /\ faults \in 0 .. MaxFaults
      /\ leftover \subseteq Tables \X (FilterRule \cup NatRule)
  BY DEF TypeInv, TypeOK, ProcOK, ChainOK
<1> DEFINE ProcG    == proc' \in [Procs -> Process] /\ \A q \in Procs : ProcOK(proc'[q])
           SetsG    == sets' \subseteq Names
           NetG     == /\ DOMAIN net' \subseteq Names /\ net' \in [DOMAIN net' -> Plan]
                       /\ firewalled' \subseteq DOMAIN net'
           ChainG   == ChainOK(chain')
           HistoryG == /\ started' \in 0 .. MaxPreparations /\ faults' \in 0 .. MaxFaults
                       /\ leftover' \subseteq Tables \X (FilterRule \cup NatRule)
<1> SUFFICES ProcG /\ SetsG /\ NetG /\ ChainG /\ HistoryG
  BY DEF TypeInv, TypeOK, ProcOK, ChainOK
<1>00. fault => faults' \in 0 .. MaxFaults
  BY <1>0, DockerAssumption DEF fault
<1>1. ASSUME NEW p \in Procs, prepare_docker_network(p)
      PROVE  ProcG /\ SetsG /\ NetG /\ ChainG /\ HistoryG
  <2>1. PICK n \in Names :
          proc' = [proc EXCEPT ![p] = [pc |-> "destroy", name |-> n, attempt |-> 0, rule |-> 1]]
    BY <1>1 DEF prepare_docker_network
  <2>2. ProcOK([pc |-> "destroy", name |-> n, attempt |-> 0, rule |-> 1])
    BY DockerAssumption DEF ProcOK, Process, Pcs, NumRules
  <2>3. ProcG
    BY <1>0, <2>1, <2>2 DEF ProcOK
  <2>4. HistoryG
    BY <1>0, <1>1, DockerAssumption DEF prepare_docker_network
  <2> QED BY <1>0, <1>1, <2>3, <2>4 DEF prepare_docker_network
<1>2. ASSUME NEW p \in Procs, destroy_ipsets(p)
      PROVE  ProcG /\ SetsG /\ NetG /\ ChainG /\ HistoryG
  <2>1. ProcG
    BY <1>0, <1>2, ProcType DEF destroy_ipsets, ProcOK, Pcs
  <2>2. SetsG
    BY <1>0, <1>2 DEF destroy_ipsets
  <2> QED BY <1>0, <1>2, <2>1, <2>2 DEF destroy_ipsets
<1>3. ASSUME NEW p \in Procs, create_ipsets(p)
      PROVE  ProcG /\ SetsG /\ NetG /\ ChainG /\ HistoryG
  <2>1. ProcG
    BY <1>0, <1>3, ProcType DEF create_ipsets, ProcOK, Pcs
  <2>2. SetsG
    BY <1>0, <1>3 DEF create_ipsets, ProcOK
  <2> QED BY <1>0, <1>3, <2>1, <2>2 DEF create_ipsets
<1>4. ASSUME NEW p \in Procs, remove_docker_network(p)
      PROVE  ProcG /\ SetsG /\ NetG /\ ChainG /\ HistoryG
  <2>1. ProcG
    BY <1>0, <1>4, ProcType DEF remove_docker_network, ProcOK, Pcs
  <2>2. NetG
    BY <1>0, <1>4, RmType DEF remove_docker_network
  <2> QED BY <1>0, <1>4, <2>1, <2>2 DEF remove_docker_network
<1>5. ASSUME NEW p \in Procs, create_docker_network(p)
      PROVE  ProcG /\ SetsG /\ NetG /\ ChainG /\ HistoryG
  <2>0. proc[p].pc # "idle" /\ proc[p].name \in Names /\ plan(p) \in Plan
    BY <1>5, WorkType DEF create_docker_network
  <2>1. ProcG
    BY <1>0, <1>5, ProcType DEF create_docker_network, ProcOK, Pcs
  <2>2. NetG
    <3>1. CASE taken(p)
      BY <1>0, <1>5, <3>1 DEF create_docker_network
    <3>2. CASE ~taken(p)
      <4>1. net' = [n \in DOMAIN net \cup {proc[p].name} |-> IF n = proc[p].name THEN plan(p) ELSE net[n]]
        BY <1>5, <3>2 DEF create_docker_network
      <4>2. firewalled' = firewalled
        BY <1>5 DEF create_docker_network
      <4> QED BY <1>0, <2>0, <4>1, <4>2
    <3> QED BY <3>1, <3>2
  <2> QED BY <1>0, <1>5, <2>1, <2>2 DEF create_docker_network
<1>6. ASSUME NEW p \in Procs, remove_rule_all(p)
      PROVE  ProcG /\ SetsG /\ NetG /\ ChainG /\ HistoryG
  <2>0. proc[p].pc = "delete" /\ Copy(p) \in Tables \X (FilterRule \cup NatRule)
    BY <1>6, ItemType DEF remove_rule_all, Copy, Tables
  <2>1. CASE UNCHANGED <<proc, leftover, faults>>
    <3>1. ChainG
      BY <1>0, <1>6, <2>0, <2>1, ChainType DEF remove_rule_all
    <3> QED BY <1>0, <1>6, <2>1, <3>1 DEF remove_rule_all
  <2>2. CASE goto(p, "insert") /\ UNCHANGED chain
    <3>1. ProcG
      BY <1>0, <2>0, <2>2, ProcType DEF Pcs
    <3>2. HistoryG
      BY <1>0, <1>00, <1>6, <2>0 DEF remove_rule_all
    <3> QED BY <1>0, <1>6, <2>2, <3>1, <3>2 DEF remove_rule_all
  <2> QED BY <1>6, <2>1, <2>2 DEF remove_rule_all
<1>7. ASSUME NEW p \in Procs, ensure_rule_present(p)
      PROVE  ProcG /\ SetsG /\ NetG /\ ChainG /\ HistoryG
  <2>1. CASE insert_succeeds(p)
    <3>1. ChainG
      BY <1>7, <2>1, ChainType DEF ensure_rule_present
    <3>2. NetG
      BY <1>0, <1>7, <2>1 DEF ensure_rule_present
    <3>3. ProcG
      <4>1. CASE proc[p].rule < NumRules
        <5>1. proc' = [proc EXCEPT ![p].pc = "delete", ![p].rule = @ + 1]
          BY <1>7, <2>1, <4>1 DEF ensure_rule_present
        <5>2. ProcOK(proc'[p]) /\ \A q \in Procs : q # p => proc'[q] = proc[q]
          BY <1>0, <1>7, <4>1, <5>1 DEF ProcOK, Process, Pcs, NumRules, ensure_rule_present
        <5> QED BY <1>0, <5>1, <5>2 DEF ProcOK
      <4>2. CASE ~(proc[p].rule < NumRules)
        BY <1>0, <1>7, <2>1, <4>2, ProcType DEF ensure_rule_present, Pcs
      <4> QED BY <4>1, <4>2
    <3> QED BY <1>0, <1>7, <2>1, <3>1, <3>2, <3>3 DEF ensure_rule_present
  <2>2. CASE ~insert_succeeds(p)
    <3>1. ProcG
      BY <1>0, <1>7, <2>2, ProcType DEF ensure_rule_present
    <3> QED BY <1>0, <1>7, <2>2, <3>1 DEF ensure_rule_present
  <2> QED BY <2>1, <2>2
<1>8. ASSUME NEW p \in Procs, send_create(p) \/ run_command_checked_fails(p) \/ killed(p)
      PROVE  ProcG /\ SetsG /\ NetG /\ ChainG /\ HistoryG
  <2>1. ProcG
    BY <1>8, ProcType DEF send_create, run_command_checked_fails, killed
  <2> QED BY <1>0, <1>00, <1>8, <2>1 DEF send_create, run_command_checked_fails, killed
<1>9. ASSUME NEW n \in Names, docker_network_rm(n)
      PROVE  ProcG /\ SetsG /\ NetG /\ ChainG /\ HistoryG
  <2>1. NetG
    BY <1>9, RmType DEF docker_network_rm
  <2> QED BY <1>0, <1>9, <2>1 DEF docker_network_rm
<1>10. CASE UNCHANGED vars
  BY <1>0, <1>10 DEF vars
<1> QED BY <1>1, <1>2, <1>3, <1>4, <1>5, <1>6, <1>7, <1>8, <1>9, <1>10 DEF Next, Step

\* Every state has its type, for any number of processes and all faults: no
\* attempt is counted beyond the last, no rule is looked up beyond the list,
\* and a network recorded as prepared is one that exists.
THEOREM DockerTypes == Spec => []TypeOK
<1>1. TypeInv /\ [Next]_vars => TypeInv'
  BY NextType
<1>2. TypeInv => TypeOK
  BY DEF TypeInv
<1> QED BY InitType, <1>1, <1>2, PTL DEF Spec
-----------------------------------------------------------------------------
(* What one more rule, or one less, does to the rules of a network *)

\* A harmless rule leaves the drop rule in charge, wherever it is inserted.
LEMMA ShieldedMore ==
    ASSUME NEW S, NEW f \in Seq(S), NEW g \in Seq(S), NEW q, NEW r, Extends(g, f, q, r),
           NEW n, NEW s, Shielded(f, n, s), Harmless(r, n, s)
    PROVE  Shielded(g, n, s)
<1>0. /\ q \in Nat \ {0} /\ DOMAIN f \subseteq Nat \ {0} /\ DOMAIN g \subseteq Nat \ {0}
      /\ Len(f) \in Nat /\ DOMAIN f = 1..Len(f) /\ Len(g) \in Nat /\ DOMAIN g = 1..Len(g)
  BY ChainDomains
<1>1. PICK k \in DOMAIN f :
        /\ f[k] = filter_rule("drop", n, s)
        /\ \A kind \in {"allow", "allow-local"} : \E i \in 1..(k - 1) : f[i] = filter_rule(kind, n, s)
        /\ \A i \in 1..(k - 1) : Harmless(f[i], n, s)
  BY DEF Shielded
<1>2. /\ \A i \in Nat : Shift(q, i) \in Nat
      /\ \A i, j \in Nat : Shift(q, i) < Shift(q, j) <=> i < j
  BY <1>0, ShiftOrder
<1> DEFINE kk == Shift(q, k)
<1>3. kk \in DOMAIN g /\ g[kk] = filter_rule("drop", n, s) /\ kk \in Nat
  BY <1>0, <1>1, <1>2 DEF Extends
<1>4. ASSUME NEW kind \in {"allow", "allow-local"}
      PROVE  \E j \in 1..(kk - 1) : g[j] = filter_rule(kind, n, s)
  <2>1. PICK i \in 1..(k - 1) : f[i] = filter_rule(kind, n, s)
    BY <1>1
  <2>2. i \in DOMAIN f /\ i < k /\ i \in Nat /\ k \in Nat
    BY <1>0
  <2>3. Shift(q, i) < kk /\ Shift(q, i) \in DOMAIN g /\ g[Shift(q, i)] = f[i]
    BY <1>2, <2>2 DEF Extends
  <2>4. Shift(q, i) \in 1..(kk - 1)
    BY <1>0, <1>3, <2>3
  <2> QED BY <2>1, <2>3, <2>4
<1>5. ASSUME NEW j \in 1..(kk - 1) PROVE Harmless(g[j], n, s)
  <2>0. j \in DOMAIN g /\ j < kk
    BY <1>0, <1>3
  <2>1. CASE j = q
    BY <2>1 DEF Extends
  <2>2. CASE j # q
    <3>1. PICK i \in DOMAIN f : j = Shift(q, i)
      BY <2>0, <2>2 DEF Extends
    <3>2. g[j] = f[i] /\ i \in Nat /\ k \in Nat
      BY <1>0, <3>1 DEF Extends
    <3>3. i < k
      BY <1>2, <2>0, <3>1, <3>2
    <3>4. i \in 1..(k - 1)
      BY <1>0, <3>2, <3>3
    <3> QED BY <1>1, <3>2, <3>4
  <2> QED BY <2>1, <2>2
<1> HIDE DEF kk
<1> QED BY <1>3, <1>4, <1>5 DEF Shielded

\* So does the deletion of a rule that is none of the network's three.
LEMMA ShieldedLess ==
    ASSUME NEW S, NEW f \in Seq(S), NEW g \in Seq(S), NEW q, NEW r, Extends(g, f, q, r),
           NEW n, NEW s, Shielded(g, n, s),
           \A kind \in {"allow", "allow-local", "drop"} : r # filter_rule(kind, n, s)
    PROVE  Shielded(f, n, s)
<1>0. /\ q \in Nat \ {0} /\ DOMAIN f \subseteq Nat \ {0} /\ DOMAIN g \subseteq Nat \ {0}
      /\ Len(f) \in Nat /\ DOMAIN f = 1..Len(f) /\ Len(g) \in Nat /\ DOMAIN g = 1..Len(g)
  BY ChainDomains
<1>1. PICK kk \in DOMAIN g :
        /\ g[kk] = filter_rule("drop", n, s)
        /\ \A kind \in {"allow", "allow-local"} : \E i \in 1..(kk - 1) : g[i] = filter_rule(kind, n, s)
        /\ \A i \in 1..(kk - 1) : Harmless(g[i], n, s)
  BY DEF Shielded
<1>2. \A i, j \in Nat : Shift(q, i) < Shift(q, j) <=> i < j
  BY <1>0, ShiftOrder
<1>3. PICK k \in DOMAIN f : kk = Shift(q, k)
  BY <1>1 DEF Extends
<1>4. f[k] = filter_rule("drop", n, s) /\ k \in Nat /\ kk \in Nat
  BY <1>0, <1>1, <1>3 DEF Extends
<1>5. ASSUME NEW kind \in {"allow", "allow-local"}
      PROVE  \E i \in 1..(k - 1) : f[i] = filter_rule(kind, n, s)
  <2>1. PICK j \in 1..(kk - 1) : g[j] = filter_rule(kind, n, s)
    BY <1>1
  <2>2. j \in DOMAIN g /\ j < kk
    BY <1>0
  <2>3. j # q
    BY <2>1 DEF Extends
  <2>4. PICK i \in DOMAIN f : j = Shift(q, i)
    BY <2>2, <2>3 DEF Extends
  <2>5. f[i] = filter_rule(kind, n, s) /\ i \in Nat
    BY <1>0, <2>1, <2>4 DEF Extends
  <2>6. i < k
    BY <1>2, <1>3, <1>4, <2>2, <2>4, <2>5
  <2>7. i \in 1..(k - 1)
    BY <1>0, <1>4, <2>6
  <2> QED BY <2>5, <2>7
<1>6. ASSUME NEW i \in 1..(k - 1) PROVE Harmless(f[i], n, s)
  <2>1. i \in DOMAIN f /\ i < k /\ i \in Nat
    BY <1>0, <1>4
  <2>2. Shift(q, i) < kk /\ Shift(q, i) \in DOMAIN g /\ g[Shift(q, i)] = f[i]
    BY <1>2, <1>3, <1>4, <2>1 DEF Extends
  <2>3. Shift(q, i) \in 1..(kk - 1)
    BY <1>0, <1>4, <2>2
  <2> QED BY <1>1, <2>2, <2>3
<1> QED BY <1>4, <1>5, <1>6 DEF Shielded

\* The same for the redirection of DNS queries.
LEMMA RedirectedMore ==
    ASSUME NEW S, NEW f \in Seq(S), NEW g \in Seq(S), NEW q, NEW r, Extends(g, f, q, r),
           NEW kind, NEW n, NEW pl, Redirected(f, kind, n, pl),
           r.kind = kind => r.plan.subnet # pl.subnet
    PROVE  Redirected(g, kind, n, pl)
<1>0. /\ q \in Nat \ {0} /\ DOMAIN f \subseteq Nat \ {0} /\ DOMAIN g \subseteq Nat \ {0}
      /\ Len(f) \in Nat /\ DOMAIN f = 1..Len(f) /\ Len(g) \in Nat /\ DOMAIN g = 1..Len(g)
  BY ChainDomains
<1>1. PICK k \in DOMAIN f :
        /\ f[k] = nat_rule(kind, n, pl)
        /\ \A i \in 1..(k - 1) : f[i].kind = kind => f[i].plan.subnet # pl.subnet
  BY DEF Redirected
<1>2. /\ \A i \in Nat : Shift(q, i) \in Nat
      /\ \A i, j \in Nat : Shift(q, i) < Shift(q, j) <=> i < j
  BY <1>0, ShiftOrder
<1> DEFINE kk == Shift(q, k)
<1>3. kk \in DOMAIN g /\ g[kk] = nat_rule(kind, n, pl) /\ kk \in Nat
  BY <1>0, <1>1, <1>2 DEF Extends
<1>4. ASSUME NEW j \in 1..(kk - 1), g[j].kind = kind PROVE g[j].plan.subnet # pl.subnet
  <2>0. j \in DOMAIN g /\ j < kk
    BY <1>0, <1>3
  <2>1. CASE j = q
    BY <1>4, <2>1 DEF Extends
  <2>2. CASE j # q
    <3>1. PICK i \in DOMAIN f : j = Shift(q, i)
      BY <2>0, <2>2 DEF Extends
    <3>2. g[j] = f[i] /\ i \in Nat /\ k \in Nat
      BY <1>0, <3>1 DEF Extends
    <3>3. i < k
      BY <1>2, <2>0, <3>1, <3>2
    <3>4. i \in 1..(k - 1)
      BY <1>0, <3>2, <3>3
    <3> QED BY <1>1, <1>4, <3>2, <3>4
  <2> QED BY <2>1, <2>2
<1> HIDE DEF kk
<1> QED BY <1>3, <1>4 DEF Redirected

LEMMA RedirectedLess ==
    ASSUME NEW S, NEW f \in Seq(S), NEW g \in Seq(S), NEW q, NEW r, Extends(g, f, q, r),
           NEW kind, NEW n, NEW pl, Redirected(g, kind, n, pl), r # nat_rule(kind, n, pl)
    PROVE  Redirected(f, kind, n, pl)
<1>0. /\ q \in Nat \ {0} /\ DOMAIN f \subseteq Nat \ {0} /\ DOMAIN g \subseteq Nat \ {0}
      /\ Len(f) \in Nat /\ DOMAIN f = 1..Len(f) /\ Len(g) \in Nat /\ DOMAIN g = 1..Len(g)
  BY ChainDomains
<1>1. PICK kk \in DOMAIN g :
        /\ g[kk] = nat_rule(kind, n, pl)
        /\ \A i \in 1..(kk - 1) : g[i].kind = kind => g[i].plan.subnet # pl.subnet
  BY DEF Redirected
<1>2. \A i, j \in Nat : Shift(q, i) < Shift(q, j) <=> i < j
  BY <1>0, ShiftOrder
<1>3. PICK k \in DOMAIN f : kk = Shift(q, k)
  BY <1>1 DEF Extends
<1>4. f[k] = nat_rule(kind, n, pl) /\ k \in Nat /\ kk \in Nat
  BY <1>0, <1>1, <1>3 DEF Extends
<1>5. ASSUME NEW i \in 1..(k - 1), f[i].kind = kind PROVE f[i].plan.subnet # pl.subnet
  <2>1. i \in DOMAIN f /\ i < k /\ i \in Nat
    BY <1>0, <1>4
  <2>2. Shift(q, i) < kk /\ Shift(q, i) \in DOMAIN g /\ g[Shift(q, i)] = f[i]
    BY <1>2, <1>3, <1>4, <2>1 DEF Extends
  <2>3. Shift(q, i) \in 1..(kk - 1)
    BY <1>0, <1>4, <2>2
  <2> QED BY <1>1, <1>5, <2>2, <2>3
<1> QED BY <1>4, <1>5 DEF Redirected

-----------------------------------------------------------------------------
(* Installing the rules of one network *)

\* The rule at hand, written out.
LEMMA ItemIs ==
    ASSUME TypeInv, NEW p \in Procs, proc[p].pc # "idle"
    PROVE  LET n == proc[p].name
               s == plan(p).subnet
               r == Item(p).rule
           IN  \/ proc[p].rule \in {1, 2, 3, 4} /\ Item(p).table = "filter" /\ Item(p).pos = proc[p].rule
                  /\ \/ proc[p].rule = 1 /\ r = established
                     \/ proc[p].rule = 2 /\ r = filter_rule("allow", n, s)
                     \/ proc[p].rule = 3 /\ r = filter_rule("allow-local", n, s)
                     \/ proc[p].rule = 4 /\ r = filter_rule("drop", n, s)
               \/ proc[p].rule \in {5, 6} /\ Item(p).table = "nat" /\ Item(p).pos = 1
                  /\ \/ proc[p].rule = 5 /\ r = nat_rule("dns-udp", n, plan(p))
                     \/ proc[p].rule = 6 /\ r = nat_rule("dns-tcp", n, plan(p))
<1> DEFINE L == RuleList(proc[p].name, plan(p))
<1>1. Item(p) = L[proc[p].rule]
  BY DEF Item
<1>2. /\ L[1] = [table |-> "filter", pos |-> 1, rule |-> established]
      /\ L[2] = [table |-> "filter", pos |-> 2, rule |-> filter_rule("allow", proc[p].name, plan(p).subnet)]
      /\ L[3] = [table |-> "filter", pos |-> 3, rule |-> filter_rule("allow-local", proc[p].name, plan(p).subnet)]
      /\ L[4] = [table |-> "filter", pos |-> 4, rule |-> filter_rule("drop", proc[p].name, plan(p).subnet)]
      /\ L[5] = [table |-> "nat", pos |-> 1, rule |-> nat_rule("dns-udp", proc[p].name, plan(p))]
      /\ L[6] = [table |-> "nat", pos |-> 1, rule |-> nat_rule("dns-tcp", proc[p].name, plan(p))]
  BY RuleItems
<1> HIDE DEF L
<1>3. proc[p].rule \in {1, 2, 3, 4, 5, 6}
  BY WorkType
<1> QED BY <1>1, <1>2, <1>3

\* The rules of the filter table differ from each other.
LEMMA FilterRulesDiffer ==
    ASSUME NEW n, NEW pl, NEW i \in 1..4, NEW j \in 1..4,
           RuleList(n, pl)[i].rule = RuleList(n, pl)[j].rule
    PROVE  i = j
<1> DEFINE L == RuleList(n, pl)
<1>1. /\ L[1] = [table |-> "filter", pos |-> 1, rule |-> established]
      /\ L[2] = [table |-> "filter", pos |-> 2, rule |-> filter_rule("allow", n, pl.subnet)]
      /\ L[3] = [table |-> "filter", pos |-> 3, rule |-> filter_rule("allow-local", n, pl.subnet)]
      /\ L[4] = [table |-> "filter", pos |-> 4, rule |-> filter_rule("drop", n, pl.subnet)]
  BY RuleItems
<1> HIDE DEF L
<1>2. /\ L[1].rule.kind = "established" /\ L[2].rule.kind = "allow"
      /\ L[3].rule.kind = "allow-local" /\ L[4].rule.kind = "drop"
  BY <1>1 DEF established, filter_rule
<1>3. i \in {1, 2, 3, 4} /\ j \in {1, 2, 3, 4}
  OBVIOUS
<1>4. L[i].rule.kind = L[j].rule.kind
  BY DEF L
<1> QED BY <1>2, <1>3, <1>4

\* While a network's rules are installed, every prepared network is another
\* one with another subnet: the rule at hand is not one of its own, and
\* decides nothing about it.
LEMMA ForeignRule ==
    ASSUME IInv, NEW p \in Procs, proc[p].pc \in {"delete", "insert"}, NEW m \in firewalled
    PROVE  LET r == Item(p).rule IN
           /\ Item(p).table = "filter" =>
                /\ Harmless(r, m, net[m].subnet)
                /\ \A kind \in {"allow", "allow-local", "drop"} : r # filter_rule(kind, m, net[m].subnet)
           /\ Item(p).table = "nat" =>
                /\ r.plan.subnet # net[m].subnet
                /\ \A kind \in {"dns-udp", "dns-tcp"} : r # nat_rule(kind, m, net[m])
<1>1. TypeInv /\ Installs(p) /\ m \in DOMAIN net /\ proc[p].pc # "idle"
  BY DEF IInv, TypeInv, TypeOK
<1>2. m # proc[p].name /\ net[m].subnet # plan(p).subnet
  BY <1>1 DEF Installs
<1>3. \A kind, n, s : filter_rule(kind, n, s).kind = kind /\ filter_rule(kind, n, s).name = n
                      /\ filter_rule(kind, n, s).subnet = s
  BY DEF filter_rule
<1>4. \A kind, n, pl : nat_rule(kind, n, pl).name = n /\ nat_rule(kind, n, pl).plan = pl
  BY DEF nat_rule
<1>5. established.kind = "established"
  BY DEF established
<1>6. CASE proc[p].rule \in {1, 2, 3, 4}
  <2>1. \/ Item(p).rule = established
        \/ \E kind \in {"allow", "allow-local", "drop"} :
             Item(p).rule = filter_rule(kind, proc[p].name, plan(p).subnet)
    BY <1>1, <1>6, ItemIs
  <2>2. Item(p).table = "filter"
    BY <1>1, <1>6, ItemIs
  <2> QED BY <1>2, <1>3, <1>5, <2>1, <2>2 DEF Harmless
<1>7. CASE proc[p].rule \in {5, 6}
  <2>1. \E kind \in {"dns-udp", "dns-tcp"} : Item(p).rule = nat_rule(kind, proc[p].name, plan(p))
    BY <1>1, <1>7, ItemIs
  <2>2. Item(p).table = "nat"
    BY <1>1, <1>7, ItemIs
  <2> QED BY <1>2, <1>4, <2>1, <2>2
<1>8. proc[p].rule \in {1, 2, 3, 4, 5, 6}
  BY <1>1, WorkType
<1> QED BY <1>6, <1>7, <1>8

\* The rules of prepared networks in a state of the chains.
Stand(ch) ==
    \A m \in firewalled :
        /\ Shielded(ch["filter"], m, net[m].subnet)
        /\ Redirected(ch["nat"], "dns-udp", m, net[m])
        /\ Redirected(ch["nat"], "dns-tcp", m, net[m])

\* The rules that may be there twice.
Exempt(t) == {return} \cup {r \in FilterRule \cup NatRule : <<t, r>> \in leftover}

Different(ch) == \A t \in Tables : AllDifferent(ch[t], Exempt(t))

\* The first k rules of a list are on top of the filter table.
OnTop(f, L, k) == \A i \in 1..4 : i <= k => i <= Len(f) /\ f[i] = L[i].rule

LEMMA ExemptIs ==
    ASSUME TypeInv, NEW t, NEW r
    PROVE  r \in Exempt(t) <=> r = return \/ <<t, r>> \in leftover
  BY DEF TypeInv, TypeOK, Exempt

LEMMA InvParts ==
    ASSUME IInv
    PROVE  /\ TypeInv /\ ChainOK(chain) /\ Stand(chain) /\ Different(chain)
           /\ \A p \in Procs : proc[p].pc \in {"delete", "insert"} => Installs(p)
<1>1. TypeInv /\ ChainOK(chain) /\ Stand(chain)
  BY DEF IInv, TypeInv, TypeOK, ChainOK, RulesStand, Stand
<1>2. Different(chain)
  BY <1>1, ExemptIs DEF IInv, NoDuplicateRule, Different, AllDifferent
<1> QED BY <1>1, <1>2 DEF IInv

\* The chains between two commands: one of them has lost a copy of the rule.
LEMMA DeleteKeeps ==
    ASSUME IInv, NEW p \in Procs, proc[p].pc = "delete",
           has_rule(chain[Item(p).table], Item(p).rule),
           chain' = [chain EXCEPT ![Item(p).table] = delete_rule(chain[Item(p).table], Item(p).rule)]
    PROVE  /\ Stand(chain') /\ Different(chain')
           /\ OnTop(chain'["filter"], RuleList(proc[p].name, plan(p)), proc[p].rule - 1)
           /\ proc[p].rule = 6 => Redirected(chain'["nat"], "dns-udp", proc[p].name, plan(p))
<1> DEFINE r == Item(p).rule
           L == RuleList(proc[p].name, plan(p))
<1>0. /\ TypeInv /\ ChainOK(chain) /\ Stand(chain) /\ Different(chain) /\ Installs(p)
      /\ proc[p].pc # "idle" /\ proc[p].rule \in {1, 2, 3, 4, 5, 6}
  BY InvParts, WorkType
<1>1. /\ \A i \in 1..4 : i < proc[p].rule => i <= Len(chain["filter"]) /\ chain["filter"][i] = L[i].rule
      /\ proc[p].rule = 6 => Redirected(chain["nat"], "dns-udp", proc[p].name, plan(p))
  BY <1>0 DEF Installs, NumRules
<1>2. CASE proc[p].rule \in {1, 2, 3, 4}
  <2> DEFINE f == chain["filter"]
             g == delete_rule(f, r)
  <2>00. r = L[proc[p].rule].rule
    BY DEF Item
  <2>0. Item(p).table = "filter" /\ r = L[proc[p].rule].rule
    BY <1>0, <1>2, <2>00, ItemIs
  <2>1. f \in Seq(FilterRule) /\ has_rule(f, r)
    BY <1>0, <2>0 DEF ChainOK
  <2>2. g \in Seq(FilterRule)
    BY <2>1, DeleteExtends
  <2>3. PICK q \in DOMAIN f : f[q] = r /\ Extends(f, g, q, r)
    BY <2>1, DeleteExtends
  <2>4. DOMAIN chain = Tables /\ chain' = [chain EXCEPT !["filter"] = g]
    BY <1>0, <2>0 DEF ChainOK
  <2> HIDE DEF f, g, r, L
  <2>5. chain'["filter"] = g /\ chain'["nat"] = chain["nat"] /\ chain["filter"] = f
    BY <2>4 DEF Tables, f
  <2>6. ASSUME NEW m \in firewalled PROVE Shielded(g, m, net[m].subnet)
    <3>1. Shielded(f, m, net[m].subnet)
      BY <1>0, <2>5 DEF Stand
    <3>2. \A kind \in {"allow", "allow-local", "drop"} : r # filter_rule(kind, m, net[m].subnet)
      BY <2>0, ForeignRule DEF r
    <3> QED BY <2>1, <2>2, <2>3, <3>1, <3>2, ShieldedLess
  <2>7. Stand(chain')
    BY <1>0, <2>5, <2>6 DEF Stand
  <2>8. AllDifferent(g, Exempt("filter"))
    <3>1. AllDifferent(f, Exempt("filter"))
      BY <1>0, <2>5 DEF Different, Tables
    <3> QED BY <2>1, <2>2, <2>3, <3>1, DifferentExtended
  <2>9. Different(chain')
    BY <1>0, <2>5, <2>8 DEF Different, Tables
  <2>10. OnTop(chain'["filter"], L, proc[p].rule - 1)
    <3>1. q \in Nat \ {0} /\ Len(f) \in Nat /\ Len(g) \in Nat /\ DOMAIN f = 1..Len(f)
      BY <2>1, <2>2, <2>3, ChainDomains
    <3>2. ~(q < proc[p].rule)
      <4> SUFFICES ASSUME q < proc[p].rule PROVE FALSE
        OBVIOUS
      <4>1. q \in 1..4 /\ proc[p].rule \in 1..4 /\ q # proc[p].rule
        BY <1>2, <3>1
      <4>2. L[q].rule = L[proc[p].rule].rule
        BY <1>1, <2>0, <2>3, <2>5, <4>1
      <4> QED BY <4>1, <4>2, FilterRulesDiffer DEF L
    <3>3. ASSUME NEW i \in 1..4, i <= proc[p].rule - 1 PROVE i <= Len(g) /\ g[i] = L[i].rule
      <4>1. i < proc[p].rule /\ i \in 1..(q - 1)
        BY <1>2, <3>1, <3>2, <3>3
      <4>2. i <= Len(f) /\ f[i] = L[i].rule
        BY <1>1, <2>5, <4>1
      <4>3. (i <= Len(g) <=> i <= Len(f)) /\ (i <= Len(g) => g[i] = f[i])
        BY <2>1, <2>2, <2>3, <4>1, TopKept
      <4> QED BY <4>2, <4>3
    <3> QED BY <2>5, <3>3 DEF OnTop
  <2> QED BY <1>2, <2>7, <2>9, <2>10 DEF L
<1>3. CASE proc[p].rule \in {5, 6}
  <2> DEFINE f == chain["nat"]
             g == delete_rule(f, r)
  <2>0. Item(p).table = "nat" /\ (proc[p].rule = 6 => r = nat_rule("dns-tcp", proc[p].name, plan(p)))
    BY <1>0, <1>3, ItemIs
  <2>1. f \in Seq(NatRule) /\ has_rule(f, r)
    BY <1>0, <2>0 DEF ChainOK
  <2>2. g \in Seq(NatRule)
    BY <2>1, DeleteExtends
  <2>3. PICK q \in DOMAIN f : f[q] = r /\ Extends(f, g, q, r)
    BY <2>1, DeleteExtends
  <2>4. DOMAIN chain = Tables /\ chain' = [chain EXCEPT !["nat"] = g]
    BY <1>0, <2>0 DEF ChainOK
  <2> HIDE DEF f, g, r, L
  <2>5. chain'["nat"] = g /\ chain'["filter"] = chain["filter"] /\ chain["nat"] = f
    BY <2>4 DEF Tables, f
  <2>6. ASSUME NEW m \in firewalled, NEW kind \in {"dns-udp", "dns-tcp"} PROVE Redirected(g, kind, m, net[m])
    <3>1. Redirected(f, kind, m, net[m])
      BY <1>0, <2>5 DEF Stand
    <3>2. r # nat_rule(kind, m, net[m])
      BY <2>0, ForeignRule DEF r
    <3> QED BY <2>1, <2>2, <2>3, <3>1, <3>2, RedirectedLess
  <2>7. Stand(chain')
    BY <1>0, <2>5, <2>6 DEF Stand
  <2>8. AllDifferent(g, Exempt("nat"))
    <3>1. AllDifferent(f, Exempt("nat"))
      BY <1>0, <2>5 DEF Different, Tables
    <3> QED BY <2>1, <2>2, <2>3, <3>1, DifferentExtended
  <2>9. Different(chain')
    BY <1>0, <2>5, <2>8 DEF Different, Tables
  <2>10. OnTop(chain'["filter"], L, proc[p].rule - 1)
    BY <1>1, <1>3, <2>5 DEF OnTop
  <2>11. ASSUME proc[p].rule = 6 PROVE Redirected(g, "dns-udp", proc[p].name, plan(p))
    <3>1. r # nat_rule("dns-udp", proc[p].name, plan(p))
      BY <2>0, <2>11 DEF nat_rule
    <3>2. Redirected(f, "dns-udp", proc[p].name, plan(p))
      BY <1>1, <2>5, <2>11
    <3> QED BY <2>1, <2>2, <2>3, <3>1, <3>2, RedirectedLess
  <2> QED BY <2>5, <2>7, <2>9, <2>10, <2>11 DEF L
<1> QED BY <1>0, <1>2, <1>3

\* One of them has the rule at the position it asks for.
LEMMA InsertKeeps ==
    ASSUME IInv, NEW p \in Procs, proc[p].pc = "insert", insert_succeeds(p),
           chain' = [chain EXCEPT ![Item(p).table] = placed(chain[Item(p).table], Item(p))]
    PROVE  /\ Stand(chain') /\ Different(chain')
           /\ OnTop(chain'["filter"], RuleList(proc[p].name, plan(p)), proc[p].rule)
           /\ proc[p].rule \in {5, 6} => Redirected(chain'["nat"], "dns-udp", proc[p].name, plan(p))
           /\ proc[p].rule = 6 => Redirected(chain'["nat"], "dns-tcp", proc[p].name, plan(p))
<1> DEFINE r == Item(p).rule
           L == RuleList(proc[p].name, plan(p))
<1>0. /\ TypeInv /\ ChainOK(chain) /\ Stand(chain) /\ Different(chain) /\ Installs(p)
      /\ proc[p].pc # "idle" /\ proc[p].rule \in {1, 2, 3, 4, 5, 6}
  BY InvParts, WorkType
<1>1. /\ \A i \in 1..4 : i < proc[p].rule => i <= Len(chain["filter"]) /\ chain["filter"][i] = L[i].rule
      /\ proc[p].rule = 6 => Redirected(chain["nat"], "dns-udp", proc[p].name, plan(p))
      /\ ~has_rule(chain[Item(p).table], r) \/ r \in Exempt(Item(p).table)
  BY <1>0, ExemptIs DEF Installs, NumRules, Copy
<1>2. CASE proc[p].rule \in {1, 2, 3, 4}
  <2> DEFINE f == chain["filter"]
             q == proc[p].rule
             g == insert_rule(f, q, r)
  <2>00. r = L[proc[p].rule].rule
    BY DEF Item
  <2>0. Item(p).table = "filter" /\ Item(p).pos = proc[p].rule /\ r = L[proc[p].rule].rule
    BY <1>0, <1>2, <2>00, ItemIs
  <2>1. f \in Seq(FilterRule) /\ r \in FilterRule /\ can_insert(f, q) /\ q \in Nat \ {0}
        /\ (~has_rule(f, r) \/ r \in Exempt("filter"))
    BY <1>0, <1>1, <1>2, <2>0, ItemType DEF ChainOK, insert_succeeds
  <2>2. g \in Seq(FilterRule) /\ Extends(g, f, q, r)
    BY <2>1, InsertExtends
  <2>4. DOMAIN chain = Tables /\ chain' = [chain EXCEPT !["filter"] = g]
    BY <1>0, <2>0 DEF ChainOK, placed
  <2> HIDE DEF f, g, r, L
  <2>5. chain'["filter"] = g /\ chain'["nat"] = chain["nat"] /\ chain["filter"] = f
    BY <2>4 DEF Tables, f
  <2>6. ASSUME NEW m \in firewalled PROVE Shielded(g, m, net[m].subnet)
    <3>1. Shielded(f, m, net[m].subnet)
      BY <1>0, <2>5 DEF Stand
    <3>2. Harmless(r, m, net[m].subnet)
      BY <2>0, ForeignRule DEF r
    <3> QED BY <2>1, <2>2, <3>1, <3>2, ShieldedMore
  <2>7. Stand(chain')
    BY <1>0, <2>5, <2>6 DEF Stand
  <2>8. AllDifferent(g, Exempt("filter"))
    <3>1. AllDifferent(f, Exempt("filter"))
      BY <1>0, <2>5 DEF Different, Tables
    <3> QED BY <2>1, <2>2, <3>1, DifferentExtended
  <2>9. Different(chain')
    BY <1>0, <2>5, <2>8 DEF Different, Tables
  <2>10. OnTop(chain'["filter"], L, proc[p].rule)
    <3>1. Len(f) \in Nat /\ Len(g) \in Nat /\ DOMAIN g = 1..Len(g)
      BY <2>1, <2>2, ChainDomains
    <3>3. ASSUME NEW i \in 1..4, i <= proc[p].rule PROVE i <= Len(g) /\ g[i] = L[i].rule
      <4>1. CASE i = proc[p].rule
        <5>1. q \in DOMAIN g /\ g[q] = r
          BY <2>2 DEF Extends
        <5> QED BY <2>0, <3>1, <4>1, <5>1
      <4>2. CASE i # proc[p].rule
        <5>1. i < proc[p].rule /\ i \in 1..(q - 1)
          BY <1>2, <3>3, <4>2
        <5>2. i <= Len(f) /\ f[i] = L[i].rule
          BY <1>1, <2>5, <5>1
        <5>3. (i <= Len(f) <=> i <= Len(g)) /\ (i <= Len(f) => f[i] = g[i])
          BY <2>1, <2>2, <5>1, TopKept
        <5> QED BY <5>2, <5>3
      <4> QED BY <4>1, <4>2
    <3> QED BY <2>5, <3>3 DEF OnTop
  <2> QED BY <1>2, <2>7, <2>9, <2>10 DEF L
<1>3. CASE proc[p].rule \in {5, 6}
  <2> DEFINE f == chain["nat"]
             g == insert_rule(f, 1, r)
  <2>0. /\ Item(p).table = "nat" /\ Item(p).pos = 1
        /\ proc[p].rule = 5 => r = nat_rule("dns-udp", proc[p].name, plan(p))
        /\ proc[p].rule = 6 => r = nat_rule("dns-tcp", proc[p].name, plan(p))
    BY <1>0, <1>3, ItemIs
  <2>1. f \in Seq(NatRule) /\ r \in NatRule /\ can_insert(f, 1)
        /\ (~has_rule(f, r) \/ r \in Exempt("nat"))
    BY <1>0, <1>1, <1>3, <2>0, ItemType DEF ChainOK, insert_succeeds
  <2>2. g \in Seq(NatRule) /\ Extends(g, f, 1, r)
    BY <2>1, InsertExtends
  <2>4. DOMAIN chain = Tables /\ chain' = [chain EXCEPT !["nat"] = g]
    BY <1>0, <2>0 DEF ChainOK, placed
  <2> HIDE DEF f, g, r, L
  <2>5. chain'["nat"] = g /\ chain'["filter"] = chain["filter"] /\ chain["nat"] = f
    BY <2>4 DEF Tables, f
  <2>6. ASSUME NEW m \in firewalled, NEW kind \in {"dns-udp", "dns-tcp"} PROVE Redirected(g, kind, m, net[m])
    <3>1. Redirected(f, kind, m, net[m])
      BY <1>0, <2>5 DEF Stand
    <3>2. r.plan.subnet # net[m].subnet
      BY <2>0, ForeignRule DEF r
    <3> QED BY <2>1, <2>2, <3>1, <3>2, RedirectedMore
  <2>7. Stand(chain')
    BY <1>0, <2>5, <2>6 DEF Stand
  <2>8. AllDifferent(g, Exempt("nat"))
    <3>1. AllDifferent(f, Exempt("nat"))
      BY <1>0, <2>5 DEF Different, Tables
    <3> QED BY <2>1, <2>2, <3>1, DifferentExtended
  <2>9. Different(chain')
    BY <1>0, <2>5, <2>8 DEF Different, Tables
  <2>10. OnTop(chain'["filter"], L, proc[p].rule)
    BY <1>1, <1>3, <2>5 DEF OnTop
  <2>11. ASSUME NEW kind, r = nat_rule(kind, proc[p].name, plan(p))
         PROVE  Redirected(g, kind, proc[p].name, plan(p))
    BY <2>2, <2>11 DEF Redirected, Extends
  <2>12. ASSUME proc[p].rule = 6 PROVE Redirected(g, "dns-udp", proc[p].name, plan(p))
    <3>1. r.kind # "dns-udp"
      BY <2>0, <2>12 DEF nat_rule
    <3>2. Redirected(f, "dns-udp", proc[p].name, plan(p))
      BY <1>1, <2>5, <2>12
    <3> QED BY <2>1, <2>2, <3>1, <3>2, RedirectedMore
  <2> QED BY <1>3, <2>0, <2>5, <2>7, <2>9, <2>10, <2>11, <2>12 DEF L
<1> QED BY <1>0, <1>2, <1>3
-----------------------------------------------------------------------------
(* The invariant of preparations that do not overlap *)

\* Initially no network is prepared, and the chain holds at most copies of
\* the rule that is exempt.
LEMMA InitInv == Init => IInv
<1> SUFFICES ASSUME Init PROVE IInv
  OBVIOUS
<1>1. TypeInv
  BY InitType
<1>2. RulesStand
  BY DEF Init, RulesStand
<1>3. NoDuplicateRule
  <2>1. \A i \in DOMAIN InitialChain : InitialChain[i] = return
    <3>1. DOMAIN InitialChain = 1..Len(InitialChain)
      BY DockerAssumption, LenProperties
    <3> QED BY <3>1, DockerAssumption, ElementOfSeq
  <2>2. chain["filter"] = InitialChain /\ chain["nat"] = <<>>
    BY DEF Init, Tables
  <2>3. \A i \in DOMAIN chain["nat"] : FALSE
    BY <2>2
  <2> QED BY <2>1, <2>2, <2>3 DEF NoDuplicateRule, Tables
<1>4. \A p \in Procs : proc[p].pc = "idle"
  BY DEF Init, Idle
<1> QED BY <1>1, <1>2, <1>3, <1>4 DEF IInv

\* Rules that stand still do while the chains are left alone and no network
\* is counted as prepared that was not.
LEMMA StandKept ==
    ASSUME IInv, UNCHANGED <<chain, leftover>>, firewalled' \subseteq firewalled,
           \A m \in firewalled' : net'[m] = net[m]
    PROVE  RulesStand' /\ NoDuplicateRule'
  BY DEF IInv, RulesStand, NoDuplicateRule

\* A process that installs nothing after its step has nothing to keep.
LEMMA NothingInstalled ==
    ASSUME OneProc, NEW p \in Procs, proc'[p].pc \notin {"delete", "insert"}
    PROVE  \A q \in Procs : proc'[q].pc \in {"delete", "insert"} => Installs(q)'
  BY DEF OneProc

\* Where a step takes its process.
LEMMA GoesTo ==
    ASSUME TypeInv, NEW p \in Procs
    PROVE  /\ \A pc : goto(p, pc) =>
                /\ proc'[p].pc = pc /\ proc'[p].name = proc[p].name
                /\ proc'[p].attempt = proc[p].attempt /\ proc'[p].rule = proc[p].rule
           /\ attempt_fails(p) => proc'[p].pc \in {"destroy", "idle"}
           /\ proc' = [proc EXCEPT ![p] = Idle] => proc'[p].pc = "idle"
<1>0. proc \in [Procs -> Process]
  BY DEF TypeInv, TypeOK
<1>1. ASSUME NEW pc, goto(p, pc)
      PROVE  /\ proc'[p].pc = pc /\ proc'[p].name = proc[p].name
             /\ proc'[p].attempt = proc[p].attempt /\ proc'[p].rule = proc[p].rule
  BY <1>0, <1>1 DEF goto, Process
<1>2. ASSUME attempt_fails(p) PROVE proc'[p].pc \in {"destroy", "idle"}
  BY <1>0, <1>2 DEF attempt_fails, Idle, Process
<1>3. ASSUME proc' = [proc EXCEPT ![p] = Idle] PROVE proc'[p].pc = "idle"
  BY <1>0, <1>3 DEF Idle
<1> QED BY <1>1, <1>2, <1>3

\* The steps that leave the chains alone.
LEMMA OtherStepInv ==
    ASSUME OneProc, IInv, NEW p \in Procs,
           \/ prepare_docker_network(p) \/ destroy_ipsets(p) \/ create_ipsets(p)
           \/ remove_docker_network(p) \/ send_create(p) \/ run_command_checked_fails(p) \/ killed(p)
    PROVE  /\ RulesStand' /\ NoDuplicateRule'
           /\ \A q \in Procs : proc'[q].pc \in {"delete", "insert"} => Installs(q)'
<1>0. TypeInv /\ proc \in [Procs -> Process]
  BY DEF IInv, TypeInv, TypeOK
<1>1. proc'[p].pc \notin {"delete", "insert"}
  <2>1. CASE prepare_docker_network(p)
    BY <1>0, <2>1 DEF prepare_docker_network
  <2>2. CASE destroy_ipsets(p) \/ create_ipsets(p) \/ remove_docker_network(p)
    BY <1>0, <2>2, GoesTo DEF destroy_ipsets, create_ipsets, remove_docker_network
  <2>3. CASE send_create(p) \/ run_command_checked_fails(p) \/ killed(p)
    BY <1>0, <2>3, GoesTo DEF send_create, run_command_checked_fails, killed
  <2> QED BY <2>1, <2>2, <2>3
<1>2. UNCHANGED <<chain, leftover>> /\ firewalled' \subseteq firewalled
  BY DEF prepare_docker_network, destroy_ipsets, create_ipsets, remove_docker_network, rm, send_create,
         run_command_checked_fails, killed
<1>3. \A m \in firewalled' : net'[m] = net[m]
  <2>1. CASE remove_docker_network(p)
    BY <2>1, <1>0 DEF remove_docker_network, rm, TypeInv, TypeOK
  <2>2. CASE ~remove_docker_network(p)
    BY <2>2 DEF prepare_docker_network, destroy_ipsets, create_ipsets, send_create,
                run_command_checked_fails, killed
  <2> QED BY <2>1, <2>2
<1> QED BY <1>1, <1>2, <1>3, StandKept, NothingInstalled

\* A new network has a subnet that no other has.
LEMMA CreateInv ==
    ASSUME OneProc, IInv, NEW p \in Procs, create_docker_network(p)
    PROVE  /\ RulesStand' /\ NoDuplicateRule'
           /\ \A q \in Procs : proc'[q].pc \in {"delete", "insert"} => Installs(q)'
<1>0. TypeInv /\ firewalled \subseteq DOMAIN net /\ proc[p].rule = 1
  BY DEF IInv, TypeInv, TypeOK, create_docker_network
<1>1. UNCHANGED <<chain, leftover, firewalled>>
  BY DEF create_docker_network
<1>2. CASE taken(p)
  <2>1. UNCHANGED net /\ attempt_fails(p)
    BY <1>2 DEF create_docker_network
  <2>2. proc'[p].pc \notin {"delete", "insert"}
    BY <1>0, <2>1, GoesTo
  <2> QED BY <1>1, <2>1, <2>2, StandKept, NothingInstalled
<1>3. CASE ~taken(p)
  <2>1. /\ net' = [n \in DOMAIN net \cup {proc[p].name} |-> IF n = proc[p].name THEN plan(p) ELSE net[n]]
        /\ goto(p, "delete")
    BY <1>3 DEF create_docker_network
  <2>2. proc[p].name \notin DOMAIN net /\ \A n \in DOMAIN net : net[n].subnet # plan(p).subnet
    BY <1>3 DEF taken
  <2>3. \A m \in firewalled' : net'[m] = net[m]
    BY <1>0, <1>1, <2>1, <2>2
  <2>4. proc'[p].pc = "delete" /\ proc'[p].name = proc[p].name /\ proc'[p].attempt = proc[p].attempt
        /\ proc'[p].rule = 1
    BY <1>0, <2>1, GoesTo
  <2>5. plan(p)' = plan(p)
    BY <2>4 DEF plan
  <2>6. Installs(p)'
    <3>1. proc'[p].name \notin firewalled'
      BY <1>0, <1>1, <2>2, <2>4
    <3>2. \A m \in DOMAIN net' : m = proc[p].name \/ net'[m].subnet = plan(p).subnet =>
            m = proc[p].name /\ net'[m] = plan(p)
      BY <2>1, <2>2
    <3>3. \A i \in 1..4 : ~(i < proc'[p].rule)
      BY <2>4
    <3> QED BY <2>4, <2>5, <3>1, <3>2, <3>3 DEF Installs, NumRules
  <2>7. \A q \in Procs : q = p
    BY DEF OneProc
  <2> QED BY <1>1, <2>3, <2>6, <2>7, StandKept
<1> QED BY <1>2, <1>3

\* A user removes a network, perhaps one whose rules are being installed.
LEMMA RmInv ==
    ASSUME IInv, NEW n \in Names, docker_network_rm(n)
    PROVE  /\ RulesStand' /\ NoDuplicateRule'
           /\ \A q \in Procs : proc'[q].pc \in {"delete", "insert"} => Installs(q)'
<1>0. firewalled \subseteq DOMAIN net
  BY DEF IInv, TypeInv, TypeOK
<1>1. /\ UNCHANGED <<chain, leftover, proc>> /\ firewalled' \subseteq firewalled /\ DOMAIN net' \subseteq DOMAIN net
      /\ \A m \in DOMAIN net' : net'[m] = net[m]
      /\ firewalled' \subseteq DOMAIN net'
  BY <1>0 DEF docker_network_rm, rm
<1>2. \A m \in firewalled' : net'[m] = net[m]
  BY <1>1
<1>3. ASSUME NEW q \in Procs, proc'[q].pc \in {"delete", "insert"} PROVE Installs(q)'
  <2>1. Installs(q)
    BY <1>1, <1>3 DEF IInv
  <2>2. plan(q)' = plan(q) /\ Item(q)' = Item(q) /\ Copy(q)' = Copy(q)
    BY <1>1 DEF plan, Item, Copy
  <2> QED BY <1>1, <2>1, <2>2 DEF Installs
<1> QED BY <1>1, <1>2, <1>3, StandKept

\* Copies of the rule at hand go, and then it is time to insert it.
LEMMA RemoveRuleInv ==
    ASSUME OneProc, IInv, NEW p \in Procs, remove_rule_all(p)
    PROVE  /\ RulesStand' /\ NoDuplicateRule'
           /\ \A q \in Procs : proc'[q].pc \in {"delete", "insert"} => Installs(q)'
<1>0. proc[p].pc = "delete" /\ TypeInv /\ Installs(p) /\ UNCHANGED <<net, firewalled>>
  BY DEF IInv, remove_rule_all
<1>1. \A q \in Procs : q = p
  BY DEF OneProc
<1>2. CASE UNCHANGED <<proc, leftover, faults>>
  <2>1. /\ UNCHANGED <<proc, leftover>> /\ has_rule(chain[Item(p).table], Item(p).rule)
        /\ chain' = [chain EXCEPT ![Item(p).table] = delete_rule(chain[Item(p).table], Item(p).rule)]
    <3>1. ~goto(p, "insert")
      BY <1>0, <1>2, GoesTo
    <3> QED BY <1>2, <3>1 DEF remove_rule_all
  <2>2. /\ Stand(chain') /\ Different(chain')
        /\ OnTop(chain'["filter"], RuleList(proc[p].name, plan(p)), proc[p].rule - 1)
        /\ proc[p].rule = 6 => Redirected(chain'["nat"], "dns-udp", proc[p].name, plan(p))
    BY <1>0, <2>1, DeleteKeeps
  <2>3. RulesStand' /\ NoDuplicateRule'
    BY <1>0, <2>1, <2>2, ExemptIs DEF RulesStand, Stand, NoDuplicateRule, Different, AllDifferent
  <2>4. plan(p)' = plan(p) /\ proc'[p].pc # "insert"
    BY <1>0, <2>1 DEF plan
  <2>5. \A i \in 1..4 : i < proc[p].rule =>
            i <= Len(chain'["filter"]) /\ chain'["filter"][i] = RuleList(proc[p].name, plan(p))[i].rule
    <3>1. proc[p].rule \in {1, 2, 3, 4, 5, 6}
      BY <1>0, WorkType
    <3>2. \A i \in 1..4 : i < proc[p].rule => i <= proc[p].rule - 1
      BY <3>1
    <3> QED BY <2>2, <3>2 DEF OnTop
  <2>6. Installs(p)'
    BY <1>0, <2>1, <2>2, <2>4, <2>5 DEF Installs, NumRules
  <2> QED BY <1>1, <2>3, <2>6
<1>3. CASE /\ goto(p, "insert") /\ UNCHANGED chain
           /\ \/ ~has_rule(chain[Item(p).table], Item(p).rule) /\ leftover' = leftover \ {Copy(p)}
              \/ leftover' = leftover \cup {Copy(p)}
  <2>1. UNCHANGED chain /\ goto(p, "insert")
    BY <1>3
  <2>2. RulesStand' /\ NoDuplicateRule'
    <3>1. RulesStand'
      BY <1>0, <2>1 DEF IInv, RulesStand
    <3>2. ASSUME NEW t \in Tables, NEW i \in DOMAIN chain[t], NEW j \in DOMAIN chain[t],
                 chain[t][i] = chain[t][j], i # j, chain[t][i] # return
          PROVE  <<t, chain[t][i]>> \in leftover'
      <4>1. <<t, chain[t][i]>> \in leftover
        BY <3>2 DEF IInv, NoDuplicateRule
      <4>2. CASE leftover' = leftover \cup {Copy(p)}
        BY <4>1, <4>2
      <4>3. CASE ~has_rule(chain[Item(p).table], Item(p).rule) /\ leftover' = leftover \ {Copy(p)}
        BY <4>1, <4>3 DEF Copy, has_rule
      <4> QED BY <1>3, <4>2, <4>3
    <3> QED BY <2>1, <3>1, <3>2 DEF NoDuplicateRule
  <2>3. proc'[p].pc = "insert" /\ proc'[p].name = proc[p].name /\ proc'[p].attempt = proc[p].attempt
        /\ proc'[p].rule = proc[p].rule
    BY <1>0, <2>1, GoesTo
  <2>4. plan(p)' = plan(p)
    BY <2>3 DEF plan
  <2>5. Item(p)' = Item(p) /\ Copy(p)' = Copy(p)
    BY <2>3, <2>4 DEF Item, Copy
  <2>6. ~has_rule(chain[Item(p).table], Item(p).rule) \/ Copy(p) \in leftover'
    BY <1>3
  <2>7. Installs(p)'
    BY <1>0, <2>1, <2>3, <2>4, <2>5, <2>6 DEF Installs
  <2> QED BY <1>1, <2>2, <2>7
<1> QED BY <1>2, <1>3 DEF remove_rule_all

\* The rule at hand is inserted; after the last one the network is prepared.
LEMMA EnsureRuleInv ==
    ASSUME OneProc, IInv, NEW p \in Procs, ensure_rule_present(p)
    PROVE  /\ RulesStand' /\ NoDuplicateRule'
           /\ \A q \in Procs : proc'[q].pc \in {"delete", "insert"} => Installs(q)'
<1>0. /\ proc[p].pc = "insert" /\ TypeInv /\ Installs(p) /\ UNCHANGED <<net, leftover>>
      /\ proc \in [Procs -> Process] /\ firewalled \subseteq DOMAIN net
  BY DEF IInv, TypeInv, TypeOK, ensure_rule_present
<1>1. \A q \in Procs : q = p
  BY DEF OneProc
<1>2. CASE ~insert_succeeds(p)
  <2>1. attempt_fails(p) /\ UNCHANGED <<chain, firewalled>>
    BY <1>2 DEF ensure_rule_present
  <2>2. proc'[p].pc \notin {"delete", "insert"}
    BY <1>0, <2>1, GoesTo
  <2> QED BY <1>0, <2>1, <2>2, StandKept, NothingInstalled
<1>3. CASE insert_succeeds(p)
  <2>1. chain' = [chain EXCEPT ![Item(p).table] = placed(chain[Item(p).table], Item(p))]
    BY <1>3 DEF ensure_rule_present
  <2>2. /\ Stand(chain') /\ Different(chain')
        /\ OnTop(chain'["filter"], RuleList(proc[p].name, plan(p)), proc[p].rule)
        /\ proc[p].rule \in {5, 6} => Redirected(chain'["nat"], "dns-udp", proc[p].name, plan(p))
        /\ proc[p].rule = 6 => Redirected(chain'["nat"], "dns-tcp", proc[p].name, plan(p))
    BY <1>0, <1>3, <2>1, InsertKeeps
  <2>3. NoDuplicateRule'
    BY <1>0, <2>2, ExemptIs DEF NoDuplicateRule, Different, AllDifferent
  <2>4. proc[p].rule \in {1, 2, 3, 4, 5, 6}
    BY <1>0, WorkType
  <2>5. CASE proc[p].rule < NumRules
    <3>1. proc' = [proc EXCEPT ![p].pc = "delete", ![p].rule = @ + 1] /\ UNCHANGED firewalled
      BY <1>3, <2>5 DEF ensure_rule_present
    <3>2. RulesStand'
      BY <1>0, <2>2, <3>1 DEF RulesStand, Stand
    <3>3. proc'[p].pc = "delete" /\ proc'[p].name = proc[p].name /\ proc'[p].attempt = proc[p].attempt
          /\ proc'[p].rule = proc[p].rule + 1
      BY <1>0, <3>1 DEF Process
    <3>4. plan(p)' = plan(p)
      BY <3>3 DEF plan
    <3>5. \A i \in 1..4 : i < proc[p].rule + 1 =>
            i <= Len(chain'["filter"]) /\ chain'["filter"][i] = RuleList(proc[p].name, plan(p))[i].rule
      <4>1. \A i \in 1..4 : i < proc[p].rule + 1 => i <= proc[p].rule
        BY <2>4
      <4> QED BY <2>2, <4>1 DEF OnTop
    <3>6. proc'[p].rule = NumRules => Redirected(chain'["nat"], "dns-udp", proc[p].name, plan(p))
      BY <2>2, <2>4, <3>3 DEF NumRules
    <3>7. Installs(p)'
      BY <1>0, <3>1, <3>3, <3>4, <3>5, <3>6 DEF Installs
    <3> QED BY <1>1, <2>3, <3>2, <3>7
  <2>6. CASE ~(proc[p].rule < NumRules)
    <3>1. goto(p, "send") /\ firewalled' = firewalled \cup ({proc[p].name} \cap DOMAIN net)
      BY <1>3, <2>6 DEF ensure_rule_present
    <3>2. proc'[p].pc \notin {"delete", "insert"}
      BY <1>0, <3>1, GoesTo
    <3>3. proc[p].rule = 6
      BY <2>4, <2>6 DEF NumRules
    <3> DEFINE n == proc[p].name
               L == RuleList(n, plan(p))
               f == chain'["filter"]
    <3>4. Shielded(f, n, plan(p).subnet)
      <4>1. /\ L[1].rule = established
            /\ L[2].rule = filter_rule("allow", n, plan(p).subnet)
            /\ L[3].rule = filter_rule("allow-local", n, plan(p).subnet)
            /\ L[4].rule = filter_rule("drop", n, plan(p).subnet)
        <5>1. /\ L[1] = [table |-> "filter", pos |-> 1, rule |-> established]
              /\ L[2] = [table |-> "filter", pos |-> 2, rule |-> filter_rule("allow", n, plan(p).subnet)]
              /\ L[3] = [table |-> "filter", pos |-> 3, rule |-> filter_rule("allow-local", n, plan(p).subnet)]
              /\ L[4] = [table |-> "filter", pos |-> 4, rule |-> filter_rule("drop", n, plan(p).subnet)]
          BY RuleItems
        <5> HIDE DEF L, n
        <5> QED BY <5>1
      <4>2. \A i \in 1..4 : i <= Len(f) /\ f[i] = L[i].rule
        <5>1. \A i \in 1..4 : i <= proc[p].rule
          BY <3>3
        <5> QED BY <2>2, <5>1 DEF OnTop
      <4>3. DOMAIN f = 1..Len(f) /\ Len(f) \in Nat
        <5>1. TypeInv'
          BY <1>0, NextType DEF Next, Step
        <5>2. f \in Seq(FilterRule)
          BY <5>1 DEF TypeInv, TypeOK
        <5> QED BY <5>2, LenProperties
      <4> HIDE DEF f, L, n
      <4>4. /\ 4 \in DOMAIN f /\ f[1] = established
            /\ f[2] = filter_rule("allow", n, plan(p).subnet)
            /\ f[3] = filter_rule("allow-local", n, plan(p).subnet)
            /\ f[4] = filter_rule("drop", n, plan(p).subnet)
        BY <4>1, <4>2, <4>3
      <4>5. \A i \in 1..(4 - 1) : Harmless(f[i], n, plan(p).subnet)
        <5>1. \A i \in 1..(4 - 1) : i \in {1, 2, 3}
          OBVIOUS
        <5>2. established.kind = "established"
          BY DEF established
        <5> QED BY <4>4, <5>1, <5>2 DEF Harmless
      <4>6. 2 \in 1..(4 - 1) /\ 3 \in 1..(4 - 1)
        OBVIOUS
      <4>7. \A kind \in {"allow", "allow-local"} : \E i \in 1..(4 - 1) : f[i] = filter_rule(kind, n, plan(p).subnet)
        BY <4>4, <4>6
      <4> QED BY <4>4, <4>5, <4>7 DEF Shielded
    <3>5. RulesStand'
      <4> SUFFICES ASSUME NEW m \in firewalled'
                   PROVE  /\ Shielded(chain'["filter"], m, net'[m].subnet)
                          /\ Redirected(chain'["nat"], "dns-udp", m, net'[m])
                          /\ Redirected(chain'["nat"], "dns-tcp", m, net'[m])
        BY DEF RulesStand
      <4>1. CASE m \in firewalled
        BY <1>0, <2>2, <4>1 DEF Stand
      <4>2. CASE m \notin firewalled
        <5>1. m = n /\ m \in DOMAIN net
          BY <3>1, <4>2
        <5>2. net'[m] = plan(p)
          BY <1>0, <5>1 DEF Installs
        <5> QED BY <2>2, <3>3, <3>4, <5>1, <5>2
      <4> QED BY <4>1, <4>2
    <3> QED BY <2>3, <3>2, <3>5, NothingInstalled
  <2> QED BY <2>5, <2>6
<1> QED BY <1>2, <1>3

\* Every step keeps the invariant when preparations do not overlap.
LEMMA NextInv ==
    ASSUME OneProc, IInv, [Next]_vars
    PROVE  IInv'
<1> DEFINE Goal == /\ RulesStand' /\ NoDuplicateRule'
                   /\ \A q \in Procs : proc'[q].pc \in {"delete", "insert"} => Installs(q)'
<1>0. TypeInv'
  BY NextType DEF IInv
<1>1. ASSUME NEW p \in Procs, prepare_docker_network(p) \/ Step(p) PROVE Goal
  BY <1>1, OtherStepInv, CreateInv, RemoveRuleInv, EnsureRuleInv DEF Step
<1>2. ASSUME NEW n \in Names, docker_network_rm(n) PROVE Goal
  BY <1>2, RmInv
<1>3. ASSUME UNCHANGED vars PROVE Goal
  <2>1. UNCHANGED <<proc, net, chain, firewalled, leftover>>
    BY <1>3 DEF vars
  <2>2. RulesStand' /\ NoDuplicateRule'
    BY <2>1, StandKept
  <2>3. ASSUME NEW q \in Procs, proc'[q].pc \in {"delete", "insert"} PROVE Installs(q)'
    <3>1. Installs(q)
      BY <2>1, <2>3 DEF IInv
    <3>2. plan(q)' = plan(q) /\ Item(q)' = Item(q) /\ Copy(q)' = Copy(q)
      BY <2>1 DEF plan, Item, Copy
    <3> QED BY <2>1, <3>1, <3>2 DEF Installs
  <2> QED BY <2>2, <2>3
<1>4. Goal
  BY <1>1, <1>2, <1>3 DEF Next
<1> QED BY <1>0, <1>4 DEF IInv

\* When preparations do not overlap, every state keeps the invariant: the
\* rules of prepared networks stand, a rule is doubled only where a deletion
\* broke off, and the rules that are being installed are so far in place.
THEOREM DockerInvariance ==
    ASSUME OneProc
    PROVE  Spec => []IInv
<1>1. OneProc /\ IInv /\ [Next]_vars => IInv'
  BY NextInv
<1>2. IInv /\ [Next]_vars => IInv'
  BY <1>1
<1> QED BY InitInv, <1>2, PTL DEF Spec

\* However often networks are prepared one after the other, and wherever
\* preparations fail or are killed, a rule is in a chain twice only while the
\* last deletion of it is one that broke off with a copy left.
THEOREM RulesNotDoubled ==
    ASSUME OneProc
    PROVE  Spec => []NoDuplicateRule
<1>1. IInv => NoDuplicateRule
  BY DEF IInv
<1> QED BY <1>1, DockerInvariance, PTL

\* The first rule about a new connection is one that lets it through, or the
\* drop rule of the subnet.
LEMMA ShieldDecides ==
    ASSUME TypeInv, NEW n \in firewalled, NEW d, Shielded(chain["filter"], n, net[n].subnet)
    PROVE  Passes(net[n].subnet, d) <=> d \in {n, "local"}
<1> DEFINE f == chain["filter"]
           s == net[n].subnet
           Matching(r) ==
            CASE r.kind = "established" -> FALSE
              [] r.kind = "return"      -> TRUE
              [] r.kind = "allow"       -> r.subnet = s /\ d = r.name
              [] r.kind = "allow-local" -> r.subnet = s /\ d = "local"
              [] r.kind = "drop"        -> r.subnet = s
           I == {i \in 1..Len(f) : Matching(f[i])}
           first == IF I # {} THEN Min(I) ELSE 0
<1>1. Passes(s, d) <=> first = 0 \/ f[first].kind # "drop"
  BY DEF Passes, FirstMatch, SelectInSeq
<1>2. f \in Seq(FilterRule) /\ DOMAIN f = 1..Len(f) /\ Len(f) \in Nat
  BY LenProperties DEF TypeInv, TypeOK
<1>3. PICK k \in DOMAIN f :
        /\ f[k] = filter_rule("drop", n, s)
        /\ \A kind \in {"allow", "allow-local"} : \E i \in 1..(k - 1) : f[i] = filter_rule(kind, n, s)
        /\ \A i \in 1..(k - 1) : Harmless(f[i], n, s)
  BY DEF Shielded
<1>4. /\ Matching(filter_rule("drop", n, s)) /\ filter_rule("drop", n, s).kind = "drop"
      /\ Matching(filter_rule("allow", n, s)) <=> d = n
      /\ Matching(filter_rule("allow-local", n, s)) <=> d = "local"
  BY DEF filter_rule
<1>5. ASSUME NEW r \in FilterRule, Harmless(r, n, s), Matching(r)
      PROVE  (d = n \/ d = "local") /\ r.kind # "drop"
  <2>1. r.kind \in {"established", "return", "allow", "allow-local", "drop"}
    BY DEF FilterRule, established, return
  <2>2. r.kind # "established"
    BY <1>5
  <2>3. r.kind = "return" \/ r.subnet = s
    BY <1>5, <2>1
  <2>4. r \in {filter_rule("allow", n, s), filter_rule("allow-local", n, s)}
    BY <1>5, <2>2, <2>3 DEF Harmless, filter_rule
  <2> HIDE DEF Matching
  <2>5. \A kind : filter_rule(kind, n, s).kind = kind
    BY DEF filter_rule
  <2>6. CASE r = filter_rule("allow", n, s)
    <3>1. d = n
      BY <1>4, <1>5, <2>6
    <3> QED BY <2>5, <2>6, <3>1
  <2>7. CASE r = filter_rule("allow-local", n, s)
    <3>1. d = "local"
      BY <1>4, <1>5, <2>7
    <3> QED BY <2>5, <2>7, <3>1
  <2> QED BY <2>4, <2>6, <2>7
<1> HIDE DEF Matching, f, s
<1>6. k \in I /\ I \in SUBSET (1..Len(f))
  BY <1>2, <1>3, <1>4
<1>7. Min(I) \in I /\ \A i \in I : Min(I) <= i
  BY <1>2, <1>6, FirstMatchIsFirst
<1>8. /\ first \in 1..Len(f) /\ Matching(f[first]) /\ first <= k /\ first # 0
      /\ \A i \in 1..Len(f) : Matching(f[i]) => first <= i
  BY <1>2, <1>6, <1>7
<1> HIDE DEF I, first
<1>9. f[first] \in FilterRule
  BY <1>2, <1>8, ElementOfSeq
<1>10. CASE first = k
  <2>1. f[first].kind = "drop"
    BY <1>3, <1>4, <1>10
  <2>2. \A i \in 1..(k - 1) : ~Matching(f[i])
    BY <1>2, <1>8, <1>10
  <2>3. d # n
    BY <1>3, <1>4, <2>2
  <2>4. d # "local"
    BY <1>3, <1>4, <2>2
  <2> QED BY <1>1, <1>8, <2>1, <2>3, <2>4 DEF s
<1>11. CASE first # k
  <2>1. first \in 1..(k - 1)
    BY <1>2, <1>8, <1>11
  <2>2. (d = n \/ d = "local") /\ f[first].kind # "drop"
    BY <1>3, <1>5, <1>8, <1>9, <2>1
  <2> QED BY <1>1, <2>2 DEF s
<1> QED BY <1>10, <1>11

\* The default-deny promise, for every sequence of preparations, failures,
\* kills and removals: a prepared network that exists reaches the addresses
\* of its own set and local ones, and no others.  The drop rule must be above
\* whatever earlier owners of the subnet left in the chain, which is why the
\* invariant says where each rule is.
THEOREM DefaultDenyHolds ==
    ASSUME OneProc
    PROVE  Spec => []FirewallHolds
<1>1. ASSUME IInv PROVE FirewallHolds
  <2>1. \A n \in firewalled : Shielded(chain["filter"], n, net[n].subnet)
    BY <1>1 DEF IInv, RulesStand
  <2>2. TypeInv
    BY <1>1 DEF IInv
  <2> QED BY <2>1, <2>2, ShieldDecides DEF FirewallHolds
<1>2. IInv => FirewallHolds
  BY <1>1
<1> QED BY <1>2, DockerInvariance, PTL

\* The README's claim about networks at rest follows.
THEOREM DefaultDenyAtRestHolds ==
    ASSUME OneProc
    PROVE  Spec => []DefaultDenyAtRest
<1>1. FirewallHolds => DefaultDenyAtRest
  BY DEF FirewallHolds, DefaultDenyAtRest
<1> QED BY <1>1, DefaultDenyHolds, PTL

\* The queries of a prepared network go to the gateway it has now: stale
\* redirections of the subnet, if any, are below the rule that decides.
THEOREM DnsRedirected ==
    ASSUME OneProc
    PROVE  Spec => []DnsGoesToGateway
<1>1. ASSUME IInv PROVE DnsGoesToGateway
  <2> SUFFICES ASSUME NEW n \in firewalled, NEW kind \in {"dns-udp", "dns-tcp"}
               PROVE  LET matches(r) == r.kind = kind /\ r.plan.subnet = net[n].subnet
                          i == FirstMatch(chain["nat"], matches)
                      IN  i # 0 /\ chain["nat"][i].plan = net[n]
    BY DEF DnsGoesToGateway
  <2> DEFINE g == chain["nat"]
             I == {i \in 1..Len(g) : g[i].kind = kind /\ g[i].plan.subnet = net[n].subnet}
             first == IF I # {} THEN Min(I) ELSE 0
  <2>1. SUFFICES first # 0 /\ g[first].plan = net[n]
    BY DEF FirstMatch, SelectInSeq
  <2>2. g \in Seq(NatRule) /\ DOMAIN g = 1..Len(g) /\ Len(g) \in Nat
    BY <1>1, LenProperties DEF IInv, TypeInv, TypeOK
  <2>3. PICK k \in DOMAIN g :
          /\ g[k] = nat_rule(kind, n, net[n])
          /\ \A i \in 1..(k - 1) : g[i].kind = kind => g[i].plan.subnet # net[n].subnet
    BY <1>1 DEF IInv, RulesStand, Redirected
  <2>4. g[k].kind = kind /\ g[k].plan = net[n]
    BY <2>3 DEF nat_rule
  <2> HIDE DEF g
  <2>5. k \in I /\ I \in SUBSET (1..Len(g))
    BY <2>2, <2>3, <2>4
  <2>6. Min(I) \in I /\ \A i \in I : Min(I) <= i
    BY <2>2, <2>5, FirstMatchIsFirst
  <2>7. first \in 1..Len(g) /\ first <= k /\ g[first].kind = kind /\ g[first].plan.subnet = net[n].subnet
    BY <2>2, <2>5, <2>6
  <2> HIDE DEF I, first
  <2>8. first = k
    <3>1. ~(first \in 1..(k - 1))
      BY <2>3, <2>7
    <3> QED BY <2>2, <2>7, <3>1
  <2> QED BY <2>2, <2>4, <2>7, <2>8
<1>2. IInv => DnsGoesToGateway
  BY <1>1
<1> QED BY <1>2, DockerInvariance, PTL
=============================================================================
