--------------------------- MODULE DockerPrepare ---------------------------
(***************************************************************************)
(* `dockerwall prepare-network --runtime docker`: every run is a process   *)
(* of its own that executes a list of commands against resources all runs  *)
(* share (the ipsets, the Docker networks, the DOCKER-USER chain and the   *)
(* nat table) with no lock around the list.  An attempt that fails midway  *)
(* leaves what it did behind and the next one starts over with the next    *)
(* subnet; the process may also be killed between any two commands.        *)
(* Docker and its users, who attach containers and remove networks, are    *)
(* external.  The policies and the sets' contents are in Enforcement.      *)
(***************************************************************************)
EXTENDS Iptables, FiniteSets

CONSTANTS
    Procs,          \* processes that run prepare-network at the same time
    Names,          \* names of networks
    Subnets,
    Gateways,
    MaxAttempts,    \* 50 in the code
    PlanOf,         \* the plan of each attempt at a name (a hash in the code)
    InitialChain,   \* what DOCKER-USER holds before the first preparation
    NoName,         \* the name an idle process works on
    MaxPreparations,    \* bound: how often prepare-network is run
    MaxFaults,      \* bound: how many faults there are
    Faults          \* what may go wrong: subset of {"command", "kill", "xtables-lock"}

VARIABLES
    proc,       \* where each process is
    sets,       \* the names whose ipset exists
    net,        \* the Docker networks, with the plan each was created from
    chain,      \* the rules of DOCKER-USER and of nat PREROUTING
    firewalled, \* history: networks whose rules were all put in place
    leftover,   \* history: rules of which the last deletion left a copy
    started,    \* history: how often prepare-network was run
    faults      \* history: how many faults there were

vars == <<proc, sets, net, chain, firewalled, leftover, started, faults>>

Plan   == [subnet : Subnets, gateway : Gateways]
Tables == {"filter", "nat"}
Pcs    == {"idle", "destroy", "create", "remove_network", "create_network",
           "delete", "insert", "send"}

established == [kind |-> "established"]
return      == [kind |-> "return"]

FilterRule == {established, return}
    \cup [kind : {"allow", "allow-local", "drop"}, name : Names, subnet : Subnets]
NatRule == [kind : {"dns-udp", "dns-tcp"}, name : Names, plan : Plan]

ASSUME DockerAssumption ==
    /\ MaxAttempts \in Nat \ {0}
    /\ MaxPreparations \in Nat /\ MaxFaults \in Nat
    /\ PlanOf \in [Names -> [0 .. MaxAttempts - 1 -> Plan]]
    /\ NoName \notin Names
    /\ InitialChain \in Seq({return})

NumRules == 6

\* What ensure_docker_iptables_rules installs, in its order, each rule with
\* the table and the position it asks for.  Only the first is not the name's.
RuleList(n, plan) ==
    LET filter(pos, kind) ==
            [table |-> "filter", pos |-> pos,
             rule |-> [kind |-> kind, name |-> n, subnet |-> plan.subnet]]
        nat(kind) ==
            [table |-> "nat", pos |-> 1, rule |-> [kind |-> kind, name |-> n, plan |-> plan]]
    IN  << [table |-> "filter", pos |-> 1, rule |-> established],
           filter(2, "allow"), filter(3, "allow-local"), filter(4, "drop"),
           nat("dns-udp"), nat("dns-tcp") >>

Process == [pc : Pcs, name : Names \cup {NoName}, attempt : 0 .. MaxAttempts - 1,
            rule : 1 .. NumRules]

TypeOK ==
    /\ proc \in [Procs -> Process]
    /\ sets \subseteq Names
    /\ DOMAIN net \subseteq Names /\ net \in [DOMAIN net -> Plan]
    /\ firewalled \subseteq DOMAIN net
    /\ DOMAIN chain = Tables
    /\ chain["filter"] \in Seq(FilterRule)
    /\ chain["nat"] \in Seq(NatRule)
    /\ leftover \subseteq Tables \X (FilterRule \cup NatRule)
    /\ started \in 0 .. MaxPreparations
    /\ faults \in 0 .. MaxFaults

Idle == [pc |-> "idle", name |-> NoName, attempt |-> 0, rule |-> 1]

Init ==
    /\ proc = [p \in Procs |-> Idle]
    /\ sets = {}
    /\ net = [n \in {} |-> {}]
    /\ chain = [t \in Tables |-> IF t = "filter" THEN InitialChain ELSE <<>>]
    /\ firewalled = {}
    /\ leftover = {}
    /\ started = 0
    /\ faults = 0
-----------------------------------------------------------------------------
(* One attempt: setup_docker_resources and ensure_docker_iptables_rules    *)

plan(p) == PlanOf[proc[p].name][proc[p].attempt]

goto(p, pc) == proc' = [proc EXCEPT ![p].pc = pc]

fault == faults < MaxFaults /\ faults' = faults + 1

\* Variant with a fault: one attempt too many.
attempt_fails_OffByOne(p) ==
    proc' = IF proc[p].attempt < MaxAttempts
            THEN [proc EXCEPT ![p].pc = "destroy", ![p].attempt = @ + 1, ![p].rule = 1]
            ELSE [proc EXCEPT ![p] = Idle]

\* The end of an attempt that failed, in the loop of prepare_docker_network.
attempt_fails(p) ==
    proc' = IF proc[p].attempt + 1 < MaxAttempts
            THEN [proc EXCEPT ![p].pc = "destroy", ![p].attempt = @ + 1, ![p].rule = 1]
            ELSE [proc EXCEPT ![p] = Idle]

\* The daemon told its port; without it the command ends before any change.
prepare_docker_network(p) ==
    /\ proc[p].pc = "idle"
    /\ started < MaxPreparations
    /\ started' = started + 1
    /\ \E n \in Names :
        proc' = [proc EXCEPT ![p] = [pc |-> "destroy", name |-> n, attempt |-> 0, rule |-> 1]]
    /\ UNCHANGED <<sets, net, chain, firewalled, leftover, faults>>

\* A set that a rule refers to cannot be destroyed; the failure is ignored.
destroy_ipsets(p) ==
    /\ proc[p].pc = "destroy"
    /\ sets' = {n \in sets :
                    \/ n # proc[p].name
                    \/ \E s \in Subnets : has_rule(chain["filter"],
                                                   [kind |-> "allow", name |-> n, subnet |-> s])}
    /\ goto(p, "create")
    /\ UNCHANGED <<net, chain, firewalled, leftover, started, faults>>

create_ipsets(p) ==
    /\ proc[p].pc = "create"
    /\ sets' = sets \cup {proc[p].name}
    /\ goto(p, "remove_network")
    /\ UNCHANGED <<net, chain, firewalled, leftover, started, faults>>

\* docker network rm.
rm(n) ==
    /\ n \in DOMAIN net
    /\ net' = [m \in DOMAIN net \ {n} |-> net[m]]
    /\ firewalled' = firewalled \ {n}

\* It is refused while containers are attached, which they may be at any
\* time; refused or not, the attempt goes on.
remove_docker_network(p) ==
    /\ proc[p].pc = "remove_network"
    /\ rm(proc[p].name) \/ UNCHANGED <<net, firewalled>>
    /\ goto(p, "create_network")
    /\ UNCHANGED <<sets, chain, leftover, started, faults>>

\* Variant with a fault: a network that exists is as good as a new one.
taken_BySubnet(p) == \E n \in DOMAIN net \ {proc[p].name} : net[n].subnet = plan(p).subnet

taken(p) == proc[p].name \in DOMAIN net \/ \E n \in DOMAIN net : net[n].subnet = plan(p).subnet

\* docker network create: refused if the name or the subnet is taken.
create_docker_network(p) ==
    /\ proc[p].pc = "create_network"
    /\ IF taken(p)
       THEN attempt_fails(p) /\ UNCHANGED net
       ELSE /\ net' = [n \in DOMAIN net \cup {proc[p].name} |->
                            IF n = proc[p].name THEN plan(p) ELSE net[n]]
            /\ goto(p, "delete")
    /\ UNCHANGED <<sets, chain, firewalled, leftover, started, faults>>

\* The rule the process is at.
Item(p) == RuleList(proc[p].name, plan(p))[proc[p].rule]

Copy(p) == <<Item(p).table, Item(p).rule>>

\* Variant with a fault: the -D command still has the position of the -I
\* command in it, and never finds the rule.
remove_rule_all_KeepsPosition(p) ==
    /\ proc[p].pc = "delete"
    /\ goto(p, "insert")
    /\ leftover' = leftover \ {Copy(p)}
    /\ UNCHANGED <<sets, net, chain, firewalled, started, faults>>

\* The first half of ensure_rule_present: copy after copy is deleted until the
\* command fails, for want of a copy or, as when somebody holds the lock of
\* the tables, with copies left.
remove_rule_all(p) ==
    LET item == Item(p) IN
    /\ proc[p].pc = "delete"
    /\ \/ /\ has_rule(chain[item.table], item.rule)
          /\ chain' = [chain EXCEPT ![item.table] = delete_rule(@, item.rule)]
          /\ UNCHANGED <<proc, leftover, faults>>
       \/ /\ ~has_rule(chain[item.table], item.rule)
          /\ goto(p, "insert")
          /\ leftover' = leftover \ {Copy(p)}
          /\ UNCHANGED <<chain, faults>>
       \/ /\ "xtables-lock" \in Faults /\ fault
          /\ has_rule(chain[item.table], item.rule)
          /\ goto(p, "insert")
          /\ leftover' = leftover \cup {Copy(p)}
          /\ UNCHANGED chain
    /\ UNCHANGED <<sets, net, firewalled, started>>

\* The chain is long enough for the position, and a set that the rule matches
\* against exists.
insert_succeeds(p) ==
    LET item == Item(p) IN
    /\ can_insert(chain[item.table], item.pos)
    /\ item.rule.kind = "allow" => proc[p].name \in sets

\* Variant with a fault: -A instead of -I in the nat table.
placed_NatAppended(rules, item) ==
    IF item.table = "nat" THEN Append(rules, item.rule) ELSE insert_rule(rules, item.pos, item.rule)

placed(rules, item) == insert_rule(rules, item.pos, item.rule)

\* Its second half: the rule is inserted.
ensure_rule_present(p) ==
    LET item == Item(p) IN
    /\ proc[p].pc = "insert"
    /\ IF insert_succeeds(p)
       THEN /\ chain' = [chain EXCEPT ![item.table] = placed(@, item)]
            /\ IF proc[p].rule < NumRules
               THEN proc' = [proc EXCEPT ![p].pc = "delete", ![p].rule = @ + 1] /\ UNCHANGED firewalled
               ELSE /\ goto(p, "send")
                    /\ firewalled' = firewalled \cup ({proc[p].name} \cap DOMAIN net)
       ELSE attempt_fails(p) /\ UNCHANGED <<chain, firewalled>>
    /\ UNCHANGED <<sets, net, leftover, started, faults>>

\* The last command tells the daemon; whether it fails or not, the run ends.
send_create(p) ==
    /\ proc[p].pc = "send"
    /\ proc' = [proc EXCEPT ![p] = Idle]
    /\ UNCHANGED <<sets, net, chain, firewalled, leftover, started, faults>>

\* A command whose failure counts fails for a reason outside this model.
run_command_checked_fails(p) ==
    /\ "command" \in Faults /\ fault
    /\ proc[p].pc \in {"create", "create_network", "insert"}
    /\ attempt_fails(p)
    /\ UNCHANGED <<sets, net, chain, firewalled, leftover, started>>

\* The process is killed between two commands.
killed(p) ==
    /\ "kill" \in Faults /\ fault
    /\ proc[p].pc # "idle"
    /\ proc' = [proc EXCEPT ![p] = Idle]
    /\ UNCHANGED <<sets, net, chain, firewalled, leftover, started>>
-----------------------------------------------------------------------------
(* A user of Docker *)

docker_network_rm(n) ==
    /\ rm(n)
    /\ UNCHANGED <<proc, sets, chain, leftover, started, faults>>
-----------------------------------------------------------------------------
Step(p) ==
    \/ destroy_ipsets(p)
    \/ create_ipsets(p)
    \/ remove_docker_network(p)
    \/ create_docker_network(p)
    \/ remove_rule_all(p)
    \/ ensure_rule_present(p)
    \/ send_create(p)
    \/ run_command_checked_fails(p)
    \/ killed(p)

Next ==
    \/ \E p \in Procs : prepare_docker_network(p) \/ Step(p)
    \/ \E n \in Names : docker_network_rm(n)

Spec == Init /\ [][Next]_vars

-----------------------------------------------------------------------------
(* Properties *)

\* The destinations of new connections that the rules tell apart: addresses
\* in the set of a name, the local range 172.16.0.0/12, and all others.
Destinations == Names \cup {"local", "other"}

\* What DOCKER-USER does with a new connection from a subnet: without a rule
\* that drops it first, Docker's own rules let it out.
Passes(s, d) ==
    LET matches(r) ==
            CASE r.kind = "established" -> FALSE
              [] r.kind = "return"      -> TRUE
              [] r.kind = "allow"       -> r.subnet = s /\ d = r.name
              [] r.kind = "allow-local" -> r.subnet = s /\ d = "local"
              [] r.kind = "drop"        -> r.subnet = s
        i == FirstMatch(chain["filter"], matches)
    IN  i = 0 \/ chain["filter"][i].kind # "drop"

\* As long as a network that was fully prepared exists, exactly the addresses
\* in its own set and local ones are reachable from its subnet: whatever
\* other preparations, failed or killed ones included, did to the chain since,
\* and whatever rules earlier owners of the subnet left behind.
FirewallHolds ==
    \A n \in firewalled : \A d \in Destinations :
        Passes(net[n].subnet, d) <=> d \in {n, "local"}

\* The default-deny claim of the README: when no preparation is under way, a
\* prepared network reaches nothing outside its set and the local range.
DefaultDenyAtRest ==
    (\A p \in Procs : proc[p].pc = "idle") =>
        \A n \in firewalled : \A d \in Destinations :
            Passes(net[n].subnet, d) => d \in {n, "local"}

\* Its DNS queries go to the gateway the network has now, over UDP and TCP,
\* although rules that send them elsewhere may have stayed in the table.
DnsGoesToGateway ==
    \A n \in firewalled, k \in {"dns-udp", "dns-tcp"} :
        LET matches(r) == r.kind = k /\ r.plan.subnet = net[n].subnet
            i == FirstMatch(chain["nat"], matches)
        IN  i # 0 /\ chain["nat"][i].plan = net[n]

\* However often networks are prepared, killed and prepared again, a rule is in
\* a chain twice only if the last deletion of it broke off with a copy left,
\* and no longer than until it is deleted again: preparations add up nothing.
NoDuplicateRule ==
    \A t \in Tables : \A i, j \in DOMAIN chain[t] :
        chain[t][i] = chain[t][j] =>
            i = j \/ chain[t][i] = return \/ <<t, chain[t][i]>> \in leftover
=============================================================================
