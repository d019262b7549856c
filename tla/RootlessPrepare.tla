-------------------------- MODULE RootlessPrepare --------------------------
(***************************************************************************)
(* `dockerwall prepare-network --runtime podman`.  A policy gets a source  *)
(* address of its own on the host, of IPv4 and, where the interface has a  *)
(* routed prefix, of IPv6; rules in OUTPUT send what leaves from it to the *)
(* chain DOCKERWALL-OUTPUT, where the policy's rules decide.  Addresses    *)
(* are found free by looking at the rules once and then at the host's      *)
(* addresses one by one, and taken only afterwards.  Every command is a    *)
(* step of its own: other preparations run in between, it may fail, which  *)
(* ends the preparation for good, and the process may be killed.  The      *)
(* contents of the sets are in Enforcement, the daemon in DaemonLifecycle. *)
(***************************************************************************)
EXTENDS Iptables, Addressing, FiniteSets

CONSTANTS
    Procs,          \* processes that run prepare-network at the same time
    Names,          \* names of policies
    Hash,           \* the FNV-1a hash of each name
    MarkerIn,       \* <<m, n>>: the hook rule of m contains the marker of n
    Interfaces,     \* outbound interfaces
    GlobalAddrs,    \* prefix and prefix length of each one's global addresses, in order
    Ports,          \* DNS ports that a daemon may report
    Environments,   \* <<n, q, i>>: preparing n may find port q and interface i
    TakenAddrs,     \* IPv4 source addresses that somebody else has on the host
    Attempts6,      \* 50 in the code
    None,           \* Option::None, and the name of an idle process
    MaxPreparations,    \* bound: how often prepare-network is run
    MaxFaults,      \* bound: how many faults there are
    Interleaved,    \* bound: where a process may be when others take a step
    Faults          \* subset of {"command", "kill", "xtables-lock"}

VARIABLES
    proc,       \* where each process is, and its local variables
    addrs,      \* the addresses on the host, for each family
    sets,       \* the ipsets that exist
    chain,      \* the chains of rules that exist
    last,       \* history: how the last preparation of each name ended
    started,    \* history: how often prepare-network was run
    faults,     \* history: how many faults there were
    overlapped  \* history: some preparation began before another had ended

vars == <<proc, addrs, sets, chain, last, started, faults, overlapped>>

ASSUME RootlessAssumption ==
    /\ Hash \in [Names -> Nat]
    /\ MarkerIn \subseteq Names \X Names
    /\ \A n \in Names : <<n, n>> \in MarkerIn
    /\ Environments \subseteq Names \X Ports \X Interfaces
    /\ Attempts6 \in Nat /\ MaxPreparations \in Nat /\ MaxFaults \in Nat
    /\ None \notin Names
    /\ TakenAddrs \subseteq SourceOffsets

Families == {"v4", "v6"}

\* The first prefix that leaves 64 bits for hosts.  A source address that was
\* assigned before is an address under the same prefix.
rootless_podman_ipv6_prefix(i) ==
    LET routed(a) == a.length = 64
        found     == SelectSeq(GlobalAddrs[i], routed)
    IN  IF found = <<>> THEN None ELSE Head(found).prefix

Routed == {rootless_podman_ipv6_prefix(i) : i \in Interfaces} \ {None}
Source4  == SourceOffsets
Source6  == Routed \X (0 .. HostIds - 1)
ASSUME NoneIsNoAddress == None \notin Source4 \cup Source6

BuiltIn  == {"OUTPUT", "nat-OUTPUT", "nat-PREROUTING", "nat-POSTROUTING", "OUTPUT6"}
Own      == {"DOCKERWALL-OUTPUT", "DOCKERWALL-OUTPUT6"}
ChainsOf(f) == IF f = "v4" THEN (BuiltIn \ {"OUTPUT6"}) \cup {"DOCKERWALL-OUTPUT"}
               ELSE {"OUTPUT6", "DOCKERWALL-OUTPUT6"}
Hooks    == [v4 |-> "OUTPUT", v6 |-> "OUTPUT6"]
Filter   == [v4 |-> "DOCKERWALL-OUTPUT", v6 |-> "DOCKERWALL-OUTPUT6"]

Pcs == {"idle", "alias", "daemon", "read4", "probe4", "read6", "probe6", "assign4", "assign6",
        "destroy", "create", "rule", "insert", "send"}

Rule(kinds, sources, args) == [kind : kinds, name : Names, src : sources, arg : args]
RuleOf(c) ==
    CASE c \in {"OUTPUT", "DOCKERWALL-OUTPUT"} ->
            Rule({"hook", "established", "dns-udp", "dns-tcp", "allow", "drop"},
                 Source4, Ports \cup {None})
      [] c \in {"nat-OUTPUT", "nat-PREROUTING"} -> Rule({"dns-udp", "dns-tcp"}, Source4, Ports)
      [] c = "nat-POSTROUTING" -> Rule({"masquerade"}, Source4, Interfaces)
      [] OTHER -> Rule({"hook", "established", "neighbor-solicitation",
                        "neighbor-advertisement", "allow", "drop"}, Source6, {None})

Process == [pc : Pcs, name : Names \cup {None}, iface : Interfaces \cup {None},
            port : Ports \cup {None}, taken : SUBSET Source4,
            attempt : 0 .. SourceSlots + Attempts6, src4 : Source4 \cup {None},
            src6 : Source6 \cup {None}, rule : Nat \ {0}, single : BOOLEAN]
Outcome == [status : {"none", "ok", "busy", "broken"}, src4 : Source4 \cup {None},
            src6 : Source6 \cup {None}, port : Ports \cup {None}]

TypeOK ==
    /\ proc \in [Procs -> Process]
    /\ addrs \in [v4 : SUBSET (Source4 \cup {RootlessDnsIp}), v6 : SUBSET Source6]
    /\ sets \subseteq Names \X Families
    /\ BuiltIn \subseteq DOMAIN chain /\ DOMAIN chain \subseteq BuiltIn \cup Own
    /\ \A c \in DOMAIN chain : chain[c] \in Seq(RuleOf(c))
    /\ last \in [Names -> Outcome]
    /\ started \in 0 .. MaxPreparations
    /\ faults \in 0 .. MaxFaults
    /\ overlapped \in BOOLEAN

Idle == [pc |-> "idle", name |-> None, iface |-> None, port |-> None, taken |-> {},
         attempt |-> 0, src4 |-> None, src6 |-> None, rule |-> 1, single |-> TRUE]

Init ==
    /\ proc = [p \in Procs |-> Idle]
    /\ addrs = [v4 |-> TakenAddrs, v6 |-> {}]
    /\ sets = {}
    /\ chain = [c \in BuiltIn |-> <<>>]
    /\ last = [n \in Names |-> [status |-> "none", src4 |-> None, src6 |-> None,
                                port |-> None]]
    /\ started = 0
    /\ faults = 0
    /\ overlapped = FALSE

Busy(n) == {p \in Procs : proc[p].name = n}
Free(n) == Busy(n) = {}

\* The process goes on with these local variables.
goes(p, local) == proc' = [proc EXCEPT ![p] = local]
fault == faults < MaxFaults /\ faults' = faults + 1
goto(p, pc) == goes(p, [proc[p] EXCEPT !.pc = pc])
-----------------------------------------------------------------------------
(* The start *)

begins(n) == [Idle EXCEPT !.pc = "alias", !.name = n, !.single = Free(n)]

prepare_rootless_podman_network(p) ==
    /\ proc[p].pc = "idle"
    /\ started < MaxPreparations
    /\ started' = started + 1
    /\ \E n \in Names :
        /\ proc' = [q \in Procs |->
                CASE q = p -> begins(n)
                  [] q \in Busy(n) -> [proc[q] EXCEPT !.single = FALSE]
                  [] OTHER -> proc[q]]
        /\ overlapped' = (overlapped \/ \E q \in Procs : proc[q].pc # "idle")
        /\ last' = [last EXCEPT ![n].status =
                        CASE @ = "none" -> @
                          [] @ = "ok" /\ Free(n) -> "busy"
                          [] OTHER -> "broken"]
    /\ UNCHANGED <<addrs, sets, chain, faults>>

ensure_rootless_dns_alias(p) ==
    /\ proc[p].pc = "alias"
    /\ addrs' = [addrs EXCEPT !.v4 = @ \cup {RootlessDnsIp}]
    /\ goto(p, "daemon")
    /\ UNCHANGED <<sets, chain, last, started, faults, overlapped>>

\* The daemon, started if need be, tells its port.  The interface is the one
\* asked for or that of the default route.
ensure_rootless_dns_daemon(p) ==
    /\ proc[p].pc = "daemon"
    /\ \E e \in Environments :
        /\ e[1] = proc[p].name
        /\ goes(p, [proc[p] EXCEPT !.pc = "read4", !.port = e[2], !.iface = e[3]])
    /\ UNCHANGED <<addrs, sets, chain, last, started, faults, overlapped>>
-----------------------------------------------------------------------------
(* The allocation of source addresses *)

\* A hook rule that carries the name's marker.  Its IPv6 address is of use
\* only under the prefix the interface has now.
own_hook(r, f, n, prefix) ==
    /\ <<r.name, n>> \in MarkerIn
    /\ f = "v6" => r.src[1] = prefix

\* Variant with a fault: the own rule counts as anybody's.
reusable_Never(f, n, prefix) == None

\* The address of the first one, if there is any.
reusable(f, n, prefix) ==
    LET own(r) == own_hook(r, f, n, prefix)
        i == FirstMatch(chain[Hooks[f]], own)
    IN  IF i = 0 THEN None ELSE chain[Hooks[f]][i].src

\* The rules of OUTPUT are read once.
allocate_read4(p) ==
    LET own == reusable("v4", proc[p].name, None) IN
    /\ proc[p].pc = "read4"
    /\ IF own # None
       THEN goes(p, [proc[p] EXCEPT !.pc = "read6", !.src4 = own])
       ELSE goes(p, [proc[p] EXCEPT !.pc = "probe4", !.attempt = 0,
                        !.taken = {chain["OUTPUT"][i].src : i \in DOMAIN chain["OUTPUT"]}])
    /\ UNCHANGED <<addrs, sets, chain, last, started, faults, overlapped>>

\* Variant with a fault: addresses without a rule count as free.
occupied4_RulesOnly(p, ip) == ip \in proc[p].taken

\* By the rules as they were, and by the host's addresses as they are.
occupied4(p, ip) == ip \in proc[p].taken \cup addrs.v4

\* The end of a preparation that failed, or was killed: nothing is undone.
ends(p) ==
    /\ goes(p, Idle)
    /\ last' = [last EXCEPT ![proc[p].name].status = IF @ = "none" THEN @ ELSE "broken"]

allocate_probe4(p) ==
    LET ip == rootless_podman_source_ip(Hash[proc[p].name], proc[p].attempt) IN
    /\ proc[p].pc = "probe4"
    /\ \/ /\ proc[p].attempt = SourceSlots
          /\ ends(p)
       \/ /\ proc[p].attempt < SourceSlots
          /\ IF occupied4(p, ip)
             THEN goes(p, [proc[p] EXCEPT !.attempt = @ + 1])
             ELSE goes(p, [proc[p] EXCEPT !.pc = "read6", !.src4 = ip, !.taken = {}])
          /\ UNCHANGED last
    /\ UNCHANGED <<addrs, sets, chain, started, faults, overlapped>>

\* No routed prefix, no IPv6.  Here the rules only serve to find the own one.
allocate_read6(p) ==
    LET prefix == rootless_podman_ipv6_prefix(proc[p].iface)
        own    == reusable("v6", proc[p].name, prefix)
    IN  /\ proc[p].pc = "read6"
        /\ IF prefix = None THEN goto(p, "assign4")
           ELSE IF own # None THEN goes(p, [proc[p] EXCEPT !.pc = "assign4", !.src6 = own])
           ELSE goes(p, [proc[p] EXCEPT !.pc = "probe6", !.attempt = 0])
        /\ UNCHANGED <<addrs, sets, chain, last, started, faults, overlapped>>

allocate_probe6(p) ==
    LET prefix == rootless_podman_ipv6_prefix(proc[p].iface)
        ip     == rootless_podman_source_ipv6(prefix, Hash[proc[p].name], proc[p].attempt)
    IN  /\ proc[p].pc = "probe6"
        /\ \/ /\ proc[p].attempt = Attempts6
              /\ ends(p)
           \/ /\ proc[p].attempt < Attempts6
              /\ IF ip \in addrs.v6
                 THEN goes(p, [proc[p] EXCEPT !.attempt = @ + 1])
                 ELSE goes(p, [proc[p] EXCEPT !.pc = "assign4", !.src6 = ip])
              /\ UNCHANGED last
        /\ UNCHANGED <<addrs, sets, chain, started, faults, overlapped>>

\* Only now are the addresses put on the interface.
assign4(p) ==
    /\ proc[p].pc = "assign4"
    /\ addrs' = [addrs EXCEPT !.v4 = @ \cup {proc[p].src4}]
    /\ goto(p, IF proc[p].src6 = None THEN "destroy" ELSE "assign6")
    /\ UNCHANGED <<sets, chain, last, started, faults, overlapped>>

configure_rootless_podman_source_ipv6(p) ==
    /\ proc[p].pc = "assign6"
    /\ addrs' = [addrs EXCEPT !.v6 = @ \cup {proc[p].src6}]
    /\ goto(p, "destroy")
    /\ UNCHANGED <<sets, chain, last, started, faults, overlapped>>
-----------------------------------------------------------------------------
(* The sets *)

\* A set that a rule matches against cannot be destroyed; that is ignored.
in_use(n, f) ==
    /\ Filter[f] \in DOMAIN chain
    /\ \E i \in DOMAIN chain[Filter[f]] :
        chain[Filter[f]][i].kind = "allow" /\ chain[Filter[f]][i].name = n

destroy_ipsets(p) ==
    /\ proc[p].pc = "destroy"
    /\ sets' = {s \in sets : s[1] # proc[p].name \/ in_use(s[1], s[2])}
    /\ goto(p, "create")
    /\ UNCHANGED <<addrs, chain, last, started, faults, overlapped>>

create_ipsets(p) ==
    /\ proc[p].pc = "create"
    /\ sets' = sets \cup ({proc[p].name} \X Families)
    /\ goto(p, "rule")
    /\ UNCHANGED <<addrs, chain, last, started, faults, overlapped>>
-----------------------------------------------------------------------------
(* The rules *)

\* A rule and where it goes; deletion finds it by the rule alone.  Position 0
\* stands for the creation of the chain.
item(c, pos, kind, n, src, arg) ==
    [chain |-> c, pos |-> pos, rule |-> [kind |-> kind, name |-> n, src |-> src, arg |-> arg]]

\* Only a port other than 53 needs to be redirected to.
ensure_rootless_dns_redirects(n, src, port) ==
    IF port = 53 THEN <<>>
    ELSE << item("nat-OUTPUT", 1, "dns-udp", n, src, port),
            item("nat-OUTPUT", 1, "dns-tcp", n, src, port),
            item("nat-PREROUTING", 1, "dns-udp", n, src, port),
            item("nat-PREROUTING", 1, "dns-tcp", n, src, port) >>

ensure_rootless_podman_ipv6_rules(n, src) ==
    IF src = None THEN <<>>
    ELSE LET own(pos, kind) == item("DOCKERWALL-OUTPUT6", pos, kind, n, src, None)
         IN  << own(0, "hook"), item("OUTPUT6", 1, "hook", n, src, None),
                own(1, "established"), own(2, "neighbor-solicitation"),
                own(3, "neighbor-advertisement"), own(4, "allow"), own(5, "drop") >>

\* All that is installed, in order.  The DNS rules accept what was redirected.
ensure_rootless_podman_rules(local) ==
    LET n == local.name
        own(pos, kind, arg) == item("DOCKERWALL-OUTPUT", pos, kind, n, local.src4, arg)
    IN  << own(0, "hook", None), item("OUTPUT", 1, "hook", n, local.src4, None),
           own(1, "established", None), own(2, "dns-udp", local.port),
           own(3, "dns-tcp", local.port), own(4, "allow", None), own(5, "drop", None) >>
        \o ensure_rootless_dns_redirects(n, local.src4, local.port)
        \o << item("nat-POSTROUTING", 1, "masquerade", n, local.src4, local.iface) >>
        \o ensure_rootless_podman_ipv6_rules(n, local.src6)

Items(p) == ensure_rootless_podman_rules(proc[p])
Item(p)  == Items(p)[proc[p].rule]

next_item(p) ==
    goes(p, IF proc[p].rule < Len(Items(p))
            THEN [proc[p] EXCEPT !.pc = "rule", !.rule = @ + 1]
            ELSE [proc[p] EXCEPT !.pc = "send"])

ensure_chain(p) ==
    /\ proc[p].pc = "rule"
    /\ Item(p).pos = 0
    /\ chain' = [c \in DOMAIN chain \cup {Item(p).chain} |->
                    IF c \in DOMAIN chain THEN chain[c] ELSE <<>>]
    /\ next_item(p)
    /\ UNCHANGED <<addrs, sets, last, started, faults, overlapped>>

\* Copies of a rule are deleted until the command fails, which it also does
\* when another command holds the lock of the tables.
remove_rule_all(p) ==
    LET it == Item(p) IN
    /\ proc[p].pc = "rule"
    /\ it.pos # 0
    /\ \/ /\ has_rule(chain[it.chain], it.rule)
          /\ chain' = [chain EXCEPT ![it.chain] = delete_rule(@, it.rule)]
          /\ UNCHANGED <<proc, faults>>
       \/ /\ ~has_rule(chain[it.chain], it.rule)
          /\ goto(p, "insert")
          /\ UNCHANGED <<chain, faults>>
       \/ /\ "xtables-lock" \in Faults
          /\ has_rule(chain[it.chain], it.rule)
          /\ fault
          /\ goto(p, "insert")
          /\ UNCHANGED chain
    /\ UNCHANGED <<addrs, sets, last, started, overlapped>>

\* Variant with a fault: a rule of the nat table is appended.
placed_NatAppended(rules, it) ==
    IF it.chain \in {"nat-OUTPUT", "nat-PREROUTING"} THEN Append(rules, it.rule)
    ELSE insert_rule(rules, it.pos, it.rule)

\* Variant with a fault: drop before allow.
placed_DropFirst(rules, it) ==
    insert_rule(rules, IF it.rule.kind = "drop" THEN 1 ELSE it.pos, it.rule)

placed(rules, it) == insert_rule(rules, it.pos, it.rule)

\* The rule is inserted, which fails beyond the end of the chain or when the
\* set that it matches against is not there.
ensure_rule_present(p) ==
    LET it == Item(p)
        f  == IF it.chain = "DOCKERWALL-OUTPUT6" THEN "v6" ELSE "v4"
    IN  /\ proc[p].pc = "insert"
        /\ IF /\ can_insert(chain[it.chain], it.pos)
              /\ it.rule.kind = "allow" => <<it.rule.name, f>> \in sets
           THEN /\ chain' = [chain EXCEPT ![it.chain] = placed(@, it)]
                /\ next_item(p)
                /\ UNCHANGED last
           ELSE ends(p) /\ UNCHANGED chain
        /\ UNCHANGED <<addrs, sets, started, faults, overlapped>>

\* The policy is sent to the daemon, and the command prints the addresses.
send_create(p) ==
    /\ proc[p].pc = "send"
    /\ goes(p, Idle)
    /\ last' = [last EXCEPT ![proc[p].name] =
                  [status |-> IF proc[p].single THEN "ok" ELSE "broken",
                   src4 |-> proc[p].src4, src6 |-> proc[p].src6, port |-> proc[p].port]]
    /\ UNCHANGED <<addrs, sets, chain, started, faults, overlapped>>

\* The two sets are created one after the other.
interrupted(p) ==
    /\ ends(p)
    /\ \/ UNCHANGED sets
       \/ /\ proc[p].pc = "create"
          /\ sets' = sets \cup {<<proc[p].name, "v4">>}
    /\ fault
    /\ UNCHANGED <<addrs, chain, started, overlapped>>

\* A command whose failure counts fails for a reason outside this model.
run_command_checked_fails(p) ==
    /\ "command" \in Faults
    /\ proc[p].pc \notin {"idle", "destroy"}
    /\ proc[p].pc = "rule" => Item(p).pos = 0
    /\ interrupted(p)

\* The process is killed between two commands.
killed(p) ==
    /\ "kill" \in Faults
    /\ proc[p].pc # "idle"
    /\ interrupted(p)
-----------------------------------------------------------------------------
Step(p) ==
    \/ ensure_rootless_dns_alias(p)
    \/ ensure_rootless_dns_daemon(p)
    \/ allocate_read4(p)
    \/ allocate_probe4(p)
    \/ allocate_read6(p)
    \/ allocate_probe6(p)
    \/ assign4(p)
    \/ configure_rootless_podman_source_ipv6(p)
    \/ destroy_ipsets(p)
    \/ create_ipsets(p)
    \/ ensure_chain(p)
    \/ remove_rule_all(p)
    \/ ensure_rule_present(p)
    \/ send_create(p)
    \/ run_command_checked_fails(p)
    \/ killed(p)

Next == \E p \in Procs :
    /\ \A q \in Procs \ {p} : proc[q].pc \in Interleaved
    /\ prepare_rootless_podman_network(p) \/ Step(p)

Spec == Init /\ [][Next]_vars
-----------------------------------------------------------------------------
(* Properties *)

\* The new connections of a policy that rules tell apart: to addresses in the
\* set of a name, to a DNS port, neighbour discovery, and all others.
Destinations ==
    ({"allow"} \X Names) \cup ({"dns-udp", "dns-tcp"} \X Ports)
    \cup ({"neighbor-solicitation", "neighbor-advertisement", "other"} \X {None})

Rules(f) == IF Filter[f] \in DOMAIN chain THEN chain[Filter[f]] ELSE <<>>

\* What the filter does with one: only a hook in OUTPUT leads to the own
\* chain, established connections apart, and what nothing drops goes out.
Passes(f, src, d) ==
    LET hooked == \E i \in DOMAIN chain[Hooks[f]] : chain[Hooks[f]][i].src = src
        matches(r) ==
            /\ r.src = src
            /\ r.kind = "drop" \/ d = <<r.kind, IF r.kind = "allow" THEN r.name ELSE r.arg>>
        i == FirstMatch(Rules(f), matches)
    IN  ~hooked \/ i = 0 \/ Rules(f)[i].kind # "drop"

\* Names whose last preparation finished, with no other one of the name at
\* the same time and none under way since.
Settled == {n \in Names : last[n].status = "ok" /\ Free(n)}

Source(f, n) == IF f = "v4" THEN last[n].src4 ELSE last[n].src6

\* What a policy is meant to reach.
Meant(f, n) ==
    {<<"allow", n>>}
    \cup (IF f = "v4" THEN {"dns-udp", "dns-tcp"} \X {last[n].port}
          ELSE {"neighbor-solicitation", "neighbor-advertisement"} \X {None})

\* Nobody else has rules for the address in a chain.
Exclusive(c, f, n) ==
    c \in DOMAIN chain =>
        \A i \in DOMAIN chain[c] : chain[c][i].src = Source(f, n) => chain[c][i].name = n

\* From the source of a policy, as long as no other policy has it as well,
\* exactly its set, its DNS port and neighbour discovery are reachable: over
\* both families, whatever address it got, whatever an earlier preparation
\* with another port or interface left behind, whatever deletions failed, and
\* whatever preparations of other names, failed and killed ones included, did.
RootlessFirewall ==
    \A n \in Settled, f \in Families : Source(f, n) # None /\ Exclusive(Filter[f], f, n) =>
        \A d \in Destinations : Passes(f, Source(f, n), d) <=> d \in Meant(f, n)

\* Two policies share a source address only if some preparations overlapped:
\* one at a time, the rules and the host's addresses tell of every address
\* in use, also after preparations that failed or were killed anywhere.
SharedOnlyByOverlap ==
    overlapped \/ \A n \in Settled, f \in Families : Source(f, n) # None =>
        \A c \in ChainsOf(f) : Exclusive(c, f, n)

\* Where queries to the alias end up: a redirection decides the port.
DnsPort(n, k) ==
    LET matches(r) == r.src = last[n].src4 /\ r.kind = k
        i == FirstMatch(chain["nat-OUTPUT"], matches)
    IN  IF i = 0 THEN 53 ELSE chain["nat-OUTPUT"][i].arg

\* Queries of a policy reach the port of the daemon it was last prepared
\* with, although redirections to earlier ports stay in the table.  With port
\* 53 no redirection is added, and an earlier one is still in force.
DnsReachesDaemon ==
    \A n \in Settled, k \in {"dns-udp", "dns-tcp"} :
        last[n].port # 53 /\ Exclusive("nat-OUTPUT", "v4", n) => DnsPort(n, k) = last[n].port

\* Preparing a policy again, when no attempt at it failed in between, leaves
\* it its addresses, so that containers that use them keep their rules.
AddressKept ==
    [][\A n \in Names : last[n].status = "busy" /\ last'[n].status = "ok" =>
        /\ last'[n].src4 = last[n].src4
        /\ last[n].src6 # None /\ last'[n].src6 # None /\ last[n].src6[1] = last'[n].src6[1]
            => last'[n].src6 = last[n].src6]_vars
=============================================================================
