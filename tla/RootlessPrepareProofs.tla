----------------------- MODULE RootlessPrepareProofs -----------------------
(***************************************************************************)
(* Proofs about RootlessPrepare for every set of policies, hash, port,     *)
(* interface and environment, and for chains of any length.                *)
(***************************************************************************)
EXTENDS RootlessPrepare, IptablesProofs

-----------------------------------------------------------------------------
(* What makes the properties inductive *)

\* Where a process knows port and interface, has chosen its addresses, and has
\* put them on the host.
Informed == Pcs \ {"idle", "alias", "daemon"}
Chosen   == [v4 |-> Informed \ {"read4", "probe4"},
             v6 |-> Informed \ {"read4", "probe4", "read6", "probe6"}]
Holding  == [v4 |-> {"assign6", "destroy", "create", "rule", "insert", "send"},
             v6 |-> {"destroy", "create", "rule", "insert", "send"}]

\* The locals that a process needs are there when it needs them, and so are
\* the chains its rules go to.
LocalsSet(l, chains) ==
    /\ l.pc = "idle" => l = Idle
    /\ l.pc # "idle" => l.name \in Names
    /\ l.pc \in Informed => l.port \in Ports /\ l.iface \in Interfaces
    /\ l.pc \in Chosen["v4"] => l.src4 \in Source4
    /\ l.pc \notin Chosen["v6"] => l.src6 = None
    /\ l.pc = "assign6" => l.src6 \in Source6
    /\ l.pc = "probe6" => rootless_podman_ipv6_prefix(l.iface) \in Routed
    /\ l.pc \notin {"rule", "insert", "send"} => l.rule = 1
    /\ l.pc \in {"rule", "insert"} =>
        LET items == ensure_rootless_podman_rules(l) IN
        /\ l.rule <= Len(items)
        /\ \A i \in 1..(l.rule - 1) : items[i].pos = 0 => items[i].chain \in chains
        /\ l.pc = "insert" => items[l.rule].pos # 0

TypeInv == TypeOK /\ \A p \in Procs : LocalsSet(proc[p], DOMAIN chain)

SourceOf(p, f) == IF f = "v4" THEN proc[p].src4 ELSE proc[p].src6

\* A hook rule with a name's marker is the name's.
OwnMarkers == \A m, n \in Names : <<m, n>> \in MarkerIn => m = n

\* Every rule about a source of a family.
RulesFor(f) == UNION {{chain[c][i] : i \in DOMAIN chain[c]} : c \in ChainsOf(f) \cap DOMAIN chain}

\* An address in a rule is on the host and belongs to one name, and so does
\* one that was given out or chosen.
OneOwner(f) ==
    /\ \A r \in RulesFor(f) : r.src \in addrs[f]
    /\ \A r, t \in RulesFor(f) : r.src = t.src => r.name = t.name
    /\ \A n \in Names : Source(f, n) # None =>
        /\ Source(f, n) \in addrs[f]
        /\ \A r \in RulesFor(f) : r.src = Source(f, n) => r.name = n
    /\ \A p \in Procs : SourceOf(p, f) # None =>
        /\ proc[p].pc \in Holding[f] => SourceOf(p, f) \in addrs[f]
        /\ \A r \in RulesFor(f) : r.src = SourceOf(p, f) => r.name = proc[p].name
        /\ \A n \in Names : Source(f, n) = SourceOf(p, f) => n = proc[p].name

SharedInv ==
    \/ overlapped
    \/ /\ \A p, q \in Procs : proc[p].pc # "idle" /\ proc[q].pc # "idle" => p = q
       /\ \A f \in Families : OneOwner(f)

\* Who else works on the name.
LedgerInv ==
    /\ \A p, q \in Procs : proc[p].single /\ proc[p].name = proc[q].name /\ proc[p].name # None => p = q
    /\ \A n \in Names : last[n].status = "ok" => Free(n)
    /\ \A n \in Names : last[n].status = "busy" => \A p \in Busy(n) : proc[p].single
    /\ \A n \in Names : last[n].status \in {"ok", "busy"} => last[n].src4 \in Source4 /\ last[n].port \in Ports

a_rule(kind, n, s, arg) == [kind |-> kind, name |-> n, src |-> s, arg |-> arg]

\* The first hook rule of the name, under the same prefix, has the address.
Hooked(tables, f, n, s) ==
    Leads(tables[Hooks[f]], {a_rule("hook", n, s, None)},
          {r \in RuleOf(Hooks[f]) : r.name = n /\ r.src # s /\ (f = "v6" => r.src[1] = s[1])})

\* The first redirection of the name and address leads to the port.
Redirected(tables, kind, n, s, port) ==
    Leads(tables["nat-OUTPUT"], {a_rule(kind, n, s, port)},
          {r \in RuleOf("nat-OUTPUT") : r.name = n /\ r.src = s /\ r.kind = kind /\ r.arg # port})

\* The position in the list after which the rules of a family come.
Base(f, port) == IF f = "v4" THEN 0 ELSE IF port = 53 THEN 8 ELSE 12

\* What a process that is alone with its name has put in place by the time it
\* is at a rule of its list.
Led(tables, n, s4, s6, port, at) ==
    /\ at > 2 => Hooked(tables, "v4", n, s4)
    /\ s6 # None /\ at > Base("v6", port) + 2 => Hooked(tables, "v6", n, s6)
    /\ port # 53 /\ at > 8 => Redirected(tables, "dns-udp", n, s4, port)
    /\ port # 53 /\ at > 9 => Redirected(tables, "dns-tcp", n, s4, port)

Beyond == 20

LedInv ==
    /\ \A n \in Names : last[n].status = "ok" =>
        Led(chain, n, last[n].src4, last[n].src6, last[n].port, Beyond)
    /\ \A p \in Procs : proc[p].single /\ proc[p].pc \in {"rule", "insert", "send"} =>
        Led(chain, proc[p].name, proc[p].src4, proc[p].src6, proc[p].port,
            IF proc[p].pc = "send" THEN Beyond ELSE proc[p].rule)

\* A policy that is prepared again finds its addresses: the process has them,
\* or will find them first.
Keeps(tables, l, n, s4, s6) ==
    /\ l.pc # "probe4"
    /\ IF l.pc \in Chosen["v4"] THEN l.src4 = s4 ELSE Hooked(tables, "v4", n, s4)
    /\ s6 # None =>
        /\ l.pc = "probe6" => s6[1] # rootless_podman_ipv6_prefix(l.iface)
        /\ IF l.pc \in Chosen["v6"] THEN l.src6 # None /\ l.src6[1] = s6[1] => l.src6 = s6
           ELSE Hooked(tables, "v6", n, s6)

KeptInv ==
    \A n \in Names : last[n].status = "busy" =>
        \A p \in Busy(n) : Keeps(chain, proc[p], n, last[n].src4, last[n].src6)

\* Nobody moves while rules are being installed.
InstallsAlone == Interleaved \cap {"rule", "insert"} = {}

\* The five rules of a family, in the order of the chain.
filter_kinds(f) ==
    IF f = "v4" THEN <<"established", "dns-udp", "dns-tcp", "allow", "drop">>
    ELSE <<"established", "neighbor-solicitation", "neighbor-advertisement", "allow", "drop">>

filter_rule(f, j, n, s, port) ==
    a_rule(filter_kinds(f)[j], n, s, IF f = "v4" /\ j \in {2, 3} THEN port ELSE None)

\* The drop rule is above whatever else the chain has under the name and the
\* address, and below the rules that let through.
Guarded(tables, f, n, s, port) ==
    LET mine == {r \in RuleOf(Filter[f]) : r.name = n /\ r.src = s}
        good == {filter_rule(f, j, n, s, port) : j \in 1..5}
    IN  /\ Filter[f] \in DOMAIN tables
        /\ Leads(tables[Filter[f]], {filter_rule(f, 5, n, s, port)}, mine \ good)
        /\ \A j \in 2..4 :
            Leads(tables[Filter[f]], {filter_rule(f, j, n, s, port)}, {r \in mine : r.kind = "drop"})

GuardedBoth(tables, n, s4, s6, port) ==
    /\ Guarded(tables, "v4", n, s4, port)
    /\ s6 # None => Guarded(tables, "v6", n, s6, port)

\* While they are installed, the rules of a family are on top of its chain.
OnTop(tables, f, n, s, port, at) ==
    \A j \in 1..5 : at > Base(f, port) + (2 + j) =>
        /\ j <= Len(tables[Filter[f]])
        /\ tables[Filter[f]][j] = filter_rule(f, j, n, s, port)

OnTopBoth(tables, l, at) ==
    /\ OnTop(tables, "v4", l.name, l.src4, l.port, at)
    /\ l.src6 # None => OnTop(tables, "v6", l.name, l.src6, l.port, at)

GuardInv ==
    /\ \A n \in Names : last[n].status = "ok" =>
        GuardedBoth(chain, n, last[n].src4, last[n].src6, last[n].port)
    /\ \A p \in Procs : proc[p].single /\ proc[p].pc = "send" =>
        GuardedBoth(chain, proc[p].name, proc[p].src4, proc[p].src6, proc[p].port)
    /\ \A p \in Procs : proc[p].pc \in {"rule", "insert"} => OnTopBoth(chain, proc[p], proc[p].rule)
-----------------------------------------------------------------------------
(* The list of rules *)

\* Locals from which the list can be made.
Ready(l) ==
    /\ l.name \in Names /\ l.src4 \in Source4 /\ l.src6 \in Source6 \cup {None}
    /\ l.port \in Ports /\ l.iface \in Interfaces

\* The joined list, part by part.
Parts(all, a, b, c, d) ==
    /\ Len(all) = Len(a) + Len(b) + Len(c) + Len(d)
    /\ \A i \in 1..Len(a) : all[i] = a[i]
    /\ \A i \in 1..Len(b) : all[Len(a) + i] = b[i]
    /\ \A i \in 1..Len(c) : all[Len(a) + Len(b) + i] = c[i]
    /\ \A i \in 1..Len(d) : all[Len(a) + Len(b) + Len(c) + i] = d[i]

LEMMA Joined ==
    ASSUME NEW S, NEW a \in Seq(S), NEW b \in Seq(S), NEW c \in Seq(S), NEW d \in Seq(S)
    PROVE  Parts(((a \o b) \o c) \o d, a, b, c, d)
<1>0. Len(a) \in Nat /\ Len(b) \in Nat /\ Len(c) \in Nat /\ Len(d) \in Nat
  BY LenProperties
<1> DEFINE ab == a \o b
           abc == ab \o c
           all == abc \o d
<1>1. /\ ab \in Seq(S) /\ Len(ab) = Len(a) + Len(b)
      /\ \A i \in 1..(Len(a) + Len(b)) : ab[i] = IF i <= Len(a) THEN a[i] ELSE b[i - Len(a)]
  BY ConcatProperties
<1> HIDE DEF ab
<1>11. ab \in Seq(S)
  BY <1>1
<1>2. /\ abc \in Seq(S) /\ Len(abc) = Len(ab) + Len(c)
      /\ \A i \in 1..(Len(ab) + Len(c)) : abc[i] = IF i <= Len(ab) THEN ab[i] ELSE c[i - Len(ab)]
  BY <1>11, ConcatProperties
<1> HIDE DEF abc
<1>12. abc \in Seq(S)
  BY <1>2
<1>3. /\ all \in Seq(S) /\ Len(all) = Len(abc) + Len(d)
      /\ \A i \in 1..(Len(abc) + Len(d)) : all[i] = IF i <= Len(abc) THEN abc[i] ELSE d[i - Len(abc)]
  BY <1>12, ConcatProperties
<1> HIDE DEF all
<1>4. Len(all) = Len(a) + Len(b) + Len(c) + Len(d)
  BY <1>0, <1>1, <1>2, <1>3
<1>5. \A i \in 1..Len(a) : all[i] = a[i]
  BY <1>0, <1>1, <1>2, <1>3
<1>6. \A i \in 1..Len(b) : all[Len(a) + i] = b[i]
  BY <1>0, <1>1, <1>2, <1>3
<1>7. \A i \in 1..Len(c) : all[Len(a) + Len(b) + i] = c[i]
  BY <1>0, <1>1, <1>2, <1>3
<1>8. ASSUME NEW i \in 1..Len(d) PROVE all[Len(a) + Len(b) + Len(c) + i] = d[i]
  <2>1. Len(abc) = Len(a) + Len(b) + Len(c)
    BY <1>0, <1>1, <1>2
  <2>2. Len(abc) + i \in 1..(Len(abc) + Len(d)) /\ ~(Len(abc) + i <= Len(abc)) /\ Len(abc) + i - Len(abc) = i
    BY <1>0, <2>1
  <2> QED BY <1>3, <2>1, <2>2
<1>9. Parts(all, a, b, c, d)
  BY <1>4, <1>5, <1>6, <1>7, <1>8 DEF Parts
<1> QED BY <1>9 DEF all, abc, ab

\* A rule, and where it goes.
at(c, pos, r) == [chain |-> c, pos |-> pos, rule |-> r]

\* What is in a list written out.
LEMMA Seven ==
    ASSUME NEW S, NEW x1 \in S, NEW x2 \in S, NEW x3 \in S, NEW x4 \in S, NEW x5 \in S, NEW x6 \in S, NEW x7 \in S
    PROVE  LET x == <<x1, x2, x3, x4, x5, x6, x7>> IN
           /\ x \in Seq(S) /\ Len(x) = 7
           /\ x[1] = x1 /\ x[2] = x2 /\ x[3] = x3 /\ x[4] = x4 /\ x[5] = x5 /\ x[6] = x6 /\ x[7] = x7
  OBVIOUS

LEMMA Four ==
    ASSUME NEW S, NEW x1 \in S, NEW x2 \in S, NEW x3 \in S, NEW x4 \in S
    PROVE  LET x == <<x1, x2, x3, x4>> IN
           /\ x \in Seq(S) /\ Len(x) = 4
           /\ x[1] = x1 /\ x[2] = x2 /\ x[3] = x3 /\ x[4] = x4
  OBVIOUS

\* The list of the code, rule by rule.
LEMMA ItemsAre ==
    ASSUME NEW l
    PROVE  LET I  == ensure_rootless_podman_rules(l)
               n  == l.name
               b6 == Base("v6", l.port)
           IN  /\ Len(I) = b6 + (IF l.src6 = None THEN 0 ELSE 7)
               /\ I[1] = at("DOCKERWALL-OUTPUT", 0, a_rule("hook", n, l.src4, None))
               /\ I[2] = at("OUTPUT", 1, a_rule("hook", n, l.src4, None))
               /\ \A j \in 1..5 : I[2 + j] = at("DOCKERWALL-OUTPUT", j, filter_rule("v4", j, n, l.src4, l.port))
               /\ l.port # 53 =>
                    /\ I[8] = at("nat-OUTPUT", 1, a_rule("dns-udp", n, l.src4, l.port))
                    /\ I[9] = at("nat-OUTPUT", 1, a_rule("dns-tcp", n, l.src4, l.port))
                    /\ I[10] = at("nat-PREROUTING", 1, a_rule("dns-udp", n, l.src4, l.port))
                    /\ I[11] = at("nat-PREROUTING", 1, a_rule("dns-tcp", n, l.src4, l.port))
               /\ I[b6] = at("nat-POSTROUTING", 1, a_rule("masquerade", n, l.src4, l.iface))
               /\ l.src6 # None =>
                    /\ I[b6 + 1] = at("DOCKERWALL-OUTPUT6", 0, a_rule("hook", n, l.src6, None))
                    /\ I[b6 + 2] = at("OUTPUT6", 1, a_rule("hook", n, l.src6, None))
                    /\ \A j \in 1..5 :
                        I[b6 + (2 + j)] = at("DOCKERWALL-OUTPUT6", j, filter_rule("v6", j, n, l.src6, l.port))
<1> DEFINE n  == l.name
           x1 == at("DOCKERWALL-OUTPUT", 0, a_rule("hook", n, l.src4, None))
           x2 == at("OUTPUT", 1, a_rule("hook", n, l.src4, None))
           x3 == at("DOCKERWALL-OUTPUT", 1, a_rule("established", n, l.src4, None))
           x4 == at("DOCKERWALL-OUTPUT", 2, a_rule("dns-udp", n, l.src4, l.port))
           x5 == at("DOCKERWALL-OUTPUT", 3, a_rule("dns-tcp", n, l.src4, l.port))
           x6 == at("DOCKERWALL-OUTPUT", 4, a_rule("allow", n, l.src4, None))
           x7 == at("DOCKERWALL-OUTPUT", 5, a_rule("drop", n, l.src4, None))
           y1 == at("nat-OUTPUT", 1, a_rule("dns-udp", n, l.src4, l.port))
           y2 == at("nat-OUTPUT", 1, a_rule("dns-tcp", n, l.src4, l.port))
           y3 == at("nat-PREROUTING", 1, a_rule("dns-udp", n, l.src4, l.port))
           y4 == at("nat-PREROUTING", 1, a_rule("dns-tcp", n, l.src4, l.port))
           z  == at("nat-POSTROUTING", 1, a_rule("masquerade", n, l.src4, l.iface))
           w1 == at("DOCKERWALL-OUTPUT6", 0, a_rule("hook", n, l.src6, None))
           w2 == at("OUTPUT6", 1, a_rule("hook", n, l.src6, None))
           w3 == at("DOCKERWALL-OUTPUT6", 1, a_rule("established", n, l.src6, None))
           w4 == at("DOCKERWALL-OUTPUT6", 2, a_rule("neighbor-solicitation", n, l.src6, None))
           w5 == at("DOCKERWALL-OUTPUT6", 3, a_rule("neighbor-advertisement", n, l.src6, None))
           w6 == at("DOCKERWALL-OUTPUT6", 4, a_rule("allow", n, l.src6, None))
           w7 == at("DOCKERWALL-OUTPUT6", 5, a_rule("drop", n, l.src6, None))
           a  == <<x1, x2, x3, x4, x5, x6, x7>>
           b  == IF l.port = 53 THEN <<>> ELSE <<y1, y2, y3, y4>>
           c  == <<z>>
           d  == IF l.src6 = None THEN <<>> ELSE <<w1, w2, w3, w4, w5, w6, w7>>
           S  == {x1, x2, x3, x4, x5, x6, x7, y1, y2, y3, y4, z, w1, w2, w3, w4, w5, w6, w7}
           all == ((a \o b) \o c) \o d
           b6 == Base("v6", l.port)
<1>0. ensure_rootless_podman_rules(l) = all
  BY DEF ensure_rootless_podman_rules, ensure_rootless_dns_redirects, ensure_rootless_podman_ipv6_rules,
         item, at, a_rule
<1>7. \A j \in 1..5 : /\ at("DOCKERWALL-OUTPUT", j, filter_rule("v4", j, n, l.src4, l.port)) =
                            (CASE j = 1 -> x3 [] j = 2 -> x4 [] j = 3 -> x5 [] j = 4 -> x6 [] j = 5 -> x7)
                      /\ at("DOCKERWALL-OUTPUT6", j, filter_rule("v6", j, n, l.src6, l.port)) =
                            (CASE j = 1 -> w3 [] j = 2 -> w4 [] j = 3 -> w5 [] j = 4 -> w6 [] j = 5 -> w7)
  BY DEF filter_rule, filter_kinds
<1>8. \A j \in 1..5 : j \in {1, 2, 3, 4, 5}
  OBVIOUS
<1>9. b6 = (IF l.port = 53 THEN 8 ELSE 12)
  BY DEF Base
<1> HIDE DEF x1, x2, x3, x4, x5, x6, x7, y1, y2, y3, y4, z, w1, w2, w3, w4, w5, w6, w7, b6
<1>1. a \in Seq(S) /\ Len(a) = 7
      /\ a[1] = x1 /\ a[2] = x2 /\ a[3] = x3 /\ a[4] = x4 /\ a[5] = x5 /\ a[6] = x6 /\ a[7] = x7
  BY Seven
<1>2. /\ b \in Seq(S)
      /\ Len(b) = (IF l.port = 53 THEN 0 ELSE 4)
      /\ l.port # 53 => b[1] = y1 /\ b[2] = y2 /\ b[3] = y3 /\ b[4] = y4
  <2>1. CASE l.port = 53
    BY <2>1
  <2>2. CASE l.port # 53
    <3> DEFINE t == <<y1, y2, y3, y4>>
    <3>1. t \in Seq(S) /\ Len(t) = 4 /\ t[1] = y1 /\ t[2] = y2 /\ t[3] = y3 /\ t[4] = y4
      BY Four
    <3>2. b = t
      BY <2>2
    <3> HIDE DEF b, t, S
    <3> QED BY <2>2, <3>1, <3>2
  <2> QED BY <2>1, <2>2
<1>3. c \in Seq(S) /\ Len(c) = 1 /\ c[1] = z
  OBVIOUS
<1>4. /\ d \in Seq(S)
      /\ Len(d) = (IF l.src6 = None THEN 0 ELSE 7)
      /\ l.src6 # None => d[1] = w1 /\ d[2] = w2 /\ d[3] = w3 /\ d[4] = w4 /\ d[5] = w5 /\ d[6] = w6 /\ d[7] = w7
  <2>1. CASE l.src6 = None
    BY <2>1
  <2>2. CASE l.src6 # None
    <3> DEFINE t == <<w1, w2, w3, w4, w5, w6, w7>>
    <3>1. t \in Seq(S) /\ Len(t) = 7
          /\ t[1] = w1 /\ t[2] = w2 /\ t[3] = w3 /\ t[4] = w4 /\ t[5] = w5 /\ t[6] = w6 /\ t[7] = w7
      BY Seven
    <3>2. d = t
      BY <2>2
    <3> HIDE DEF d, t, S
    <3> QED BY <2>2, <3>1, <3>2
  <2> QED BY <2>1, <2>2
<1> HIDE DEF a, b, c, d, S
<1>5. /\ Len(all) = Len(a) + Len(b) + Len(c) + Len(d)
      /\ \A i \in 1..Len(a) : all[i] = a[i]
      /\ \A i \in 1..Len(b) : all[Len(a) + i] = b[i]
      /\ \A i \in 1..Len(c) : all[Len(a) + Len(b) + i] = c[i]
      /\ \A i \in 1..Len(d) : all[Len(a) + Len(b) + Len(c) + i] = d[i]
  <2>1. a \in Seq(S) /\ b \in Seq(S) /\ c \in Seq(S) /\ d \in Seq(S)
    BY <1>1, <1>2, <1>3, <1>4
  <2>2. Parts(all, a, b, c, d)
    BY <2>1, Joined
  <2> HIDE DEF all
  <2> QED BY <2>2 DEF Parts
<1> HIDE DEF all
<1>12. Len(all) = b6 + (IF l.src6 = None THEN 0 ELSE 7)
  BY <1>1, <1>2, <1>3, <1>4, <1>5, <1>9
<1>13. /\ all[1] = x1 /\ all[2] = x2 /\ all[3] = x3 /\ all[4] = x4 /\ all[5] = x5 /\ all[6] = x6 /\ all[7] = x7
  BY <1>1, <1>5
<1>14. ASSUME l.port # 53 PROVE all[8] = y1 /\ all[9] = y2 /\ all[10] = y3 /\ all[11] = y4
  <2>1. Len(a) = 7 /\ Len(b) = 4
    BY <1>1, <1>2, <1>14
  <2>2. \A i \in 1..4 : all[7 + i] = b[i]
    BY <1>5, <2>1
  <2>3. 1 \in 1..4 /\ 2 \in 1..4 /\ 3 \in 1..4 /\ 4 \in 1..4 /\ 7 + 1 = 8 /\ 7 + 2 = 9 /\ 7 + 3 = 10 /\ 7 + 4 = 11
    OBVIOUS
  <2>4. all[7 + 1] = b[1] /\ all[7 + 2] = b[2] /\ all[7 + 3] = b[3] /\ all[7 + 4] = b[4]
    BY <2>2, <2>3
  <2> QED BY <1>2, <1>14, <2>3, <2>4
<1>15. all[b6] = z
  <2>1. Len(a) + Len(b) + 1 = b6 /\ 1 \in 1..Len(c)
    BY <1>1, <1>2, <1>3, <1>9
  <2> QED BY <1>3, <1>5, <2>1
<1>16. ASSUME l.src6 # None
       PROVE  /\ all[b6 + 1] = w1 /\ all[b6 + 2] = w2 /\ all[b6 + 3] = w3 /\ all[b6 + 4] = w4
              /\ all[b6 + 5] = w5 /\ all[b6 + 6] = w6 /\ all[b6 + 7] = w7
  <2>0. Len(a) + Len(b) + Len(c) = b6 /\ Len(d) = 7
    BY <1>1, <1>2, <1>3, <1>4, <1>9, <1>16
  <2>1. \A i \in 1..7 : all[b6 + i] = d[i]
    BY <1>5, <2>0
  <2>2. 1 \in 1..7 /\ 2 \in 1..7 /\ 3 \in 1..7 /\ 4 \in 1..7 /\ 5 \in 1..7 /\ 6 \in 1..7 /\ 7 \in 1..7
    OBVIOUS
  <2> QED BY <1>4, <1>16, <2>1, <2>2
<1>17. ASSUME NEW j \in 1..5
       PROVE  all[2 + j] = at("DOCKERWALL-OUTPUT", j, filter_rule("v4", j, n, l.src4, l.port))
  BY <1>7, <1>8, <1>13
<1>18. ASSUME NEW j \in 1..5, l.src6 # None
       PROVE  all[b6 + (2 + j)] = at("DOCKERWALL-OUTPUT6", j, filter_rule("v6", j, n, l.src6, l.port))
  <2>1. at("DOCKERWALL-OUTPUT6", j, filter_rule("v6", j, n, l.src6, l.port)) =
            (CASE j = 1 -> w3 [] j = 2 -> w4 [] j = 3 -> w5 [] j = 4 -> w6 [] j = 5 -> w7)
    BY <1>7
  <2>2. j = 1 \/ j = 2 \/ j = 3 \/ j = 4 \/ j = 5
    OBVIOUS
  <2> QED BY <1>16, <1>18, <2>1, <2>2
<1>19. /\ all[1] = at("DOCKERWALL-OUTPUT", 0, a_rule("hook", n, l.src4, None))
       /\ all[2] = at("OUTPUT", 1, a_rule("hook", n, l.src4, None))
  BY <1>13 DEF x1, x2
<1>20. l.port # 53 =>
        /\ all[8] = at("nat-OUTPUT", 1, a_rule("dns-udp", n, l.src4, l.port))
        /\ all[9] = at("nat-OUTPUT", 1, a_rule("dns-tcp", n, l.src4, l.port))
        /\ all[10] = at("nat-PREROUTING", 1, a_rule("dns-udp", n, l.src4, l.port))
        /\ all[11] = at("nat-PREROUTING", 1, a_rule("dns-tcp", n, l.src4, l.port))
  BY <1>14 DEF y1, y2, y3, y4
<1>21. all[b6] = at("nat-POSTROUTING", 1, a_rule("masquerade", n, l.src4, l.iface))
  BY <1>15 DEF z
<1>22. l.src6 # None =>
        /\ all[b6 + 1] = at("DOCKERWALL-OUTPUT6", 0, a_rule("hook", n, l.src6, None))
        /\ all[b6 + 2] = at("OUTPUT6", 1, a_rule("hook", n, l.src6, None))
  BY <1>16 DEF w1, w2
<1> QED BY <1>0, <1>12, <1>17, <1>18, <1>19, <1>20, <1>21, <1>22 DEF b6

LEMMA ListLength ==
    ASSUME NEW l
    PROVE  /\ Len(ensure_rootless_podman_rules(l)) \in Nat
           /\ Len(ensure_rootless_podman_rules(l)) >= 8
<1>1. Len(ensure_rootless_podman_rules(l)) = Base("v6", l.port) + (IF l.src6 = None THEN 0 ELSE 7)
  BY ItemsAre
<1>2. Base("v6", l.port) \in {8, 12}
  BY DEF Base
<1> QED BY <1>1, <1>2

\* The address of a family in a process's locals.
SourceIn(l, f) == IF f = "v4" THEN l.src4 ELSE l.src6

\* What any entry of the list can be.
LEMMA ItemCases ==
    ASSUME NEW l, NEW i \in 1..Len(ensure_rootless_podman_rules(l))
    PROVE  LET it == ensure_rootless_podman_rules(l)[i]
               n  == l.name
               b6 == Base("v6", l.port)
           IN  \/ i = 1 /\ it = at("DOCKERWALL-OUTPUT", 0, a_rule("hook", n, l.src4, None))
               \/ i = 2 /\ it = at("OUTPUT", 1, a_rule("hook", n, l.src4, None))
               \/ \E j \in 1..5 : i = 2 + j /\ it = at("DOCKERWALL-OUTPUT", j, filter_rule("v4", j, n, l.src4, l.port))
               \/ i = 8 /\ l.port # 53 /\ it = at("nat-OUTPUT", 1, a_rule("dns-udp", n, l.src4, l.port))
               \/ i = 9 /\ l.port # 53 /\ it = at("nat-OUTPUT", 1, a_rule("dns-tcp", n, l.src4, l.port))
               \/ i = 10 /\ l.port # 53 /\ it = at("nat-PREROUTING", 1, a_rule("dns-udp", n, l.src4, l.port))
               \/ i = 11 /\ l.port # 53 /\ it = at("nat-PREROUTING", 1, a_rule("dns-tcp", n, l.src4, l.port))
               \/ i = b6 /\ it = at("nat-POSTROUTING", 1, a_rule("masquerade", n, l.src4, l.iface))
               \/ i = b6 + 1 /\ l.src6 # None /\ it = at("DOCKERWALL-OUTPUT6", 0, a_rule("hook", n, l.src6, None))
               \/ i = b6 + 2 /\ l.src6 # None /\ it = at("OUTPUT6", 1, a_rule("hook", n, l.src6, None))
               \/ \E j \in 1..5 : i = b6 + (2 + j) /\ l.src6 # None
                                  /\ it = at("DOCKERWALL-OUTPUT6", j, filter_rule("v6", j, n, l.src6, l.port))
<1> DEFINE I == ensure_rootless_podman_rules(l)
           b6 == Base("v6", l.port)
<1>1. b6 = (IF l.port = 53 THEN 8 ELSE 12) /\ Len(I) = b6 + (IF l.src6 = None THEN 0 ELSE 7)
  BY ItemsAre DEF Base
<1> HIDE DEF b6, I
<1>2. \/ i = 1 \/ i = 2
      \/ \E j \in 1..5 : i = 2 + j
      \/ l.port # 53 /\ (i = 8 \/ i = 9 \/ i = 10 \/ i = 11)
      \/ i = b6
      \/ l.src6 # None /\ (i = b6 + 1 \/ i = b6 + 2 \/ \E j \in 1..5 : i = b6 + (2 + j))
  <2>1. i \in 1..Len(I)
    BY DEF I
  <2>2. CASE i <= 7
    <3>1. i = 1 \/ i = 2 \/ (i - 2 \in 1..5 /\ i = 2 + (i - 2))
      BY <2>1, <2>2
    <3> QED BY <3>1
  <2>3. CASE i > b6
    <3>1. l.src6 # None /\ i <= b6 + 7 /\ b6 \in Nat
      BY <1>1, <2>1, <2>3
    <3>2. i = b6 + 1 \/ i = b6 + 2 \/ ((i - b6) - 2 \in 1..5 /\ i = b6 + (2 + ((i - b6) - 2)))
      BY <2>1, <2>3, <3>1
    <3> QED BY <3>1, <3>2
  <2>4. CASE i > 7 /\ i <= b6
    BY <1>1, <2>1, <2>4
  <2> QED BY <1>1, <2>1, <2>2, <2>3, <2>4
<1> QED BY <1>2, ItemsAre DEF I, b6

\* Rules fit the chains they are for.
LEMMA RuleFits ==
    ASSUME NEW l, Ready(l)
    PROVE  /\ a_rule("hook", l.name, l.src4, None) \in RuleOf("OUTPUT")
           /\ \A j \in 1..5 : filter_rule("v4", j, l.name, l.src4, l.port) \in RuleOf("DOCKERWALL-OUTPUT")
           /\ \A k \in {"dns-udp", "dns-tcp"}, c \in {"nat-OUTPUT", "nat-PREROUTING"} :
                a_rule(k, l.name, l.src4, l.port) \in RuleOf(c)
           /\ a_rule("masquerade", l.name, l.src4, l.iface) \in RuleOf("nat-POSTROUTING")
           /\ l.src6 # None =>
                /\ a_rule("hook", l.name, l.src6, None) \in RuleOf("OUTPUT6")
                /\ \A j \in 1..5 : filter_rule("v6", j, l.name, l.src6, l.port) \in RuleOf("DOCKERWALL-OUTPUT6")
<1> USE DEF Ready, a_rule, Rule
<1>1. a_rule("hook", l.name, l.src4, None) \in RuleOf("OUTPUT")
  BY DEF RuleOf
<1>2. ASSUME NEW j \in 1..5
      PROVE  filter_rule("v4", j, l.name, l.src4, l.port) \in RuleOf("DOCKERWALL-OUTPUT")
  <2>1. filter_kinds("v4")[j] \in {"established", "dns-udp", "dns-tcp", "allow", "drop"}
    BY DEF filter_kinds
  <2>2. RuleOf("DOCKERWALL-OUTPUT") = Rule({"hook", "established", "dns-udp", "dns-tcp", "allow", "drop"},
                                           Source4, Ports \cup {None})
    BY DEF RuleOf
  <2> QED BY <2>1, <2>2 DEF filter_rule
<1>3. ASSUME NEW k \in {"dns-udp", "dns-tcp"}, NEW c \in {"nat-OUTPUT", "nat-PREROUTING"}
      PROVE  a_rule(k, l.name, l.src4, l.port) \in RuleOf(c)
  BY DEF RuleOf
<1>4. a_rule("masquerade", l.name, l.src4, l.iface) \in RuleOf("nat-POSTROUTING")
  BY DEF RuleOf
<1>5. ASSUME l.src6 # None
      PROVE  a_rule("hook", l.name, l.src6, None) \in RuleOf("OUTPUT6")
  BY <1>5 DEF RuleOf
<1>6. ASSUME l.src6 # None, NEW j \in 1..5
      PROVE  filter_rule("v6", j, l.name, l.src6, l.port) \in RuleOf("DOCKERWALL-OUTPUT6")
  <2>1. filter_kinds("v6")[j] \in {"established", "neighbor-solicitation", "neighbor-advertisement", "allow", "drop"}
    BY DEF filter_kinds
  <2>2. RuleOf("DOCKERWALL-OUTPUT6") = Rule({"hook", "established", "neighbor-solicitation",
                        "neighbor-advertisement", "allow", "drop"}, Source6, {None})
    BY DEF RuleOf
  <2> QED BY <1>6, <2>1, <2>2 DEF filter_rule
<1> QED BY <1>1, <1>2, <1>3, <1>4, <1>5, <1>6

\* What the proofs use of an entry.
LEMMA ItemFacts ==
    ASSUME NEW l, NEW i \in 1..Len(ensure_rootless_podman_rules(l))
    PROVE  LET it == ensure_rootless_podman_rules(l)[i] IN
           /\ it.pos \in 0..5
           /\ it.chain \in BuiltIn \cup Own
           /\ it.pos = 0 => it.chain \in Own
           /\ it.pos # 0 /\ it.chain \in Own =>
                \E j \in 1..(i - 1) : /\ ensure_rootless_podman_rules(l)[j].pos = 0
                                      /\ ensure_rootless_podman_rules(l)[j].chain = it.chain
           /\ it.rule.name = l.name
           /\ \A f \in Families : it.chain \in ChainsOf(f) => it.rule.src = SourceIn(l, f) /\ (f = "v6" => l.src6 # None)
           /\ Ready(l) /\ it.pos # 0 => it.rule \in RuleOf(it.chain)
<1> DEFINE I == ensure_rootless_podman_rules(l)
           it == I[i]
           b6 == Base("v6", l.port)
           Good(c, q, r) ==
             /\ q \in 0..5
             /\ c \in BuiltIn \cup Own
             /\ q = 0 => c \in Own
             /\ q # 0 /\ c \in Own => \E j \in 1..(i - 1) : I[j].pos = 0 /\ I[j].chain = c
             /\ r.name = l.name
             /\ \A f \in Families : c \in ChainsOf(f) => r.src = SourceIn(l, f) /\ (f = "v6" => l.src6 # None)
             /\ Ready(l) /\ q # 0 => r \in RuleOf(c)
           hook4 == a_rule("hook", l.name, l.src4, None)
           hook6 == a_rule("hook", l.name, l.src6, None)
<1> SUFFICES Good(it.chain, it.pos, it.rule)
  OBVIOUS
<1>1. ASSUME NEW c, NEW q, NEW r, it = at(c, q, r), Good(c, q, r) PROVE Good(it.chain, it.pos, it.rule)
  <2>1. it.chain = c /\ it.pos = q /\ it.rule = r
    BY <1>1 DEF at
  <2> HIDE DEF Good, it
  <2> QED BY <1>1, <2>1
<1>2. b6 \in Nat /\ b6 > 1
  BY DEF Base
<1>3. I[1].pos = 0 /\ I[1].chain = "DOCKERWALL-OUTPUT"
  <2>1. I[1] = at("DOCKERWALL-OUTPUT", 0, hook4)
    BY ItemsAre
  <2> QED BY <2>1 DEF at
<1>4. ASSUME l.src6 # None PROVE I[b6 + 1].pos = 0 /\ I[b6 + 1].chain = "DOCKERWALL-OUTPUT6"
  <2>1. I[b6 + 1] = at("DOCKERWALL-OUTPUT6", 0, hook6)
    BY <1>4, ItemsAre
  <2> QED BY <2>1 DEF at
<1> HIDE DEF I, b6, it
<1> USE DEF Families, ChainsOf, BuiltIn, Own, SourceIn
<1>5. Good("DOCKERWALL-OUTPUT", 0, hook4) /\ Good("OUTPUT", 1, hook4)
  <2>1. Ready(l) => hook4 \in RuleOf("OUTPUT")
    BY RuleFits
  <2> QED BY <2>1 DEF a_rule
<1>7. ASSUME NEW j \in 1..5, i = 2 + j
      PROVE  Good("DOCKERWALL-OUTPUT", j, filter_rule("v4", j, l.name, l.src4, l.port))
  <2>1. 1 \in 1..(i - 1)
    BY <1>7
  <2>2. LET r == filter_rule("v4", j, l.name, l.src4, l.port) IN r.name = l.name /\ r.src = l.src4
    BY DEF filter_rule, a_rule
  <2> QED BY <1>3, <2>1, <2>2, RuleFits
<1>8. ASSUME NEW k \in {"dns-udp", "dns-tcp"}, NEW c \in {"nat-OUTPUT", "nat-PREROUTING"}
      PROVE  Good(c, 1, a_rule(k, l.name, l.src4, l.port))
  <2>1. Ready(l) => a_rule(k, l.name, l.src4, l.port) \in RuleOf(c)
    BY RuleFits
  <2> QED BY <2>1 DEF a_rule
<1>9. Good("nat-POSTROUTING", 1, a_rule("masquerade", l.name, l.src4, l.iface))
  <2>1. Ready(l) => a_rule("masquerade", l.name, l.src4, l.iface) \in RuleOf("nat-POSTROUTING")
    BY RuleFits
  <2> QED BY <2>1 DEF a_rule
<1>10. ASSUME l.src6 # None PROVE Good("DOCKERWALL-OUTPUT6", 0, hook6) /\ Good("OUTPUT6", 1, hook6)
  <2>1. Ready(l) => hook6 \in RuleOf("OUTPUT6")
    BY <1>10, RuleFits
  <2> QED BY <1>10, <2>1 DEF a_rule
<1>12. ASSUME NEW j \in 1..5, i = b6 + (2 + j), l.src6 # None
       PROVE  Good("DOCKERWALL-OUTPUT6", j, filter_rule("v6", j, l.name, l.src6, l.port))
  <2>1. b6 + 1 \in 1..(i - 1)
    BY <1>2, <1>12
  <2>2. LET r == filter_rule("v6", j, l.name, l.src6, l.port) IN r.name = l.name /\ r.src = l.src6
    BY DEF filter_rule, a_rule
  <2> QED BY <1>4, <1>12, <2>1, <2>2, RuleFits
<1> HIDE DEF Good, hook4, hook6
<1>13. \E c, q, r : it = at(c, q, r) /\ Good(c, q, r)
  BY ItemCases, <1>5, <1>7, <1>8, <1>9, <1>10, <1>12 DEF I, b6, it, hook4, hook6
<1> QED BY <1>1, <1>13
-----------------------------------------------------------------------------
(* Types *)

\* The search for an address stays in the range that is routed.
LEMMA SourceTypes ==
    ASSUME NEW h \in Nat, NEW a \in Nat
    PROVE  /\ rootless_podman_source_ip(h, a) \in Source4
           /\ \A x \in Routed : rootless_podman_source_ipv6(x, h, a) \in Source6
<1>0. SourceSlots \in Nat \ {0}
  <2>1. \A n \in Nat : \A k \in 1..n : k \in Nat \ {0}
    OBVIOUS
  <2>2. 2 * Octet * Octet - 3 \in Nat
    BY DEF Octet
  <2> QED BY <2>1, <2>2, AddressingAssumption
<1>1. \A y \in Nat, m \in Nat \ {0} : y % m \in 0..(m - 1)
  OBVIOUS
<1>2. ((h % SourceSlots) + a) % SourceSlots \in 0..(SourceSlots - 1)
  BY <1>0, <1>1
<1>3. (h + a) % HostIds \in 0..(HostIds - 1)
  BY <1>1, AddressingAssumption
<1> QED BY <1>0, <1>2, <1>3, AddressingAssumption
        DEF rootless_podman_source_ip, rootless_podman_source_ipv6, Source4, Source6, SourceOffsets

LEMMA PrefixRouted ==
    ASSUME NEW i \in Interfaces, rootless_podman_ipv6_prefix(i) # None
    PROVE  rootless_podman_ipv6_prefix(i) \in Routed
  BY DEF Routed

\* The address that is used again is that of the first own hook rule.
LEMMA ReusableIs ==
    ASSUME NEW S, NEW f \in Families, NEW n, NEW x, chain[Hooks[f]] \in Seq(S)
    PROVE  LET c == chain[Hooks[f]] IN
           \/ /\ reusable(f, n, x) = None
              /\ \A i \in 1..Len(c) : ~own_hook(c[i], f, n, x)
           \/ \E k \in 1..Len(c) :
                /\ reusable(f, n, x) = c[k].src
                /\ own_hook(c[k], f, n, x)
                /\ \A i \in 1..(k - 1) : ~own_hook(c[i], f, n, x)
<1> DEFINE c == chain[Hooks[f]]
           own(r) == own_hook(r, f, n, x)
           I == {i \in 1..Len(c) : own(c[i])}
           k == FirstMatch(c, own)
<1>1. reusable(f, n, x) = IF k = 0 THEN None ELSE c[k].src
  BY DEF reusable
<1>2. k = IF I # {} THEN Min(I) ELSE 0
  BY DEF FirstMatch, SelectInSeq
<1> HIDE DEF k, c, own
<1>3. CASE I = {}
  <2>1. \A i \in 1..Len(c) : ~own(c[i])
    BY <1>3
  <2> QED BY <1>1, <1>2, <1>3, <2>1 DEF c, own
<1>4. CASE I # {}
  <2>1. c \in Seq(S) /\ Len(c) \in Nat
    BY LenProperties DEF c
  <2>2. I \in SUBSET (1..Len(c))
    OBVIOUS
  <2>3. k \in I /\ \A i \in I : k <= i
    BY <1>2, <1>4, <2>1, <2>2, FirstMatchIsFirst
  <2>4. k \in 1..Len(c) /\ own(c[k]) /\ k # 0
    BY <2>3
  <2>5. ASSUME NEW i \in 1..(k - 1) PROVE ~own(c[i])
    <3>1. i \in 1..Len(c) /\ ~(k <= i)
      BY <2>1, <2>4
    <3> QED BY <2>3, <3>1
  <2> QED BY <1>1, <2>4, <2>5 DEF c, own
<1> QED BY <1>3, <1>4

\* The family of a chain is that of the addresses in its rules.
Sources(f) == IF f = "v4" THEN Source4 ELSE Source6

LEMMA RuleSources ==
    ASSUME NEW f \in Families, NEW c \in ChainsOf(f), NEW r \in RuleOf(c)
    PROVE  r.name \in Names /\ r.src \in Sources(f)
<1>1. CASE f = "v4"
  BY <1>1 DEF Families, ChainsOf, BuiltIn, RuleOf, Rule, Sources
<1>2. CASE f = "v6"
  <2>1. c \in {"OUTPUT6", "DOCKERWALL-OUTPUT6"}
    BY <1>2 DEF ChainsOf
  <2>2. RuleOf(c) = Rule({"hook", "established", "neighbor-solicitation",
                          "neighbor-advertisement", "allow", "drop"}, Source6, {None})
    BY <2>1 DEF RuleOf
  <2> QED BY <1>2, <2>2 DEF Rule, Sources
<1> QED BY <1>1, <1>2 DEF Families

\* All of the type invariant that is not about processes.
WorldOK ==
    /\ addrs \in [v4 : SUBSET (Source4 \cup {RootlessDnsIp}), v6 : SUBSET Source6]
    /\ sets \subseteq Names \X Families
    /\ BuiltIn \subseteq DOMAIN chain /\ DOMAIN chain \subseteq BuiltIn \cup Own
    /\ \A c \in DOMAIN chain : chain[c] \in Seq(RuleOf(c))
    /\ last \in [Names -> Outcome]
    /\ started \in 0 .. MaxPreparations
    /\ faults \in 0 .. MaxFaults
    /\ overlapped \in BOOLEAN

LEMMA InitType == Init => TypeInv
<1> SUFFICES ASSUME Init PROVE TypeInv
  OBVIOUS
<1> USE DEF Init
<1>1. Idle \in Process
  BY AddressingAssumption, RootlessAssumption DEF Idle, Process, Pcs
<1>2. LocalsSet(Idle, DOMAIN chain)
  BY DEF LocalsSet, Idle, Informed, Chosen, Pcs
<1>3. addrs \in [v4 : SUBSET (Source4 \cup {RootlessDnsIp}), v6 : SUBSET Source6]
  BY RootlessAssumption DEF Source4
<1>4. last \in [Names -> Outcome]
  BY DEF Outcome
<1>5. DOMAIN chain = BuiltIn /\ \A c \in BuiltIn : chain[c] \in Seq(RuleOf(c))
  OBVIOUS
<1>6. started \in 0 .. MaxPreparations /\ faults \in 0 .. MaxFaults
  BY RootlessAssumption
<1>7. TypeOK
  <2>1. overlapped \in BOOLEAN /\ sets \subseteq Names \X Families
    OBVIOUS
  <2> QED BY <1>1, <1>3, <1>4, <1>5, <1>6, <2>1 DEF TypeOK
<1>8. \A p \in Procs : LocalsSet(proc[p], DOMAIN chain)
  BY <1>2
<1> QED BY <1>7, <1>8 DEF TypeInv

\* A step of one process keeps the type invariant if it leaves that process
\* with the locals it needs; chains only come into being.
LEMMA TypeStep ==
    ASSUME TypeInv, NEW p \in Procs, NEW l \in Process, goes(p, l),
           LocalsSet(l, DOMAIN chain'), DOMAIN chain \subseteq DOMAIN chain', WorldOK'
    PROVE  TypeInv'
<1>1. proc' \in [Procs -> Process] /\ \A q \in Procs : proc'[q] = IF q = p THEN l ELSE proc[q]
  BY DEF TypeInv, TypeOK, goes
<1>2. ASSUME NEW q \in Procs PROVE LocalsSet(proc'[q], DOMAIN chain')
  <2>1. CASE q = p
    BY <1>1, <2>1
  <2>2. CASE q # p
    BY <1>1, <2>2 DEF TypeInv, LocalsSet
  <2> QED BY <2>1, <2>2
<1> QED BY <1>1, <1>2 DEF TypeInv, TypeOK, WorldOK

\* The rest of the world stays well typed under the changes that steps make.
LEMMA WorldSame ==
    ASSUME TypeInv, UNCHANGED <<addrs, sets, chain, last, started, faults, overlapped>>
    PROVE  WorldOK'
  BY DEF TypeInv, TypeOK, WorldOK

LEMMA EndsType ==
    ASSUME TypeInv, NEW p \in Procs, proc[p].pc # "idle", ends(p)
    PROVE  /\ last' \in [Names -> Outcome]
           /\ goes(p, Idle) /\ Idle \in Process
           /\ \A chains : LocalsSet(Idle, chains)
<1>1. last \in [Names -> Outcome] /\ proc[p].name \in Names
  BY DEF TypeInv, TypeOK, LocalsSet
<1>2. last' \in [Names -> Outcome]
  BY <1>1 DEF ends, Outcome
<1>3. Idle \in Process
  BY AddressingAssumption, RootlessAssumption DEF Idle, Process, Pcs
<1>4. \A chains : LocalsSet(Idle, chains)
  BY DEF LocalsSet, Idle, Informed, Chosen, Pcs
<1> QED BY <1>2, <1>3, <1>4 DEF ends

\* The steps before the rules.
LEMMA AllocateType ==
    ASSUME TypeInv, NEW p \in Procs,
           \/ ensure_rootless_dns_alias(p)
           \/ ensure_rootless_dns_daemon(p)
           \/ allocate_read4(p)
           \/ allocate_probe4(p)
           \/ allocate_read6(p)
           \/ allocate_probe6(p)
    PROVE  TypeInv'
<1> DEFINE l == proc[p]
           D == DOMAIN chain
<1>0. l \in Process /\ LocalsSet(l, D) /\ BuiltIn \subseteq D /\ \A c \in D : chain[c] \in Seq(RuleOf(c))
  BY DEF TypeInv, TypeOK
<1>1. CASE ensure_rootless_dns_alias(p)
  <2> DEFINE m == [l EXCEPT !.pc = "daemon"]
  <2>1. m \in Process /\ LocalsSet(m, D)
    BY <1>0, <1>1 DEF ensure_rootless_dns_alias, Process, Pcs, LocalsSet, Informed, Chosen
  <2>2. WorldOK' /\ D \subseteq DOMAIN chain' /\ LocalsSet(m, DOMAIN chain') /\ goes(p, m)
    BY <1>1, <2>1 DEF TypeInv, TypeOK, ensure_rootless_dns_alias, WorldOK, goto
  <2> QED BY <2>1, <2>2, TypeStep
<1>2. CASE ensure_rootless_dns_daemon(p)
  <2>1. PICK e \in Environments : /\ e[1] = l.name
                                  /\ goes(p, [l EXCEPT !.pc = "read4", !.port = e[2], !.iface = e[3]])
    BY <1>2 DEF ensure_rootless_dns_daemon
  <2> DEFINE m == [l EXCEPT !.pc = "read4", !.port = e[2], !.iface = e[3]]
  <2>2. e[2] \in Ports /\ e[3] \in Interfaces
    BY RootlessAssumption
  <2>3. m \in Process /\ LocalsSet(m, D)
    BY <1>0, <1>2, <2>2 DEF ensure_rootless_dns_daemon, Process, Pcs, LocalsSet, Informed, Chosen
  <2>4. WorldOK' /\ D \subseteq DOMAIN chain' /\ LocalsSet(m, DOMAIN chain')
    BY <1>2, <2>3, WorldSame DEF ensure_rootless_dns_daemon
  <2> QED BY <2>1, <2>3, <2>4, TypeStep
<1>3. CASE allocate_read4(p)
  <2> DEFINE own == reusable("v4", l.name, None)
             m == IF own # None THEN [l EXCEPT !.pc = "read6", !.src4 = own]
                  ELSE [l EXCEPT !.pc = "probe4", !.attempt = 0,
                                 !.taken = {chain["OUTPUT"][i].src : i \in DOMAIN chain["OUTPUT"]}]
  <2>1. goes(p, m) /\ l.pc = "read4"
    BY <1>3 DEF allocate_read4
  <2>2. \A i \in DOMAIN chain["OUTPUT"] : chain["OUTPUT"][i].src \in Source4
    <3>1. chain["OUTPUT"] \in Seq(RuleOf("OUTPUT")) /\ "OUTPUT" \in ChainsOf("v4")
      BY <1>0 DEF BuiltIn, ChainsOf
    <3>2. ASSUME NEW i \in DOMAIN chain["OUTPUT"] PROVE chain["OUTPUT"][i] \in RuleOf("OUTPUT")
      BY <3>1, ElementOfSeq, LenProperties
    <3> QED BY <3>1, <3>2, RuleSources DEF Families, Sources
  <2>3. own # None => own \in Source4
    <3>1. chain[Hooks["v4"]] = chain["OUTPUT"] /\ chain["OUTPUT"] \in Seq(RuleOf("OUTPUT"))
      BY <1>0 DEF Hooks, BuiltIn
    <3>2. own # None => \E k \in 1..Len(chain["OUTPUT"]) : own = chain["OUTPUT"][k].src
      BY <3>1, ReusableIs DEF Families
    <3>3. DOMAIN chain["OUTPUT"] = 1..Len(chain["OUTPUT"])
      BY <3>1
    <3> QED BY <2>2, <3>2, <3>3
  <2> HIDE DEF own
  <2>4. m \in Process /\ LocalsSet(m, D)
    <3>1. CASE own # None
      BY <1>0, <2>1, <2>3, <3>1 DEF Process, Pcs, LocalsSet, Informed, Chosen
    <3>2. CASE own = None
      <4>1. 0 \in 0 .. SourceSlots + Attempts6
        BY AddressingAssumption, RootlessAssumption
      <4> DEFINE T == {chain["OUTPUT"][i].src : i \in DOMAIN chain["OUTPUT"]}
      <4>2. T \in SUBSET Source4
        BY <2>2
      <4>3. m = [l EXCEPT !.pc = "probe4", !.attempt = 0, !.taken = T]
        BY <3>2
      <4> HIDE DEF T, m
      <4> QED BY <1>0, <2>1, <4>1, <4>2, <4>3 DEF Process, Pcs, LocalsSet, Informed, Chosen
    <3> QED BY <3>1, <3>2
  <2>5. WorldOK' /\ D \subseteq DOMAIN chain' /\ LocalsSet(m, DOMAIN chain')
    BY <1>3, <2>4, WorldSame DEF allocate_read4
  <2> QED BY <2>1, <2>4, <2>5, TypeStep
<1>4. CASE allocate_probe4(p)
  <2> DEFINE ip == rootless_podman_source_ip(Hash[l.name], l.attempt)
  <2>0. l.pc = "probe4" /\ l.name \in Names
    BY <1>0, <1>4 DEF allocate_probe4, LocalsSet
  <2>1. CASE ends(p)
    <3>1. WorldOK' /\ DOMAIN chain' = D
      BY <1>4, <2>0, <2>1, EndsType DEF allocate_probe4, TypeInv, TypeOK, WorldOK
    <3> QED BY <2>0, <2>1, <3>1, EndsType, TypeStep
  <2>2. CASE l.attempt < SourceSlots /\ goes(p, [l EXCEPT !.attempt = @ + 1]) /\ UNCHANGED last
    <3> DEFINE m == [l EXCEPT !.attempt = l.attempt + 1]
    <3>1. l.attempt + 1 \in 0 .. SourceSlots + Attempts6
      BY <1>0, <2>2, AddressingAssumption, RootlessAssumption DEF Process
    <3>2. m \in Process /\ LocalsSet(m, D)
      BY <1>0, <2>0, <3>1 DEF Process, LocalsSet, Informed, Chosen
    <3>3. WorldOK' /\ D \subseteq DOMAIN chain' /\ LocalsSet(m, DOMAIN chain') /\ goes(p, m)
      BY <1>4, <2>2, <3>2, WorldSame DEF allocate_probe4
    <3> QED BY <3>2, <3>3, TypeStep
  <2>3. CASE goes(p, [l EXCEPT !.pc = "read6", !.src4 = ip, !.taken = {}]) /\ UNCHANGED last
    <3> DEFINE m == [l EXCEPT !.pc = "read6", !.src4 = ip, !.taken = {}]
    <3>1. ip \in Source4
      <4>1. Hash[l.name] \in Nat /\ l.attempt \in Nat
        BY <1>0, <2>0, AddressingAssumption, RootlessAssumption DEF Process
      <4> QED BY <4>1, SourceTypes
    <3> HIDE DEF ip
    <3>2. m \in Process /\ LocalsSet(m, D)
      BY <1>0, <2>0, <3>1 DEF Process, Pcs, LocalsSet, Informed, Chosen
    <3>3. WorldOK' /\ D \subseteq DOMAIN chain' /\ LocalsSet(m, DOMAIN chain') /\ goes(p, m)
      BY <1>4, <2>3, <3>2, WorldSame DEF allocate_probe4
    <3> QED BY <3>2, <3>3, TypeStep
  <2> QED BY <1>4, <2>1, <2>2, <2>3 DEF allocate_probe4
<1>5. CASE allocate_read6(p)
  <2> DEFINE x == rootless_podman_ipv6_prefix(l.iface)
             own == reusable("v6", l.name, x)
             m == IF x = None THEN [l EXCEPT !.pc = "assign4"]
                  ELSE IF own # None THEN [l EXCEPT !.pc = "assign4", !.src6 = own]
                  ELSE [l EXCEPT !.pc = "probe6", !.attempt = 0]
  <2>1. goes(p, m) /\ l.pc = "read6"
    BY <1>5 DEF allocate_read6, goto
  <2>2. own # None => own \in Source6
    <3>1. chain[Hooks["v6"]] = chain["OUTPUT6"] /\ chain["OUTPUT6"] \in Seq(RuleOf("OUTPUT6"))
      BY <1>0 DEF Hooks, BuiltIn
    <3>2. own # None => \E k \in 1..Len(chain["OUTPUT6"]) : own = chain["OUTPUT6"][k].src
      BY <3>1, ReusableIs DEF Families
    <3>3. ASSUME NEW k \in 1..Len(chain["OUTPUT6"]) PROVE chain["OUTPUT6"][k].src \in Source6
      <4>1. chain["OUTPUT6"][k] \in RuleOf("OUTPUT6") /\ "OUTPUT6" \in ChainsOf("v6")
        BY <3>1, ElementOfSeq DEF ChainsOf
      <4> QED BY <4>1, RuleSources DEF Families, Sources
    <3> QED BY <3>2, <3>3
  <2>3. x # None => x \in Routed
    BY <1>0, <2>1, PrefixRouted DEF LocalsSet, Informed, Pcs
  <2> HIDE DEF own
  <2>4. m \in Process /\ LocalsSet(m, D)
    <3>1. CASE x = None
      BY <1>0, <2>1, <3>1 DEF Process, Pcs, LocalsSet, Informed, Chosen
    <3>2. CASE x # None /\ own # None
      BY <1>0, <2>1, <2>2, <3>2 DEF Process, Pcs, LocalsSet, Informed, Chosen
    <3>3. CASE x # None /\ own = None
      <4>1. 0 \in 0 .. SourceSlots + Attempts6
        BY AddressingAssumption, RootlessAssumption
      <4> QED BY <1>0, <2>1, <2>3, <3>3, <4>1 DEF Process, Pcs, LocalsSet, Informed, Chosen
    <3> QED BY <3>1, <3>2, <3>3
  <2>5. WorldOK' /\ D \subseteq DOMAIN chain' /\ LocalsSet(m, DOMAIN chain')
    BY <1>5, <2>4, WorldSame DEF allocate_read6
  <2> QED BY <2>1, <2>4, <2>5, TypeStep
<1>6. CASE allocate_probe6(p)
  <2> DEFINE x == rootless_podman_ipv6_prefix(l.iface)
             ip == rootless_podman_source_ipv6(x, Hash[l.name], l.attempt)
  <2>0. l.pc = "probe6" /\ l.name \in Names
    BY <1>0, <1>6 DEF allocate_probe6, LocalsSet
  <2>1. CASE ends(p)
    <3>1. WorldOK' /\ DOMAIN chain' = D
      BY <1>6, <2>0, <2>1, EndsType DEF allocate_probe6, TypeInv, TypeOK, WorldOK
    <3> QED BY <2>0, <2>1, <3>1, EndsType, TypeStep
  <2>2. CASE l.attempt < Attempts6 /\ goes(p, [l EXCEPT !.attempt = @ + 1]) /\ UNCHANGED last
    <3> DEFINE m == [l EXCEPT !.attempt = l.attempt + 1]
    <3>1. l.attempt + 1 \in 0 .. SourceSlots + Attempts6
      BY <1>0, <2>2, AddressingAssumption, RootlessAssumption DEF Process
    <3>2. m \in Process /\ LocalsSet(m, D)
      BY <1>0, <2>0, <3>1 DEF Process, LocalsSet, Informed, Chosen
    <3>3. WorldOK' /\ D \subseteq DOMAIN chain' /\ LocalsSet(m, DOMAIN chain') /\ goes(p, m)
      BY <1>6, <2>2, <3>2, WorldSame DEF allocate_probe6
    <3> QED BY <3>2, <3>3, TypeStep
  <2>3. CASE goes(p, [l EXCEPT !.pc = "assign4", !.src6 = ip]) /\ UNCHANGED last
    <3> DEFINE m == [l EXCEPT !.pc = "assign4", !.src6 = ip]
    <3>1. ip \in Source6
      <4>1. Hash[l.name] \in Nat /\ l.attempt \in Nat /\ x \in Routed
        BY <1>0, <2>0, AddressingAssumption, RootlessAssumption DEF Process, LocalsSet
      <4> QED BY <4>1, SourceTypes
    <3> HIDE DEF ip
    <3>2. m \in Process /\ LocalsSet(m, D)
      BY <1>0, <2>0, <3>1 DEF Process, Pcs, LocalsSet, Informed, Chosen
    <3>3. WorldOK' /\ D \subseteq DOMAIN chain' /\ LocalsSet(m, DOMAIN chain') /\ goes(p, m)
      BY <1>6, <2>3, <3>2, WorldSame DEF allocate_probe6
    <3> QED BY <3>2, <3>3, TypeStep
  <2> QED BY <1>6, <2>1, <2>2, <2>3 DEF allocate_probe6
<1> QED BY <1>1, <1>2, <1>3, <1>4, <1>5, <1>6

\* The list depends on what was chosen, not on where the process is in it.
LEMMA ItemsSame ==
    ASSUME NEW l, NEW m, l.name = m.name, l.src4 = m.src4, l.src6 = m.src6, l.port = m.port, l.iface = m.iface
    PROVE  ensure_rootless_podman_rules(l) = ensure_rootless_podman_rules(m)
  BY DEF ensure_rootless_podman_rules

\* A process at a rule knows the rule, and the chain for it exists.
LEMMA AtItem ==
    ASSUME TypeInv, NEW p \in Procs, proc[p].pc \in {"rule", "insert"}
    PROVE  /\ Ready(proc[p])
           /\ proc[p].rule \in 1..Len(Items(p))
           /\ Item(p).pos \in 0..5 /\ Item(p).chain \in BuiltIn \cup Own
           /\ Item(p).pos # 0 => Item(p).chain \in DOMAIN chain /\ Item(p).rule \in RuleOf(Item(p).chain)
<1> DEFINE l == proc[p]
<1>0. l \in Process /\ LocalsSet(l, DOMAIN chain) /\ BuiltIn \subseteq DOMAIN chain
  BY DEF TypeInv, TypeOK
<1>1. Ready(l)
  BY <1>0 DEF Ready, LocalsSet, Process, Informed, Chosen, Pcs
<1>2. l.rule \in 1..Len(Items(p))
  <2>1. l.rule \in Nat \ {0} /\ l.rule <= Len(Items(p))
    BY <1>0 DEF Process, LocalsSet, Items
  <2>2. Len(Items(p)) \in Nat
    BY ItemsAre DEF Items, Base
  <2> QED BY <2>1, <2>2
<1>3. LET it == Item(p) IN
      /\ it.pos \in 0..5
      /\ it.chain \in BuiltIn \cup Own
      /\ it.pos # 0 /\ it.chain \in Own =>
           \E j \in 1..(l.rule - 1) : Items(p)[j].pos = 0 /\ Items(p)[j].chain = it.chain
      /\ it.pos # 0 => it.rule \in RuleOf(it.chain)
  BY <1>1, <1>2, ItemFacts DEF Item, Items
<1>4. \A j \in 1..(l.rule - 1) : Items(p)[j].pos = 0 => Items(p)[j].chain \in DOMAIN chain
  BY <1>0 DEF LocalsSet, Items
<1> QED BY <1>0, <1>1, <1>2, <1>3, <1>4

LEMMA NextItemType ==
    ASSUME TypeInv, NEW p \in Procs, proc[p].pc \in {"rule", "insert"}, next_item(p),
           DOMAIN chain \subseteq DOMAIN chain', WorldOK',
           Item(p).pos = 0 => Item(p).chain \in DOMAIN chain'
    PROVE  TypeInv'
<1> DEFINE l == proc[p]
           I == ensure_rootless_podman_rules(l)
<1>0. l \in Process /\ LocalsSet(l, DOMAIN chain) /\ Ready(l) /\ l.rule \in 1..Len(I) /\ Len(I) \in Nat
  <2>1. l \in Process /\ LocalsSet(l, DOMAIN chain)
    BY DEF TypeInv, TypeOK
  <2>2. Ready(l) /\ l.rule \in 1..Len(I)
    BY AtItem DEF Items
  <2>3. Len(I) \in Nat
    BY ItemsAre DEF Base
  <2> QED BY <2>1, <2>2, <2>3
<1>1. CASE l.rule < Len(I)
  <2> DEFINE m == [l EXCEPT !.pc = "rule", !.rule = l.rule + 1]
  <2>1. goes(p, m)
    BY <1>1 DEF next_item, Items
  <2>2. ensure_rootless_podman_rules(m) = I
    BY <1>0, ItemsSame DEF Process
  <2>3. m \in Process /\ m.pc = "rule" /\ m.rule = l.rule + 1
    <3>1. l.rule + 1 \in Nat \ {0}
      BY <1>0
    <3> QED BY <1>0, <3>1 DEF Process, Pcs
  <2>4. \A i \in 1..((l.rule + 1) - 1) : I[i].pos = 0 => I[i].chain \in DOMAIN chain'
    <3>1. \A i \in 1..(l.rule - 1) : I[i].pos = 0 => I[i].chain \in DOMAIN chain
      BY <1>0 DEF LocalsSet
    <3>2. \A i \in 1..((l.rule + 1) - 1) : i \in 1..(l.rule - 1) \/ i = l.rule
      BY <1>0
    <3>3. I[l.rule].pos = 0 => I[l.rule].chain \in DOMAIN chain'
      BY DEF Item, Items
    <3> QED BY <3>1, <3>2, <3>3
  <2>5. LocalsSet(m, DOMAIN chain')
    <3>1. m.name \in Names /\ m.port \in Ports /\ m.iface \in Interfaces /\ m.src4 \in Source4
      BY <1>0 DEF Ready, Process
    <3>2. l.rule + 1 <= Len(I)
      BY <1>0, <1>1
    <3> HIDE DEF m, I
    <3> QED BY <2>2, <2>3, <2>4, <3>1, <3>2 DEF LocalsSet, Informed, Chosen, Pcs
  <2> QED BY <2>1, <2>3, <2>5, TypeStep
<1>2. CASE ~(l.rule < Len(I))
  <2> DEFINE m == [l EXCEPT !.pc = "send"]
  <2>1. goes(p, m)
    BY <1>2 DEF next_item, Items
  <2>2. m \in Process
    BY <1>0 DEF Process, Pcs
  <2>3. LocalsSet(m, DOMAIN chain')
    BY <1>0 DEF Ready, Process, LocalsSet, Informed, Chosen, Pcs
  <2> QED BY <2>1, <2>2, <2>3, TypeStep
<1> QED BY <1>1, <1>2

\* A chain that is replaced by one for the same rules.
LEMMA ChainType ==
    ASSUME TypeInv, NEW c \in DOMAIN chain, NEW new \in Seq(RuleOf(c)), chain' = [chain EXCEPT ![c] = new],
           UNCHANGED <<addrs, sets, last, started, overlapped>>, faults' \in 0 .. MaxFaults
    PROVE  WorldOK' /\ DOMAIN chain' = DOMAIN chain
  BY DEF TypeInv, TypeOK, WorldOK

LEMMA RulesType ==
    ASSUME TypeInv, NEW p \in Procs,
           ensure_chain(p) \/ remove_rule_all(p) \/ ensure_rule_present(p) \/ send_create(p)
    PROVE  TypeInv'
<1> DEFINE l == proc[p]
           it == Item(p)
           D == DOMAIN chain
<1>0. l \in Process /\ LocalsSet(l, D) /\ \A c \in D : chain[c] \in Seq(RuleOf(c))
  BY DEF TypeInv, TypeOK
<1>1. CASE ensure_chain(p)
  <2>1. l.pc = "rule" /\ it.pos = 0 /\ next_item(p)
    BY <1>1 DEF ensure_chain
  <2>2. it.chain \in BuiltIn \cup Own
    BY <2>1, AtItem
  <2>3. DOMAIN chain' = D \cup {it.chain} /\ \A c \in DOMAIN chain' : chain'[c] = IF c \in D THEN chain[c] ELSE <<>>
    BY <1>1 DEF ensure_chain
  <2> HIDE DEF it
  <2>4. \A c \in DOMAIN chain' : chain'[c] \in Seq(RuleOf(c))
    <3>1. \A S : <<>> \in Seq(S)
      OBVIOUS
    <3> QED BY <1>0, <2>3, <3>1
  <2>5. WorldOK'
    BY <1>1, <2>2, <2>3, <2>4 DEF ensure_chain, TypeInv, TypeOK, WorldOK
  <2> QED BY <2>1, <2>3, <2>5, NextItemType DEF it
<1>2. CASE remove_rule_all(p)
  <2>1. l.pc = "rule" /\ it.pos # 0
    BY <1>2 DEF remove_rule_all
  <2>2. it.chain \in D /\ it.rule \in RuleOf(it.chain)
    BY <2>1, AtItem
  <2>3. CASE has_rule(chain[it.chain], it.rule) /\ chain' = [chain EXCEPT ![it.chain] = delete_rule(@, it.rule)]
             /\ UNCHANGED <<proc, faults>>
    <3>1. delete_rule(chain[it.chain], it.rule) \in Seq(RuleOf(it.chain))
      BY <1>0, <2>2, <2>3, DeleteExtends
    <3>2. WorldOK' /\ DOMAIN chain' = D
      BY <1>2, <2>2, <2>3, <3>1, ChainType DEF remove_rule_all, TypeInv, TypeOK
    <3>3. goes(p, l)
      BY <2>3 DEF goes, TypeInv, TypeOK
    <3> QED BY <1>0, <3>2, <3>3, TypeStep
  <2>4. CASE goto(p, "insert") /\ UNCHANGED chain /\ faults' \in 0 .. MaxFaults
    <3> DEFINE m == [l EXCEPT !.pc = "insert"]
    <3>1. m \in Process
      BY <1>0 DEF Process, Pcs
    <3>2. LocalsSet(m, D)
      <4>1. ensure_rootless_podman_rules(m) = ensure_rootless_podman_rules(l)
        BY <1>0, ItemsSame DEF Process
      <4>2. m.pc = "insert" /\ m.rule = l.rule /\ m.name = l.name /\ m.port = l.port /\ m.iface = l.iface
            /\ m.src4 = l.src4
        BY <1>0 DEF Process
      <4>3. ensure_rootless_podman_rules(l)[l.rule].pos # 0
        BY <2>1 DEF Item, Items
      <4> HIDE DEF m
      <4> QED BY <1>0, <2>1, <4>1, <4>2, <4>3 DEF LocalsSet, Informed, Chosen, Pcs
    <3>3. WorldOK' /\ goes(p, m) /\ DOMAIN chain' = D
      BY <1>2, <2>4 DEF remove_rule_all, goto, TypeInv, TypeOK, WorldOK
    <3> QED BY <3>1, <3>2, <3>3, TypeStep
  <2>5. fault => faults' \in 0 .. MaxFaults
    BY RootlessAssumption DEF fault, TypeInv, TypeOK
  <2> QED BY <1>2, <2>3, <2>4, <2>5 DEF remove_rule_all, TypeInv, TypeOK
<1>3. CASE ensure_rule_present(p)
  <2>1. l.pc = "insert" /\ it.pos # 0
    BY <1>0, <1>3 DEF ensure_rule_present, LocalsSet, Item, Items
  <2>2. it.chain \in D /\ it.rule \in RuleOf(it.chain) /\ it.pos \in Nat \ {0}
    BY <2>1, AtItem
  <2>3. CASE can_insert(chain[it.chain], it.pos) /\ chain' = [chain EXCEPT ![it.chain] = placed(@, it)]
             /\ next_item(p) /\ UNCHANGED last
    <3>1. placed(chain[it.chain], it) \in Seq(RuleOf(it.chain))
      BY <1>0, <2>2, <2>3, InsertExtends DEF placed
    <3>2. WorldOK' /\ DOMAIN chain' = D
      BY <1>3, <2>2, <2>3, <3>1, ChainType DEF ensure_rule_present, TypeInv, TypeOK
    <3> QED BY <2>1, <2>3, <3>2, NextItemType
  <2>4. CASE ends(p) /\ UNCHANGED chain
    <3>1. WorldOK' /\ DOMAIN chain' = D
      BY <1>3, <2>1, <2>4, EndsType DEF ensure_rule_present, TypeInv, TypeOK, WorldOK
    <3> QED BY <2>1, <2>4, <3>1, EndsType, TypeStep
  <2> QED BY <1>3, <2>3, <2>4 DEF ensure_rule_present
<1>4. CASE send_create(p)
  <2>1. l.pc = "send" /\ l.name \in Names /\ goes(p, Idle)
    BY <1>0, <1>4 DEF send_create, LocalsSet
  <2>2. Idle \in Process /\ LocalsSet(Idle, D)
    <3>1. Idle \in Process
      BY AddressingAssumption, RootlessAssumption DEF Idle, Process, Pcs
    <3>2. LocalsSet(Idle, D)
      BY DEF LocalsSet, Idle, Informed, Chosen, Pcs
    <3> QED BY <3>1, <3>2
  <2>3. last' \in [Names -> Outcome]
    BY <1>0, <1>4, <2>1 DEF send_create, TypeInv, TypeOK, Outcome, Process
  <2>4. WorldOK' /\ DOMAIN chain' = D
    BY <1>4, <2>3 DEF send_create, TypeInv, TypeOK, WorldOK
  <2> QED BY <2>1, <2>2, <2>4, TypeStep
<1> QED BY <1>1, <1>2, <1>3, <1>4

\* The sets and the addresses, and the ways to end early.
LEMMA OtherType ==
    ASSUME TypeInv, NEW p \in Procs,
           \/ assign4(p)
           \/ configure_rootless_podman_source_ipv6(p)
           \/ destroy_ipsets(p)
           \/ create_ipsets(p)
           \/ run_command_checked_fails(p)
           \/ killed(p)
    PROVE  TypeInv'
<1> DEFINE l == proc[p]
           D == DOMAIN chain
<1>0. l \in Process /\ LocalsSet(l, D)
  BY DEF TypeInv, TypeOK
<1>1. CASE assign4(p)
  <2> DEFINE m == [l EXCEPT !.pc = IF l.src6 = None THEN "destroy" ELSE "assign6"]
  <2>1. l.pc = "assign4" /\ l.src4 \in Source4 /\ goes(p, m)
    BY <1>0, <1>1 DEF assign4, goto, LocalsSet, Chosen, Informed, Pcs
  <2>2. m \in Process /\ LocalsSet(m, D)
    <3>1. CASE l.src6 = None
      BY <1>0, <2>1, <3>1 DEF Process, Pcs, LocalsSet, Informed, Chosen
    <3>2. CASE l.src6 # None
      BY <1>0, <2>1, <3>2 DEF Process, Pcs, LocalsSet, Informed, Chosen
    <3> QED BY <3>1, <3>2
  <2>3. WorldOK' /\ DOMAIN chain' = D
    BY <1>1, <2>1 DEF assign4, TypeInv, TypeOK, WorldOK
  <2> QED BY <2>1, <2>2, <2>3, TypeStep
<1>2. CASE configure_rootless_podman_source_ipv6(p)
  <2> DEFINE m == [l EXCEPT !.pc = "destroy"]
  <2>1. l.pc = "assign6" /\ l.src6 \in Source6 /\ goes(p, m)
    BY <1>0, <1>2 DEF configure_rootless_podman_source_ipv6, goto, LocalsSet
  <2>2. m \in Process /\ LocalsSet(m, D)
    BY <1>0, <2>1 DEF Process, Pcs, LocalsSet, Informed, Chosen
  <2>3. WorldOK' /\ DOMAIN chain' = D
    BY <1>2, <2>1 DEF configure_rootless_podman_source_ipv6, TypeInv, TypeOK, WorldOK
  <2> QED BY <2>1, <2>2, <2>3, TypeStep
<1>3. CASE destroy_ipsets(p)
  <2> DEFINE m == [l EXCEPT !.pc = "create"]
  <2>1. l.pc = "destroy" /\ goes(p, m)
    BY <1>3 DEF destroy_ipsets, goto
  <2>2. m \in Process /\ LocalsSet(m, D)
    BY <1>0, <2>1 DEF Process, Pcs, LocalsSet, Informed, Chosen
  <2>3. WorldOK' /\ DOMAIN chain' = D
    BY <1>3 DEF destroy_ipsets, TypeInv, TypeOK, WorldOK
  <2> QED BY <2>1, <2>2, <2>3, TypeStep
<1>4. CASE create_ipsets(p)
  <2> DEFINE m == [l EXCEPT !.pc = "rule"]
  <2>1. l.pc = "create" /\ goes(p, m) /\ l.rule = 1 /\ l.name \in Names
    BY <1>0, <1>4 DEF create_ipsets, goto, LocalsSet
  <2>2. m \in Process
    BY <1>0, <2>1 DEF Process, Pcs
  <2>3. LocalsSet(m, D)
    <3>2. m.pc = "rule" /\ m.rule = 1 /\ m.name = l.name /\ m.port = l.port /\ m.iface = l.iface
          /\ m.src4 = l.src4
      BY <1>0, <2>1 DEF Process
    <3> HIDE DEF m
    <3>1. 1 <= Len(ensure_rootless_podman_rules(m))
      BY ListLength
    <3> QED BY <1>0, <2>1, <3>1, <3>2 DEF LocalsSet, Informed, Chosen, Pcs
  <2>4. WorldOK' /\ DOMAIN chain' = D
    BY <1>4, <2>1 DEF create_ipsets, TypeInv, TypeOK, WorldOK
  <2> QED BY <2>1, <2>2, <2>3, <2>4, TypeStep
<1>5. CASE run_command_checked_fails(p) \/ killed(p)
  <2>1. l.pc # "idle" /\ interrupted(p)
    BY <1>5 DEF run_command_checked_fails, killed
  <2>2. l.name \in Names /\ ends(p)
    BY <1>0, <2>1 DEF interrupted, LocalsSet
  <2>3. sets' \subseteq Names \X Families
    BY <2>1, <2>2 DEF interrupted, TypeInv, TypeOK, Families
  <2>4. faults' \in 0 .. MaxFaults
    BY <2>1, RootlessAssumption DEF interrupted, fault, TypeInv, TypeOK
  <2>5. WorldOK' /\ DOMAIN chain' = D
    BY <2>1, <2>2, <2>3, <2>4, EndsType DEF interrupted, TypeInv, TypeOK, WorldOK
  <2> QED BY <2>1, <2>2, <2>5, EndsType, TypeStep
<1> QED BY <1>1, <1>2, <1>3, <1>4, <1>5

\* A preparation begins; others of the name are no longer alone with it.
LEMMA PrepareType ==
    ASSUME TypeInv, NEW p \in Procs, prepare_rootless_podman_network(p)
    PROVE  TypeInv'
<1>1. PICK n \in Names :
        /\ proc' = [q \in Procs |->
                CASE q = p -> begins(n)
                  [] q \in Busy(n) -> [proc[q] EXCEPT !.single = FALSE]
                  [] OTHER -> proc[q]]
        /\ overlapped' = (overlapped \/ \E q \in Procs : proc[q].pc # "idle")
        /\ last' = [last EXCEPT ![n].status =
                        CASE @ = "none" -> @
                          [] @ = "ok" /\ Free(n) -> "busy"
                          [] OTHER -> "broken"]
  BY DEF prepare_rootless_podman_network
<1>2. ASSUME NEW q \in Procs PROVE proc'[q] \in Process /\ LocalsSet(proc'[q], DOMAIN chain')
  <2>0. proc[q] \in Process /\ LocalsSet(proc[q], DOMAIN chain) /\ chain' = chain
    BY DEF TypeInv, TypeOK, prepare_rootless_podman_network
  <2>1. CASE q = p
    <3>0. q \notin Busy(n)
      BY <2>0, <2>1, RootlessAssumption DEF Busy, prepare_rootless_podman_network, LocalsSet, Idle
    <3>1. proc'[q] = begins(n)
      BY <1>1, <2>1, <3>0
    <3>2. Idle \in Process /\ Free(n) \in BOOLEAN
      BY AddressingAssumption, RootlessAssumption DEF Idle, Process, Pcs, Free
    <3>3. begins(n) \in Process
      BY <3>2 DEF begins, Process, Pcs
    <3>4. begins(n).pc = "alias" /\ begins(n).name = n /\ begins(n).rule = 1 /\ begins(n).src6 = None
      BY DEF begins, Idle
    <3>5. LocalsSet(begins(n), DOMAIN chain')
      BY <3>4 DEF LocalsSet, Informed, Chosen, Pcs
    <3> QED BY <3>1, <3>3, <3>5
  <2>2. CASE q # p /\ q \in Busy(n)
    <3> DEFINE m == [proc[q] EXCEPT !.single = FALSE]
    <3>1. proc'[q] = m
      BY <1>1, <2>2
    <3>2. m \in Process
      BY <2>0 DEF Process
    <3>3. proc[q].pc # "idle"
      BY <2>0, <2>2, RootlessAssumption DEF Busy, LocalsSet, Idle
    <3>4. LocalsSet(m, DOMAIN chain')
      <4>1. ensure_rootless_podman_rules(m) = ensure_rootless_podman_rules(proc[q])
        BY <2>0, ItemsSame DEF Process
      <4>2. /\ m.pc = proc[q].pc /\ m.rule = proc[q].rule /\ m.name = proc[q].name /\ m.port = proc[q].port
            /\ m.iface = proc[q].iface /\ m.src4 = proc[q].src4 /\ m.src6 = proc[q].src6
        BY <2>0 DEF Process
      <4> HIDE DEF m
      <4> QED BY <2>0, <3>3, <4>1, <4>2 DEF LocalsSet
    <3> QED BY <3>1, <3>2, <3>4
  <2>3. CASE q # p /\ q \notin Busy(n)
    BY <1>1, <2>0, <2>3
  <2> QED BY <2>1, <2>2, <2>3
<1>3. last' \in [Names -> Outcome]
  <2>1. PICK s \in {"none", "busy", "broken"} : last' = [last EXCEPT ![n].status = s]
    BY <1>1
  <2> QED BY <2>1 DEF TypeInv, TypeOK, Outcome
<1>4. started' \in 0 .. MaxPreparations
  <2>1. started < MaxPreparations /\ started' = started + 1
    BY DEF prepare_rootless_podman_network
  <2> QED BY <2>1, RootlessAssumption DEF TypeInv, TypeOK
<1>5. overlapped' \in BOOLEAN
  BY <1>1 DEF TypeInv, TypeOK
<1>6. proc' \in [Procs -> Process]
  BY <1>1, <1>2
<1> QED BY <1>2, <1>3, <1>4, <1>5, <1>6 DEF TypeInv, TypeOK, prepare_rootless_podman_network

LEMMA NextType == TypeInv /\ [Next]_vars => TypeInv'
<1> SUFFICES ASSUME TypeInv, [Next]_vars PROVE TypeInv'
  OBVIOUS
<1>1. CASE UNCHANGED vars
  BY <1>1 DEF vars, TypeInv, TypeOK
<1>2. ASSUME NEW p \in Procs, prepare_rootless_podman_network(p) \/ Step(p) PROVE TypeInv'
  BY <1>2, PrepareType, AllocateType, RulesType, OtherType DEF Step
<1> QED BY <1>1, <1>2 DEF Next

\* Every reachable state is well typed, whatever the commands do and wherever
\* processes are killed: a process never uses an address it has not chosen,
\* never leaves the addresses that are routed, and never inserts a rule into
\* a chain that does not exist.
THEOREM RootlessTypes == Spec => []TypeOK
<1>1. TypeInv => TypeOK
  BY DEF TypeInv
<1> QED BY <1>1, InitType, NextType, PTL DEF Spec
-----------------------------------------------------------------------------
(* Addresses have one owner *)

\* What a step may add to the rules of a family.
LEMMA RulesChanged ==
    ASSUME NEW c \in DOMAIN chain, NEW g, chain' = [chain EXCEPT ![c] = g], NEW f \in Families
    PROVE  /\ \A r \in RulesFor(f)' : r \in RulesFor(f) \/ (c \in ChainsOf(f) /\ \E i \in DOMAIN g : r = g[i])
           /\ c \in ChainsOf(f) => \A i \in DOMAIN chain[c] : chain[c][i] \in RulesFor(f)
<1>1. ASSUME NEW r \in RulesFor(f)'
      PROVE  r \in RulesFor(f) \/ (c \in ChainsOf(f) /\ \E i \in DOMAIN g : r = g[i])
  <2>1. PICK d \in ChainsOf(f) \cap DOMAIN chain' : \E i \in DOMAIN chain'[d] : r = chain'[d][i]
    BY DEF RulesFor
  <2>3. DOMAIN chain' = DOMAIN chain /\ chain'[d] = IF d = c THEN g ELSE chain[d]
    OBVIOUS
  <2> QED BY <2>1, <2>3 DEF RulesFor
<1>2. c \in ChainsOf(f) => \A i \in DOMAIN chain[c] : chain[c][i] \in RulesFor(f)
  BY DEF RulesFor
<1> QED BY <1>1, <1>2

LEMMA RulesForStep ==
    ASSUME TypeInv, NEW p \in Procs, Step(p), NEW f \in Families, NEW r \in RulesFor(f)'
    PROVE  \/ r \in RulesFor(f)
           \/ /\ proc[p].pc = "insert" /\ r.name = proc[p].name
              /\ r.src = SourceOf(p, f) /\ (f = "v6" => SourceOf(p, f) # None)
<1> DEFINE it == Item(p)
<1>0. \A c \in DOMAIN chain : chain[c] \in Seq(RuleOf(c))
  BY DEF TypeInv, TypeOK
<1>1. CASE chain' = chain
  BY <1>1 DEF RulesFor
<1>2. CASE ensure_chain(p)
  <2>1. PICK d \in ChainsOf(f) \cap DOMAIN chain' : \E i \in DOMAIN chain'[d] : r = chain'[d][i]
    BY DEF RulesFor
  <2>2. chain'[d] = IF d \in DOMAIN chain THEN chain[d] ELSE <<>>
    BY <1>2 DEF ensure_chain
  <2>3. DOMAIN <<>> = {}
    OBVIOUS
  <2>4. d \in DOMAIN chain
    BY <2>1, <2>2, <2>3
  <2> QED BY <2>1, <2>2, <2>4 DEF RulesFor
<1>3. CASE remove_rule_all(p) /\ chain' # chain
  <2>1. /\ proc[p].pc = "rule" /\ it.pos # 0 /\ has_rule(chain[it.chain], it.rule)
        /\ chain' = [chain EXCEPT ![it.chain] = delete_rule(@, it.rule)]
    BY <1>3 DEF remove_rule_all
  <2>2. it.chain \in DOMAIN chain
    BY <2>1, AtItem
  <2> DEFINE g == delete_rule(chain[it.chain], it.rule)
  <2>3. \A i \in DOMAIN g : \E j \in DOMAIN chain[it.chain] : g[i] = chain[it.chain][j]
    <3>1. PICK q \in DOMAIN chain[it.chain] : Extends(chain[it.chain], g, q, it.rule)
      BY <1>0, <2>1, <2>2, DeleteExtends
    <3> QED BY <3>1 DEF Extends
  <2>4. chain' = [chain EXCEPT ![it.chain] = g]
    BY <2>1
  <2> HIDE DEF it, g
  <2>5. \/ r \in RulesFor(f)
        \/ it.chain \in ChainsOf(f) /\ \E i \in DOMAIN g : r = g[i]
    BY <2>2, <2>4, RulesChanged
  <2>6. it.chain \in ChainsOf(f) => \A i \in DOMAIN chain[it.chain] : chain[it.chain][i] \in RulesFor(f)
    BY <2>2, <2>4, RulesChanged
  <2> QED BY <2>3, <2>5, <2>6
<1>4. CASE ensure_rule_present(p) /\ chain' # chain
  <2>1. /\ proc[p].pc = "insert" /\ can_insert(chain[it.chain], it.pos)
        /\ chain' = [chain EXCEPT ![it.chain] = placed(@, it)]
    BY <1>4 DEF ensure_rule_present
  <2>2. it.pos # 0
    BY <2>1 DEF TypeInv, LocalsSet, Item, Items
  <2>3. it.chain \in DOMAIN chain /\ it.rule \in RuleOf(it.chain) /\ it.pos \in Nat \ {0}
    BY <2>1, <2>2, AtItem
  <2> DEFINE g == insert_rule(chain[it.chain], it.pos, it.rule)
  <2>4. \A i \in DOMAIN g : g[i] = it.rule \/ \E j \in DOMAIN chain[it.chain] : g[i] = chain[it.chain][j]
    <3>1. Extends(g, chain[it.chain], it.pos, it.rule)
      BY <1>0, <2>1, <2>3, InsertExtends
    <3> QED BY <3>1 DEF Extends
  <2>5. chain' = [chain EXCEPT ![it.chain] = g]
    BY <2>1 DEF placed
  <2>6. it.rule.name = proc[p].name
        /\ (it.chain \in ChainsOf(f) => it.rule.src = SourceIn(proc[p], f) /\ (f = "v6" => proc[p].src6 # None))
    BY <2>1, AtItem, ItemFacts DEF Item, Items
  <2> HIDE DEF it, g
  <2>7. r \in RulesFor(f) \/ (r = it.rule /\ it.chain \in ChainsOf(f))
    <3>0. it.chain \in DOMAIN chain
      BY <2>3
    <3>1. \/ r \in RulesFor(f)
          \/ it.chain \in ChainsOf(f) /\ \E i \in DOMAIN g : r = g[i]
      BY <3>0, <2>5, RulesChanged
    <3>2. it.chain \in ChainsOf(f) => \A i \in DOMAIN chain[it.chain] : chain[it.chain][i] \in RulesFor(f)
      BY <2>3, <2>5, RulesChanged
    <3> QED BY <2>4, <3>1, <3>2
  <2> QED BY <2>1, <2>6, <2>7 DEF SourceIn, SourceOf
<1> QED BY <1>1, <1>2, <1>3, <1>4
        DEF Step, ensure_rootless_dns_alias, ensure_rootless_dns_daemon, allocate_read4, allocate_probe4,
            allocate_read6, allocate_probe6, assign4, configure_rootless_podman_source_ipv6, destroy_ipsets,
            create_ipsets, send_create, run_command_checked_fails, killed, interrupted

\* Ownership survives a step of the only process at work that adds rules for
\* its own address, gives the address out, or has chosen one nobody else has.
LEMMA OwnerStep ==
    ASSUME NEW f \in Families, OneOwner(f), NEW p \in Procs, NEW n \in Names, n = proc[p].name,
           addrs[f] \subseteq addrs'[f],
           \A q \in Procs \ {p} : SourceOf(q, f)' = None,
           \A r \in RulesFor(f)' :
                r \in RulesFor(f) \/ (r.name = n /\ r.src = SourceOf(p, f) /\ SourceOf(p, f) # None /\ proc[p].pc \in Holding[f]),
           \A m \in Names : Source(f, m)' = Source(f, m) \/ (m = n /\ Source(f, m)' = SourceOf(p, f) /\ proc[p].pc \in Holding[f]),
           \/ SourceOf(p, f)' = None
           \/ /\ SourceOf(p, f)' = SourceOf(p, f) /\ proc'[p].name = n
              /\ proc'[p].pc \in Holding[f] => SourceOf(p, f) \in addrs'[f]
           \/ /\ proc'[p].name = n /\ proc'[p].pc \notin Holding[f] /\ RulesFor(f)' = RulesFor(f)
              /\ \A m \in Names : Source(f, m)' = Source(f, m)
              /\ \A r \in RulesFor(f) : r.src = SourceOf(p, f)' => r.name = n
              /\ \A m \in Names : Source(f, m) = SourceOf(p, f)' => m = n
    PROVE  OneOwner(f)'
<1> DEFINE s == SourceOf(p, f)
<1>1. /\ \A r \in RulesFor(f) : r.src \in addrs[f]
      /\ \A r, t \in RulesFor(f) : r.src = t.src => r.name = t.name
  BY DEF OneOwner
<1>2. \A m \in Names : Source(f, m) # None =>
        /\ Source(f, m) \in addrs[f]
        /\ \A r \in RulesFor(f) : r.src = Source(f, m) => r.name = m
  BY DEF OneOwner
<1>3. s # None =>
        /\ proc[p].pc \in Holding[f] => s \in addrs[f]
        /\ \A r \in RulesFor(f) : r.src = s => r.name = n
        /\ \A m \in Names : Source(f, m) = s => m = n
  BY DEF OneOwner
<1>4. \A r \in RulesFor(f)' : r.src \in addrs'[f]
  BY <1>1, <1>3
<1>5. \A r, t \in RulesFor(f)' : r.src = t.src => r.name = t.name
  BY <1>1, <1>3
<1>6. ASSUME NEW m \in Names, Source(f, m)' # None
      PROVE  Source(f, m)' \in addrs'[f] /\ \A r \in RulesFor(f)' : r.src = Source(f, m)' => r.name = m
  BY <1>2, <1>3, <1>6
<1>7. ASSUME NEW q \in Procs, SourceOf(q, f)' # None
      PROVE  /\ proc'[q].pc \in Holding[f] => SourceOf(q, f)' \in addrs'[f]
             /\ \A r \in RulesFor(f)' : r.src = SourceOf(q, f)' => r.name = proc'[q].name
             /\ \A m \in Names : Source(f, m)' = SourceOf(q, f)' => m = proc'[q].name
  BY <1>3, <1>7
<1> QED BY <1>4, <1>5, <1>6, <1>7 DEF OneOwner

\* What every step of a process has in common.
LEMMA StepFrame ==
    ASSUME TypeInv, NEW p \in Procs, Step(p)
    PROVE  /\ proc[p].pc # "idle" /\ proc[p].name \in Names
           /\ \A q \in Procs \ {p} : proc'[q] = proc[q]
           /\ UNCHANGED overlapped
           /\ \A f \in Families : addrs[f] \subseteq addrs'[f]
           /\ \A f \in Families, m \in Names :
                \/ Source(f, m)' = Source(f, m)
                \/ proc[p].pc = "send" /\ m = proc[p].name /\ Source(f, m)' = SourceOf(p, f)
<1> USE DEF Step, ensure_rootless_dns_alias, ensure_rootless_dns_daemon, allocate_read4, allocate_probe4,
            allocate_read6, allocate_probe6, assign4, configure_rootless_podman_source_ipv6, destroy_ipsets,
            create_ipsets, ensure_chain, remove_rule_all, ensure_rule_present, send_create,
            run_command_checked_fails, killed, interrupted
<1>0. proc \in [Procs -> Process] /\ last \in [Names -> Outcome]
      /\ addrs \in [v4 : SUBSET (Source4 \cup {RootlessDnsIp}), v6 : SUBSET Source6]
  BY DEF TypeInv, TypeOK
<1>1. proc[p].pc # "idle"
  OBVIOUS
<1>2. proc[p].name \in Names
  BY <1>1 DEF TypeInv, LocalsSet
<1>3. (\E l : goes(p, l)) \/ UNCHANGED proc
  BY DEF goto, next_item, ends
<1>4. \A q \in Procs \ {p} : proc'[q] = proc[q]
  BY <1>0, <1>3 DEF goes
<1>5. UNCHANGED overlapped
  OBVIOUS
<1>6. \A f \in Families : addrs[f] \subseteq addrs'[f]
  <2>1. UNCHANGED addrs \/ ensure_rootless_dns_alias(p) \/ assign4(p) \/ configure_rootless_podman_source_ipv6(p)
    OBVIOUS
  <2>2. \/ UNCHANGED addrs
        \/ \E x : addrs' = [addrs EXCEPT !.v4 = @ \cup {x}]
        \/ \E x : addrs' = [addrs EXCEPT !.v6 = @ \cup {x}]
    BY <2>1
  <2> QED BY <1>0, <2>2 DEF Families
<1>7. UNCHANGED last \/ ends(p) \/ send_create(p)
  OBVIOUS
<1>8. ASSUME NEW f \in Families, NEW m \in Names
      PROVE  \/ Source(f, m)' = Source(f, m)
             \/ proc[p].pc = "send" /\ m = proc[p].name /\ Source(f, m)' = SourceOf(p, f)
  <2>1. CASE UNCHANGED last
    BY <2>1 DEF Source
  <2>2. CASE ends(p)
    <3>1. PICK s : last' = [last EXCEPT ![proc[p].name].status = s]
      BY <2>2 DEF ends
    <3>3. last[m] \in Outcome /\ last'[m] = IF m = proc[p].name THEN [last[m] EXCEPT !.status = s] ELSE last[m]
      BY <1>0, <1>2, <3>1
    <3>2. last'[m].src4 = last[m].src4 /\ last'[m].src6 = last[m].src6
      BY <3>3 DEF Outcome
    <3> QED BY <3>2 DEF Source
  <2>3. CASE send_create(p)
    <3>1. PICK o : last' = [last EXCEPT ![proc[p].name] =
                  [status |-> o, src4 |-> proc[p].src4, src6 |-> proc[p].src6, port |-> proc[p].port]]
      BY <2>3
    <3>2. proc[p].pc = "send"
      BY <2>3
    <3>3. last'[m] = IF m = proc[p].name
                     THEN [status |-> o, src4 |-> proc[p].src4, src6 |-> proc[p].src6, port |-> proc[p].port]
                     ELSE last[m]
      BY <1>0, <3>1
    <3> QED BY <3>2, <3>3 DEF Source, SourceOf
  <2> QED BY <1>7, <2>1, <2>2, <2>3
<1> QED BY <1>1, <1>2, <1>4, <1>5, <1>6, <1>8

\* What a step does to the address that its process has chosen: it forgets it
\* or keeps it, and has it on the host by then, or chooses one that nobody has.
Choice(p, f) ==
    \/ SourceOf(p, f)' = None
    \/ /\ SourceOf(p, f)' = SourceOf(p, f) /\ proc'[p].name = proc[p].name
       /\ proc'[p].pc \in Holding[f] => SourceOf(p, f) \in addrs'[f]
    \/ /\ proc'[p].name = proc[p].name /\ proc'[p].pc \notin Holding[f] /\ RulesFor(f)' = RulesFor(f)
       /\ \A m \in Names : Source(f, m)' = Source(f, m)
       /\ \A r \in RulesFor(f) : r.src = SourceOf(p, f)' => r.name = proc[p].name
       /\ \A m \in Names : Source(f, m) = SourceOf(p, f)' => m = proc[p].name

\* The rule that is found by the marker has the name, and so has whoever uses
\* its address.
LEMMA ReusedIsOwn ==
    ASSUME TypeInv, OwnMarkers, NEW f \in Families, OneOwner(f), NEW n \in Names, NEW x, NEW s,
           s = reusable(f, n, x), s # None
    PROVE  /\ \A r \in RulesFor(f) : r.src = s => r.name = n
           /\ \A m \in Names : Source(f, m) = s => m = n
<1> DEFINE c == chain[Hooks[f]]
<1>1. Hooks[f] \in ChainsOf(f) \cap DOMAIN chain /\ c \in Seq(RuleOf(Hooks[f]))
  BY DEF TypeInv, TypeOK, Families, Hooks, ChainsOf, BuiltIn
<1>2. PICK k \in 1..Len(c) : s = c[k].src /\ own_hook(c[k], f, n, x)
  BY <1>1, ReusableIs
<1>3. c[k] \in RulesFor(f)
  BY <1>1, <1>2 DEF RulesFor
<1>4. c[k].name = n
  <2>1. <<c[k].name, n>> \in MarkerIn
    BY <1>2 DEF own_hook
  <2>2. c[k].name \in Names
    BY <2>1, RootlessAssumption
  <2> QED BY <2>1, <2>2 DEF OwnMarkers
<1> HIDE DEF c
<1> QED BY <1>2, <1>3, <1>4 DEF OneOwner

LEMMA ChoiceStep ==
    ASSUME TypeInv, OwnMarkers, NEW p \in Procs, Step(p), NEW f \in Families, OneOwner(f)
    PROVE  Choice(p, f)
<1> DEFINE l == proc[p]
<1>0. /\ l \in Process /\ LocalsSet(l, DOMAIN chain) /\ l.pc # "idle" /\ l.name \in Names
      /\ addrs[f] \subseteq addrs'[f]
  BY StepFrame DEF TypeInv, TypeOK
<1>01. proc \in [Procs -> Process]
  BY DEF TypeInv, TypeOK
<1>02. SourceOf(p, f) # None /\ l.pc \in Holding[f] => SourceOf(p, f) \in addrs[f]
  BY DEF OneOwner
<1>03. ASSUME NEW m, goes(p, m) PROVE proc'[p] = m
  BY <1>01, <1>03 DEF goes
\* Steps that leave the choice alone.
<1>1. ASSUME NEW m, proc'[p] = m, m.name = l.name, m.src4 = l.src4, m.src6 = l.src6,
             m.pc \in Holding[f] => l.pc \in Holding[f]
      PROVE  Choice(p, f)
  <2>1. SourceOf(p, f)' = SourceOf(p, f)
    BY <1>1 DEF SourceOf
  <2> QED BY <1>0, <1>02, <1>1, <2>1 DEF Choice
<1>2. ASSUME proc'[p] = Idle PROVE Choice(p, f)
  BY <1>2 DEF Choice, SourceOf, Idle
\* Steps that choose.
<1>3. ASSUME NEW m, proc'[p] = m, m.name = l.name, m.pc \notin Holding[f], UNCHANGED <<chain, last>>,
             NEW s, s # None, (IF f = "v4" THEN m.src4 ELSE m.src6) = s,
             s \notin addrs[f] \/ \E x : s = reusable(f, l.name, x)
      PROVE  Choice(p, f)
  <2>1. SourceOf(p, f)' = s
    BY <1>3 DEF SourceOf
  <2>2. RulesFor(f)' = RulesFor(f) /\ \A n \in Names : Source(f, n)' = Source(f, n)
    BY <1>3 DEF RulesFor, Source
  <2>3. CASE s \notin addrs[f]
    <3>1. /\ \A r \in RulesFor(f) : r.src = s => r.name = l.name
          /\ \A n \in Names : Source(f, n) = s => n = l.name
      BY <1>3, <2>3 DEF OneOwner
    <3> QED BY <1>3, <2>1, <2>2, <3>1 DEF Choice
  <2>4. CASE \E x : s = reusable(f, l.name, x)
    <3>1. /\ \A r \in RulesFor(f) : r.src = s => r.name = l.name
          /\ \A n \in Names : Source(f, n) = s => n = l.name
      BY <1>0, <1>3, <2>4, ReusedIsOwn
    <3> QED BY <1>3, <2>1, <2>2, <3>1 DEF Choice
  <2> QED BY <1>3, <2>3, <2>4
<1>11. CASE ensure_rootless_dns_alias(p)
  <2>1. l.pc = "alias" /\ proc'[p] = [l EXCEPT !.pc = "daemon"]
    BY <1>03, <1>11 DEF ensure_rootless_dns_alias, goto
  <2> QED BY <1>0, <1>1, <2>1 DEF Process, Holding, Families
<1>12. CASE ensure_rootless_dns_daemon(p)
  <2>1. l.pc = "daemon" /\ \E x, y : proc'[p] = [l EXCEPT !.pc = "read4", !.port = x, !.iface = y]
    BY <1>03, <1>12 DEF ensure_rootless_dns_daemon
  <2>2. proc'[p].name = l.name /\ proc'[p].src4 = l.src4 /\ proc'[p].src6 = l.src6 /\ proc'[p].pc = "read4"
    BY <1>0, <2>1 DEF Process
  <2>3. "read4" \notin Holding[f]
    BY DEF Holding, Families
  <2> QED BY <1>1, <2>2, <2>3
<1>13. CASE allocate_read4(p)
  <2> DEFINE own == reusable("v4", l.name, None)
  <2>1. \/ own # None /\ proc'[p] = [l EXCEPT !.pc = "read6", !.src4 = own]
        \/ \E x : proc'[p] = [l EXCEPT !.pc = "probe4", !.attempt = 0, !.taken = x]
    BY <1>03, <1>13 DEF allocate_read4
  <2>2. UNCHANGED <<chain, last>>
    BY <1>13 DEF allocate_read4
  <2> HIDE DEF own
  <2>3. CASE \E x : proc'[p] = [l EXCEPT !.pc = "probe4", !.attempt = 0, !.taken = x]
    <3>1. proc'[p].name = l.name /\ proc'[p].src4 = l.src4 /\ proc'[p].src6 = l.src6 /\ proc'[p].pc = "probe4"
      BY <1>0, <2>3 DEF Process
    <3>2. "probe4" \notin Holding[f]
      BY DEF Holding, Families
    <3> QED BY <1>1, <3>1, <3>2
  <2>4. CASE own # None /\ proc'[p] = [l EXCEPT !.pc = "read6", !.src4 = own]
    <3> DEFINE m == [l EXCEPT !.pc = "read6", !.src4 = own]
    <3>1. m.name = l.name /\ m.pc = "read6" /\ m.src4 = own /\ m.src6 = l.src6
      BY <1>0 DEF Process
    <3>2. proc'[p] = m
      BY <2>4
    <3> HIDE DEF m
    <3>3. CASE f = "v4"
      <4>1. m.pc \notin Holding[f] /\ (IF f = "v4" THEN m.src4 ELSE m.src6) = own
        BY <3>1, <3>3 DEF Holding
      <4>2. \E x : own = reusable(f, l.name, x)
        BY <3>3 DEF own
      <4> QED BY <1>3, <2>2, <2>4, <3>1, <3>2, <4>1, <4>2
    <3>4. CASE f = "v6"
      <4>1. m.pc \notin Holding[f] /\ m.src6 = l.src6 /\ SourceOf(p, f)' = SourceOf(p, f)
        BY <3>1, <3>2, <3>4 DEF Holding, SourceOf
      <4> QED BY <3>1, <3>2, <4>1 DEF Choice
    <3> QED BY <3>3, <3>4 DEF Families
  <2> QED BY <2>1, <2>3, <2>4
<1>14. CASE allocate_probe4(p)
  <2> DEFINE ip == rootless_podman_source_ip(Hash[l.name], l.attempt)
  <2>1. \/ proc'[p] = Idle
        \/ \E x : proc'[p] = [l EXCEPT !.attempt = x]
        \/ /\ ip \notin addrs.v4 /\ UNCHANGED <<chain, last>>
           /\ proc'[p] = [l EXCEPT !.pc = "read6", !.src4 = ip, !.taken = {}]
    BY <1>03, <1>14 DEF allocate_probe4, ends, occupied4
  <2>2. l.pc = "probe4" /\ ip \in Source4
    <3>1. l.pc = "probe4" /\ Hash[l.name] \in Nat /\ l.attempt \in Nat
      BY <1>0, <1>14, AddressingAssumption, RootlessAssumption DEF Process, allocate_probe4
    <3> QED BY <3>1, SourceTypes
  <2> HIDE DEF ip
  <2>3. CASE \E x : proc'[p] = [l EXCEPT !.attempt = x]
    <3>1. /\ proc'[p].name = l.name /\ proc'[p].src4 = l.src4 /\ proc'[p].src6 = l.src6
          /\ proc'[p].pc = l.pc
      BY <1>0, <2>3 DEF Process
    <3> QED BY <1>1, <3>1
  <2>4. CASE /\ ip \notin addrs.v4 /\ UNCHANGED <<chain, last>>
             /\ proc'[p] = [l EXCEPT !.pc = "read6", !.src4 = ip, !.taken = {}]
    <3> DEFINE m == [l EXCEPT !.pc = "read6", !.src4 = ip, !.taken = {}]
    <3>1. m.name = l.name /\ m.pc = "read6" /\ m.src4 = ip /\ m.src6 = l.src6
      BY <1>0 DEF Process
    <3>2. proc'[p] = m
      BY <2>4
    <3> HIDE DEF m
    <3>3. CASE f = "v4"
      <4>1. /\ m.pc \notin Holding[f] /\ (IF f = "v4" THEN m.src4 ELSE m.src6) = ip
            /\ ip \notin addrs[f] /\ ip # None /\ UNCHANGED <<chain, last>>
        BY <2>2, <2>4, <3>1, <3>3, NoneIsNoAddress DEF Holding
      <4> QED BY <1>3, <3>1, <3>2, <4>1
    <3>4. CASE f = "v6"
      <4>1. m.pc \notin Holding[f] /\ SourceOf(p, f)' = SourceOf(p, f)
        BY <3>1, <3>2, <3>4 DEF Holding, SourceOf
      <4> QED BY <3>1, <3>2, <4>1 DEF Choice
    <3> QED BY <3>3, <3>4 DEF Families
  <2> QED BY <1>2, <2>1, <2>3, <2>4
<1>15. CASE allocate_read6(p)
  <2> DEFINE x == rootless_podman_ipv6_prefix(l.iface)
             own == reusable("v6", l.name, x)
  <2>1. \/ own # None /\ proc'[p] = [l EXCEPT !.pc = "assign4", !.src6 = own]
        \/ proc'[p] = [l EXCEPT !.pc = "assign4"]
        \/ proc'[p] = [l EXCEPT !.pc = "probe6", !.attempt = 0]
    BY <1>03, <1>15 DEF allocate_read6, goto
  <2>2. UNCHANGED <<chain, last>>
    BY <1>15 DEF allocate_read6
  <2> HIDE DEF own
  <2>3. CASE proc'[p] = [l EXCEPT !.pc = "assign4"] \/ proc'[p] = [l EXCEPT !.pc = "probe6", !.attempt = 0]
    <3>1. /\ proc'[p].name = l.name /\ proc'[p].src4 = l.src4 /\ proc'[p].src6 = l.src6
          /\ proc'[p].pc \in {"assign4", "probe6"}
      BY <1>0, <2>3 DEF Process
    <3>2. "probe6" \notin Holding[f] /\ "assign4" \notin Holding[f]
      BY DEF Holding, Families
    <3> QED BY <1>1, <3>1, <3>2
  <2>4. CASE own # None /\ proc'[p] = [l EXCEPT !.pc = "assign4", !.src6 = own]
    <3> DEFINE m == [l EXCEPT !.pc = "assign4", !.src6 = own]
    <3>1. m.name = l.name /\ m.pc = "assign4" /\ m.src4 = l.src4 /\ m.src6 = own
      BY <1>0 DEF Process
    <3>2. proc'[p] = m
      BY <2>4
    <3> HIDE DEF m
    <3>3. CASE f = "v6"
      <4>1. m.pc \notin Holding[f] /\ (IF f = "v4" THEN m.src4 ELSE m.src6) = own
        BY <3>1, <3>3 DEF Holding
      <4>2. \E y : own = reusable(f, l.name, y)
        BY <3>3 DEF own
      <4> QED BY <1>3, <2>2, <2>4, <3>1, <3>2, <4>1, <4>2
    <3>4. CASE f = "v4"
      <4>1. m.pc \notin Holding[f] /\ SourceOf(p, f)' = SourceOf(p, f)
        BY <3>1, <3>2, <3>4 DEF Holding, SourceOf
      <4> QED BY <3>1, <3>2, <4>1 DEF Choice
    <3> QED BY <3>3, <3>4 DEF Families
  <2> QED BY <2>1, <2>3, <2>4
<1>16. CASE allocate_probe6(p)
  <2> DEFINE x == rootless_podman_ipv6_prefix(l.iface)
             ip == rootless_podman_source_ipv6(x, Hash[l.name], l.attempt)
  <2>1. \/ proc'[p] = Idle
        \/ \E y : proc'[p] = [l EXCEPT !.attempt = y]
        \/ /\ ip \notin addrs.v6 /\ UNCHANGED <<chain, last>>
           /\ proc'[p] = [l EXCEPT !.pc = "assign4", !.src6 = ip]
    BY <1>03, <1>16 DEF allocate_probe6, ends
  <2>2. l.pc = "probe6" /\ ip \in Source6
    <3>1. l.pc = "probe6" /\ Hash[l.name] \in Nat /\ l.attempt \in Nat
      BY <1>0, <1>16, AddressingAssumption, RootlessAssumption DEF Process, allocate_probe6
    <3>2. x \in Routed
      BY <1>0, <3>1 DEF LocalsSet
    <3> QED BY <3>1, <3>2, SourceTypes
  <2> HIDE DEF ip
  <2>3. CASE \E y : proc'[p] = [l EXCEPT !.attempt = y]
    <3>1. /\ proc'[p].name = l.name /\ proc'[p].src4 = l.src4 /\ proc'[p].src6 = l.src6
          /\ proc'[p].pc = l.pc
      BY <1>0, <2>3 DEF Process
    <3> QED BY <1>1, <3>1
  <2>4. CASE /\ ip \notin addrs.v6 /\ UNCHANGED <<chain, last>>
             /\ proc'[p] = [l EXCEPT !.pc = "assign4", !.src6 = ip]
    <3> DEFINE m == [l EXCEPT !.pc = "assign4", !.src6 = ip]
    <3>1. m.name = l.name /\ m.pc = "assign4" /\ m.src4 = l.src4 /\ m.src6 = ip
      BY <1>0 DEF Process
    <3>2. proc'[p] = m
      BY <2>4
    <3> HIDE DEF m
    <3>3. CASE f = "v6"
      <4>1. /\ m.pc \notin Holding[f] /\ (IF f = "v4" THEN m.src4 ELSE m.src6) = ip
            /\ ip \notin addrs[f] /\ ip # None /\ UNCHANGED <<chain, last>>
        BY <2>2, <2>4, <3>1, <3>3, NoneIsNoAddress DEF Holding
      <4> QED BY <1>3, <3>1, <3>2, <4>1
    <3>4. CASE f = "v4"
      <4>1. m.pc \notin Holding[f] /\ SourceOf(p, f)' = SourceOf(p, f)
        BY <3>1, <3>2, <3>4 DEF Holding, SourceOf
      <4> QED BY <3>1, <3>2, <4>1 DEF Choice
    <3> QED BY <3>3, <3>4 DEF Families
  <2> QED BY <1>2, <2>1, <2>3, <2>4
<1>17. CASE assign4(p)
  <2>1. l.pc = "assign4" /\ proc'[p] = [l EXCEPT !.pc = IF l.src6 = None THEN "destroy" ELSE "assign6"]
    BY <1>03, <1>17 DEF assign4, goto
  <2>2. l.src4 \in addrs'.v4
    BY <1>17 DEF assign4, TypeInv, TypeOK
  <2>3. /\ proc'[p].name = l.name /\ proc'[p].src4 = l.src4 /\ proc'[p].src6 = l.src6
        /\ l.src6 # None => proc'[p].pc = "assign6"
    BY <1>0, <2>1 DEF Process
  <2>4. CASE f = "v4"
    BY <2>2, <2>3, <2>4 DEF Choice, SourceOf
  <2>5. CASE f = "v6"
    BY <2>3, <2>5 DEF Choice, SourceOf, Holding
  <2> QED BY <2>4, <2>5 DEF Families
<1>18. CASE configure_rootless_podman_source_ipv6(p)
  <2>1. l.pc = "assign6" /\ proc'[p] = [l EXCEPT !.pc = "destroy"]
    BY <1>03, <1>18 DEF configure_rootless_podman_source_ipv6, goto
  <2>2. l.src6 \in addrs'.v6
    BY <1>18 DEF configure_rootless_podman_source_ipv6, TypeInv, TypeOK
  <2>3. proc'[p].name = l.name /\ proc'[p].src4 = l.src4 /\ proc'[p].src6 = l.src6
    BY <1>0, <2>1 DEF Process
  <2>4. CASE f = "v4"
    BY <1>1, <2>1, <2>3, <2>4 DEF Holding
  <2>5. CASE f = "v6"
    BY <2>2, <2>3, <2>5 DEF Choice, SourceOf
  <2> QED BY <2>4, <2>5 DEF Families
<1>19. CASE \/ destroy_ipsets(p) \/ create_ipsets(p) \/ ensure_chain(p) \/ remove_rule_all(p)
            \/ ensure_rule_present(p) \/ send_create(p) \/ run_command_checked_fails(p) \/ killed(p)
  <2>1. \/ proc'[p] = Idle
        \/ /\ l.pc \in {"destroy", "create", "rule", "insert"}
           /\ \E x, y : proc'[p] = [l EXCEPT !.pc = x, !.rule = y] \/ proc'[p] = [l EXCEPT !.pc = x] \/ proc'[p] = l
    BY <1>01, <1>03, <1>19 DEF destroy_ipsets, create_ipsets, ensure_chain, remove_rule_all, ensure_rule_present, send_create,
          run_command_checked_fails, killed, interrupted, ends, goto, next_item
  <2>2. l.pc \in {"destroy", "create", "rule", "insert"} => l.pc \in Holding[f]
    BY DEF Holding, Families
  <2>3. \/ proc'[p] = Idle
        \/ proc'[p].name = l.name /\ proc'[p].src4 = l.src4 /\ proc'[p].src6 = l.src6 /\ l.pc \in Holding[f]
    BY <1>0, <2>1, <2>2 DEF Process
  <2> QED BY <1>1, <1>2, <2>3
<1> QED BY <1>11, <1>12, <1>13, <1>14, <1>15, <1>16, <1>17, <1>18, <1>19 DEF Step

\* With one preparation at a time, addresses have one owner.
LEMMA InitShared == Init => SharedInv
<1> SUFFICES ASSUME Init PROVE SharedInv
  OBVIOUS
<1>1. \A p \in Procs : proc[p] = Idle
  BY DEF Init
<1>2. \A p \in Procs : proc[p].pc = "idle"
  BY <1>1 DEF Idle
<1>3. ASSUME NEW f \in Families PROVE OneOwner(f)
  <2>1. \A p \in Procs : SourceOf(p, f) = None
    BY <1>1 DEF Idle, SourceOf
  <2>2. \A n \in Names : Source(f, n) = None
    BY DEF Init, Source
  <2>3. RulesFor(f) = {}
    <3>1. \A c \in DOMAIN chain : chain[c] = <<>>
      BY DEF Init
    <3>2. DOMAIN <<>> = {}
      OBVIOUS
    <3> QED BY <3>1, <3>2 DEF RulesFor
  <2> QED BY <2>1, <2>2, <2>3 DEF OneOwner
<1> QED BY <1>2, <1>3 DEF SharedInv

LEMMA StepShared ==
    ASSUME TypeInv, SharedInv, OwnMarkers, NEW p \in Procs, Step(p)
    PROVE  SharedInv'
<1>0. /\ proc[p].pc # "idle" /\ proc[p].name \in Names
      /\ \A q \in Procs \ {p} : proc'[q] = proc[q]
      /\ UNCHANGED overlapped
  BY StepFrame
<1>1. CASE overlapped
  <2>1. overlapped'
    BY <1>0, <1>1
  <2> QED BY <2>1 DEF SharedInv
<1>2. CASE ~overlapped
  <2>1. /\ \A q, t \in Procs : proc[q].pc # "idle" /\ proc[t].pc # "idle" => q = t
        /\ \A f \in Families : OneOwner(f)
    BY <1>2 DEF SharedInv
  <2>2. \A q \in Procs \ {p} : proc'[q] = Idle
    BY <1>0, <2>1 DEF TypeInv, LocalsSet
  <2>3. \A q, t \in Procs : proc'[q].pc # "idle" /\ proc'[t].pc # "idle" => q = t
    BY <2>2 DEF Idle
  <2>4. ASSUME NEW f \in Families PROVE OneOwner(f)'
    <3>1. \A q \in Procs \ {p} : SourceOf(q, f)' = None
      BY <2>2 DEF SourceOf, Idle
    <3>2. ASSUME NEW r \in RulesFor(f)'
          PROVE  r \in RulesFor(f) \/ (r.name = proc[p].name /\ r.src = SourceOf(p, f) /\ SourceOf(p, f) # None /\ proc[p].pc \in Holding[f])
      <4>1. CASE r \in RulesFor(f)
        BY <4>1
      <4>2. CASE /\ proc[p].pc = "insert" /\ r.name = proc[p].name
                 /\ r.src = SourceOf(p, f) /\ (f = "v6" => SourceOf(p, f) # None)
        <5>1. proc[p].src4 \in Source4
          BY <4>2, AtItem DEF Ready
        <5>2. f = "v4" => SourceOf(p, f) # None
          BY <5>1, NoneIsNoAddress DEF SourceOf
        <5>3. proc[p].pc \in Holding[f]
          BY <4>2 DEF Holding, Families
        <5> QED BY <4>2, <5>2, <5>3 DEF Families
      <4> QED BY <4>1, <4>2, RulesForStep
    <3>3. ASSUME NEW m \in Names
          PROVE  \/ Source(f, m)' = Source(f, m)
                 \/ m = proc[p].name /\ Source(f, m)' = SourceOf(p, f) /\ proc[p].pc \in Holding[f]
      <4>1. "send" \in Holding[f]
        BY DEF Holding, Families
      <4> QED BY <4>1, StepFrame
    <3>4. addrs[f] \subseteq addrs'[f]
      BY StepFrame
    <3>5. Choice(p, f) /\ OneOwner(f)
      BY <2>1, ChoiceStep
    <3> QED BY <1>0, <3>1, <3>2, <3>3, <3>4, <3>5, OwnerStep DEF Choice
  <2> QED BY <2>3, <2>4 DEF SharedInv
<1> QED BY <1>1, <1>2

\* The start of a preparation, clause by clause.
LEMMA PrepareIs ==
    ASSUME TypeInv, NEW p \in Procs, prepare_rootless_podman_network(p)
    PROVE  /\ proc[p].pc = "idle" /\ UNCHANGED <<addrs, sets, chain, faults>>
           /\ \E n \in Names :
                /\ proc'[p] = begins(n)
                /\ \A q \in Procs \ {p} : proc'[q] = IF proc[q].name = n THEN [proc[q] EXCEPT !.single = FALSE] ELSE proc[q]
                /\ overlapped' <=> (overlapped \/ \E q \in Procs : proc[q].pc # "idle")
                /\ \A m \in Names \ {n} : last'[m] = last[m]
                /\ last'[n].status \in {"none", "busy", "broken"}
                /\ last'[n].status = "busy" => last[n].status = "ok" /\ Free(n)
                /\ \A m \in Names : last'[m].src4 = last[m].src4 /\ last'[m].src6 = last[m].src6 /\ last'[m].port = last[m].port
<1>0. proc[p].pc = "idle" /\ UNCHANGED <<addrs, sets, chain, faults>>
  BY DEF prepare_rootless_podman_network
<1>1. PICK n \in Names :
        /\ proc' = [q \in Procs |->
                CASE q = p -> begins(n)
                  [] q \in Busy(n) -> [proc[q] EXCEPT !.single = FALSE]
                  [] OTHER -> proc[q]]
        /\ overlapped' = (overlapped \/ \E q \in Procs : proc[q].pc # "idle")
        /\ last' = [last EXCEPT ![n].status =
                        CASE @ = "none" -> @
                          [] @ = "ok" /\ Free(n) -> "busy"
                          [] OTHER -> "broken"]
  BY DEF prepare_rootless_podman_network
<1>2. p \notin Busy(n)
  BY <1>0, RootlessAssumption DEF TypeInv, LocalsSet, Busy, Idle
<1>3. proc'[p] = begins(n)
  BY <1>1, <1>2
<1>4. \A q \in Procs \ {p} : proc'[q] = IF proc[q].name = n THEN [proc[q] EXCEPT !.single = FALSE] ELSE proc[q]
  BY <1>1 DEF Busy
<1>5. overlapped' <=> (overlapped \/ \E q \in Procs : proc[q].pc # "idle")
  BY <1>1
<1>6. PICK s \in {"none", "busy", "broken"} :
        last' = [last EXCEPT ![n].status = s] /\ (s = "busy" => last[n].status = "ok" /\ Free(n))
  BY <1>1
<1>7. last \in [Names -> Outcome]
  BY DEF TypeInv, TypeOK
<1>8. \A m \in Names : last'[m] = IF m = n THEN [last[m] EXCEPT !.status = s] ELSE last[m]
  BY <1>6, <1>7
<1>9. /\ last'[n].status = s
      /\ \A m \in Names : last'[m].src4 = last[m].src4 /\ last'[m].src6 = last[m].src6 /\ last'[m].port = last[m].port
  BY <1>7, <1>8 DEF Outcome
<1> QED BY <1>0, <1>3, <1>4, <1>5, <1>6, <1>8, <1>9

LEMMA PrepareShared ==
    ASSUME TypeInv, SharedInv, NEW p \in Procs, prepare_rootless_podman_network(p)
    PROVE  SharedInv'
<1>1. PICK n \in Names :
        /\ proc'[p] = begins(n)
        /\ \A q \in Procs \ {p} : proc'[q] = IF proc[q].name = n THEN [proc[q] EXCEPT !.single = FALSE] ELSE proc[q]
        /\ overlapped' <=> (overlapped \/ \E q \in Procs : proc[q].pc # "idle")
        /\ \A m \in Names : last'[m].src4 = last[m].src4 /\ last'[m].src6 = last[m].src6
  BY PrepareIs
<1>2. CASE overlapped'
  BY <1>2 DEF SharedInv
<1>3. CASE ~overlapped'
  <2>1. ~overlapped /\ \A q \in Procs : proc[q] = Idle
    BY <1>1, <1>3 DEF TypeInv, LocalsSet
  <2>2. \A q \in Procs \ {p} : proc'[q] = Idle
    <3>1. Idle.name # n
      BY RootlessAssumption DEF Idle
    <3> QED BY <1>1, <2>1, <3>1
  <2>3. \A q, t \in Procs : proc'[q].pc # "idle" /\ proc'[t].pc # "idle" => q = t
    BY <2>2 DEF Idle
  <2>4. ASSUME NEW f \in Families PROVE OneOwner(f)'
    <3>1. \A q \in Procs : SourceOf(q, f)' = None
      <4>1. begins(n).src4 = None /\ begins(n).src6 = None /\ Idle.src4 = None /\ Idle.src6 = None
        BY DEF begins, Idle
      <4> QED BY <1>1, <2>2, <4>1 DEF SourceOf
    <3>2. \A m \in Names : Source(f, m)' = Source(f, m)
      BY <1>1 DEF Source
    <3>3. RulesFor(f)' = RulesFor(f) /\ addrs' = addrs
      BY PrepareIs DEF RulesFor
    <3>4. OneOwner(f)
      BY <2>1 DEF SharedInv
    <3> QED BY <3>1, <3>2, <3>3, <3>4 DEF OneOwner
  <2> QED BY <2>3, <2>4 DEF SharedInv
<1> QED BY <1>2, <1>3

\* Unless preparations overlapped, nobody has rules for the address of a
\* policy but the policy: however many preparations failed or were killed,
\* whatever the hashes of the names, and whatever else is on the host.  What
\* it rests on is that no name's marker is part of another name's rule.
THEOREM SharedTheorem ==
    ASSUME OwnMarkers
    PROVE  Spec => []SharedOnlyByOverlap
<1>1. TypeInv /\ SharedInv /\ [Next]_vars => SharedInv'
  <2> SUFFICES ASSUME TypeInv, SharedInv, [Next]_vars PROVE SharedInv'
    OBVIOUS
  <2>1. CASE UNCHANGED vars
    BY <2>1 DEF vars, SharedInv, OneOwner, RulesFor, Source, SourceOf
  <2>2. ASSUME NEW p \in Procs, prepare_rootless_podman_network(p) \/ Step(p) PROVE SharedInv'
    BY <2>2, PrepareShared, StepShared
  <2> QED BY <2>1, <2>2 DEF Next
<1>2. TypeInv /\ SharedInv => SharedOnlyByOverlap
  <2> SUFFICES ASSUME TypeInv, SharedInv, ~overlapped,
                      NEW n \in Settled, NEW f \in Families, Source(f, n) # None, NEW c \in ChainsOf(f),
                      c \in DOMAIN chain, NEW i \in DOMAIN chain[c], chain[c][i].src = Source(f, n)
               PROVE  chain[c][i].name = n
    BY DEF SharedOnlyByOverlap, Exclusive
  <2>1. n \in Names /\ OneOwner(f)
    BY DEF Settled, SharedInv
  <2>2. chain[c][i] \in RulesFor(f)
    BY DEF RulesFor
  <2> QED BY <2>1, <2>2 DEF OneOwner
<1> QED BY <1>1, <1>2, InitType, NextType, InitShared, PTL DEF Spec
-----------------------------------------------------------------------------
(* Who works on a name *)

\* How a step leaves its process and the record of how preparations ended.
LEMMA StepOutcome ==
    ASSUME TypeInv, NEW p \in Procs, Step(p)
    PROVE  \/ UNCHANGED last /\ proc'[p].name = proc[p].name /\ proc'[p].single = proc[p].single
           \/ /\ proc'[p] = Idle /\ UNCHANGED chain
              /\ \A m \in Names \ {proc[p].name} : last'[m] = last[m]
              /\ \/ last'[proc[p].name].status \in {"none", "broken"}
                 \/ /\ proc[p].pc = "send" /\ proc[p].single
                    /\ last'[proc[p].name] = [status |-> "ok", src4 |-> proc[p].src4, src6 |-> proc[p].src6,
                                              port |-> proc[p].port]
<1> DEFINE l == proc[p]
<1>0. proc \in [Procs -> Process] /\ last \in [Names -> Outcome] /\ l.name \in Names /\ l \in Process
  BY StepFrame DEF TypeInv, TypeOK
<1>1. CASE ends(p) /\ UNCHANGED chain
  <2>1. PICK s : last' = [last EXCEPT ![l.name].status = s] /\ s \in {"none", "broken"}
    BY <1>1 DEF ends
  <2>2. last'[l.name] = [last[l.name] EXCEPT !.status = s] /\ \A m \in Names \ {l.name} : last'[m] = last[m]
    BY <1>0, <2>1
  <2>3. last'[l.name].status = s
    BY <1>0, <2>2 DEF Outcome
  <2>4. proc'[p] = Idle
    BY <1>0, <1>1 DEF ends, goes
  <2> QED BY <1>1, <2>1, <2>2, <2>3, <2>4
<1>2. CASE send_create(p)
  <2>1. /\ l.pc = "send" /\ proc'[p] = Idle /\ UNCHANGED chain
        /\ \A m \in Names \ {l.name} : last'[m] = last[m]
        /\ last'[l.name] = [status |-> IF l.single THEN "ok" ELSE "broken",
                            src4 |-> l.src4, src6 |-> l.src6, port |-> l.port]
    BY <1>0, <1>2 DEF send_create, goes
  <2>2. CASE l.single
    BY <2>1, <2>2
  <2>3. CASE ~l.single
    BY <2>1, <2>3
  <2> QED BY <2>2, <2>3
<1>3. ASSUME NEW m, goes(p, m), m.name = l.name, m.single = l.single, UNCHANGED last
      PROVE  UNCHANGED last /\ proc'[p].name = l.name /\ proc'[p].single = l.single
  BY <1>0, <1>3 DEF goes
<1> DEFINE Same(m) == m.name = l.name /\ m.single = l.single
<1>4. \A x, y, z :
        /\ Same([l EXCEPT !.pc = x]) /\ Same([l EXCEPT !.attempt = x])
        /\ Same([l EXCEPT !.pc = x, !.rule = y]) /\ Same([l EXCEPT !.pc = x, !.src4 = y])
        /\ Same([l EXCEPT !.pc = x, !.src6 = y]) /\ Same([l EXCEPT !.pc = x, !.attempt = y])
        /\ Same([l EXCEPT !.pc = x, !.port = y, !.iface = z])
        /\ Same([l EXCEPT !.pc = x, !.attempt = y, !.taken = z])
        /\ Same([l EXCEPT !.pc = x, !.src4 = y, !.taken = z])
  BY <1>0 DEF Process
<1> HIDE DEF Same
<1>5. ASSUME NEW m, goes(p, m), Same(m), UNCHANGED last
      PROVE  UNCHANGED last /\ proc'[p].name = l.name /\ proc'[p].single = l.single
  BY <1>3, <1>5 DEF Same
<1>6. CASE ensure_rootless_dns_alias(p) \/ destroy_ipsets(p) \/ create_ipsets(p)
           \/ assign4(p) \/ configure_rootless_podman_source_ipv6(p)
  <2>1. \E x : goto(p, x)
    BY <1>6 DEF ensure_rootless_dns_alias, destroy_ipsets, create_ipsets, assign4,
                configure_rootless_podman_source_ipv6
  <2>2. UNCHANGED last
    BY <1>6 DEF ensure_rootless_dns_alias, destroy_ipsets, create_ipsets, assign4,
                configure_rootless_podman_source_ipv6
  <2> QED BY <1>4, <1>5, <2>1, <2>2 DEF goto
<1>7. CASE ensure_rootless_dns_daemon(p)
  <2>1. PICK y, z : goes(p, [l EXCEPT !.pc = "read4", !.port = y, !.iface = z])
    BY <1>7 DEF ensure_rootless_dns_daemon
  <2>2. UNCHANGED last
    BY <1>7 DEF ensure_rootless_dns_daemon
  <2>3. Same([l EXCEPT !.pc = "read4", !.port = y, !.iface = z])
    BY <1>4
  <2> QED BY <1>5, <2>1, <2>2, <2>3
<1>8. CASE allocate_read4(p)
  <2>1. \/ \E y : goes(p, [l EXCEPT !.pc = "read6", !.src4 = y])
        \/ \E z : goes(p, [l EXCEPT !.pc = "probe4", !.attempt = 0, !.taken = z])
    BY <1>8 DEF allocate_read4
  <2>2. UNCHANGED last
    BY <1>8 DEF allocate_read4
  <2>3. \A y : /\ Same([l EXCEPT !.pc = "read6", !.src4 = y])
               /\ Same([l EXCEPT !.pc = "probe4", !.attempt = 0, !.taken = y])
    BY <1>4
  <2> QED BY <1>5, <2>1, <2>2, <2>3
<1>81. CASE allocate_read6(p)
  <2>1. \/ goes(p, [l EXCEPT !.pc = "assign4"])
        \/ \E y : goes(p, [l EXCEPT !.pc = "assign4", !.src6 = y])
        \/ goes(p, [l EXCEPT !.pc = "probe6", !.attempt = 0])
    BY <1>81 DEF allocate_read6, goto
  <2>2. UNCHANGED last
    BY <1>81 DEF allocate_read6
  <2>3. \A y : /\ Same([l EXCEPT !.pc = "assign4"])
               /\ Same([l EXCEPT !.pc = "assign4", !.src6 = y])
               /\ Same([l EXCEPT !.pc = "probe6", !.attempt = 0])
    BY <1>4
  <2> QED BY <1>5, <2>1, <2>2, <2>3
<1>9. CASE allocate_probe4(p) \/ allocate_probe6(p)
  <2>1. CASE ends(p)
    BY <1>1, <1>9, <2>1 DEF allocate_probe4, allocate_probe6
  <2>2. CASE ~ends(p)
    <3>1. \/ goes(p, [l EXCEPT !.attempt = l.attempt + 1])
          \/ \E y : goes(p, [l EXCEPT !.pc = "read6", !.src4 = y, !.taken = {}])
          \/ \E y : goes(p, [l EXCEPT !.pc = "assign4", !.src6 = y])
      BY <1>9, <2>2 DEF allocate_probe4, allocate_probe6
    <3>2. UNCHANGED last
      BY <1>9, <2>2 DEF allocate_probe4, allocate_probe6
    <3>3. \A y : /\ Same([l EXCEPT !.attempt = l.attempt + 1])
                 /\ Same([l EXCEPT !.pc = "read6", !.src4 = y, !.taken = {}])
                 /\ Same([l EXCEPT !.pc = "assign4", !.src6 = y])
      BY <1>4
    <3> QED BY <1>5, <3>1, <3>2, <3>3
  <2> QED BY <2>1, <2>2
<1>91. CASE next_item(p) /\ UNCHANGED last
  <2>1. \/ goes(p, [l EXCEPT !.pc = "rule", !.rule = l.rule + 1])
        \/ goes(p, [l EXCEPT !.pc = "send"])
    BY <1>91 DEF next_item
  <2>2. Same([l EXCEPT !.pc = "rule", !.rule = l.rule + 1]) /\ Same([l EXCEPT !.pc = "send"])
    BY <1>4
  <2> QED BY <1>5, <1>91, <2>1, <2>2
<1>10. CASE ensure_chain(p) \/ remove_rule_all(p)
  <2>1. UNCHANGED last
    BY <1>10 DEF ensure_chain, remove_rule_all
  <2>2. next_item(p) \/ goto(p, "insert") \/ UNCHANGED proc
    BY <1>10 DEF ensure_chain, remove_rule_all
  <2> QED BY <1>4, <1>5, <1>91, <2>1, <2>2 DEF goto
<1>11. CASE ensure_rule_present(p)
  BY <1>1, <1>11, <1>91 DEF ensure_rule_present
<1>12. CASE run_command_checked_fails(p) \/ killed(p)
  BY <1>1, <1>12 DEF run_command_checked_fails, killed, interrupted
<1> QED BY <1>2, <1>6, <1>7, <1>8, <1>81, <1>9, <1>10, <1>11, <1>12 DEF Step

LEMMA InitLedger == Init => LedgerInv
<1> SUFFICES ASSUME Init PROVE LedgerInv
  OBVIOUS
<1>1. \A p \in Procs : proc[p].name = None
  BY DEF Init, Idle
<1>2. \A n \in Names : last[n].status = "none"
  BY DEF Init
<1> QED BY <1>1, <1>2 DEF LedgerInv

LEMMA StepLedger ==
    ASSUME TypeInv, LedgerInv, NEW p \in Procs, Step(p)
    PROVE  LedgerInv'
<1> DEFINE l == proc[p]
<1>0. l.pc # "idle" /\ l.name \in Names /\ l.name # None /\ \A q \in Procs \ {p} : proc'[q] = proc[q]
  BY StepFrame, RootlessAssumption
<1>1. /\ \A q, t \in Procs : proc[q].single /\ proc[q].name = proc[t].name /\ proc[q].name # None => q = t
      /\ \A n \in Names : last[n].status = "ok" => \A q \in Procs : proc[q].name # n
      /\ \A n \in Names : last[n].status = "busy" => \A q \in Procs : proc[q].name = n => proc[q].single
      /\ \A n \in Names : last[n].status \in {"ok", "busy"} => last[n].src4 \in Source4 /\ last[n].port \in Ports
  BY DEF LedgerInv, Busy, Free
<1> DEFINE Goal == /\ \A q, t \in Procs : proc'[q].single /\ proc'[q].name = proc'[t].name /\ proc'[q].name # None => q = t
                   /\ \A n \in Names : last'[n].status = "ok" => \A q \in Procs : proc'[q].name # n
                   /\ \A n \in Names : last'[n].status = "busy" => \A q \in Procs : proc'[q].name = n => proc'[q].single
                   /\ \A n \in Names : last'[n].status \in {"ok", "busy"} => last'[n].src4 \in Source4 /\ last'[n].port \in Ports
<1> SUFFICES Goal
  BY DEF LedgerInv, Busy, Free
<1>2. CASE UNCHANGED last /\ proc'[p].name = l.name /\ proc'[p].single = l.single
  <2>1. \A q \in Procs : proc'[q].name = proc[q].name /\ proc'[q].single = proc[q].single
    BY <1>0, <1>2
  <2> QED BY <1>1, <1>2, <2>1
<1>3. CASE /\ proc'[p] = Idle
           /\ \A m \in Names \ {l.name} : last'[m] = last[m]
           /\ \/ last'[l.name].status \in {"none", "broken"}
              \/ /\ l.pc = "send" /\ l.single
                 /\ last'[l.name] = [status |-> "ok", src4 |-> l.src4, src6 |-> l.src6, port |-> l.port]
  <2>1. \A q \in Procs : proc'[q].name # None => q # p /\ proc'[q] = proc[q]
    BY <1>0, <1>3 DEF Idle
  <2>2. \A q, t \in Procs : proc'[q].single /\ proc'[q].name = proc'[t].name /\ proc'[q].name # None => q = t
    BY <1>1, <2>1
  <2>3. CASE last'[l.name].status \in {"none", "broken"}
    <3>1. \A n \in Names : last'[n].status \in {"ok", "busy"} => last'[n] = last[n]
      BY <1>3, <2>3
    <3>2. \A n \in Names : n # None
      BY RootlessAssumption
    <3> QED BY <1>1, <2>1, <2>2, <3>1, <3>2
  <2>4. CASE /\ l.pc = "send" /\ l.single
             /\ last'[l.name] = [status |-> "ok", src4 |-> l.src4, src6 |-> l.src6, port |-> l.port]
    <3>1. l.src4 \in Source4 /\ l.port \in Ports
      BY <2>4 DEF TypeInv, LocalsSet, Informed, Chosen, Pcs
    <3>2. last'[l.name].status = "ok" /\ last'[l.name].src4 = l.src4 /\ last'[l.name].port = l.port
      BY <2>4
    <3>3. \A q \in Procs : proc'[q].name # l.name
      BY <1>0, <1>1, <2>1, <2>4
    <3>4. \A n \in Names : n # None
      BY RootlessAssumption
    <3>5. \A n \in Names : n # l.name => last'[n] = last[n]
      BY <1>3
    <3>6. \A n \in Names : last'[n].status = "ok" => \A q \in Procs : proc'[q].name # n
      BY <1>1, <2>1, <3>3, <3>4, <3>5
    <3>7. \A n \in Names : last'[n].status = "busy" => \A q \in Procs : proc'[q].name = n => proc'[q].single
      BY <1>1, <2>1, <3>2, <3>4, <3>5
    <3>8. \A n \in Names : last'[n].status \in {"ok", "busy"} => last'[n].src4 \in Source4 /\ last'[n].port \in Ports
      BY <1>1, <3>1, <3>2, <3>5
    <3> QED BY <2>2, <3>6, <3>7, <3>8
  <2> QED BY <1>3, <2>3, <2>4
<1> QED BY <1>2, <1>3, StepOutcome

LEMMA PrepareLedger ==
    ASSUME TypeInv, LedgerInv, NEW p \in Procs, prepare_rootless_podman_network(p)
    PROVE  LedgerInv'
<1>1. PICK n \in Names :
        /\ proc'[p] = begins(n)
        /\ \A q \in Procs \ {p} : proc'[q] = IF proc[q].name = n THEN [proc[q] EXCEPT !.single = FALSE] ELSE proc[q]
        /\ \A m \in Names \ {n} : last'[m] = last[m]
        /\ last'[n].status \in {"none", "busy", "broken"}
        /\ last'[n].status = "busy" => last[n].status = "ok" /\ Free(n)
        /\ \A m \in Names : last'[m].src4 = last[m].src4 /\ last'[m].src6 = last[m].src6 /\ last'[m].port = last[m].port
  BY PrepareIs
<1>2. /\ \A q, t \in Procs : proc[q].single /\ proc[q].name = proc[t].name /\ proc[q].name # None => q = t
      /\ \A m \in Names : last[m].status = "ok" => \A q \in Procs : proc[q].name # m
      /\ \A m \in Names : last[m].status = "busy" => \A q \in Procs : proc[q].name = m => proc[q].single
      /\ \A m \in Names : last[m].status \in {"ok", "busy"} => last[m].src4 \in Source4 /\ last[m].port \in Ports
  BY DEF LedgerInv, Busy, Free
<1>3. /\ \A q \in Procs \ {p} : proc'[q].name = proc[q].name
      /\ \A q \in Procs \ {p} : proc[q].name = n => ~proc'[q].single
      /\ \A q \in Procs \ {p} : proc[q].name # n => proc'[q] = proc[q]
  <2>1. proc \in [Procs -> Process]
    BY DEF TypeInv, TypeOK
  <2>2. \A q \in Procs \ {p} : proc[q].name # n => proc'[q] = proc[q]
    BY <1>1
  <2>3. \A q \in Procs \ {p} : proc[q].name = n => proc'[q] = [proc[q] EXCEPT !.single = FALSE]
    BY <1>1
  <2>4. \A q \in Procs : /\ [proc[q] EXCEPT !.single = FALSE].name = proc[q].name
                         /\ ~[proc[q] EXCEPT !.single = FALSE].single
    BY <2>1 DEF Process
  <2> QED BY <2>2, <2>3, <2>4
<1>31. \A q \in Procs \ {p} : proc'[q].name = proc[q].name
  BY <1>3
<1>32. \A q \in Procs \ {p} : proc[q].name # n => proc'[q] = proc[q]
  BY <1>3
<1>4. proc'[p].name = n /\ (proc'[p].single <=> \A q \in Procs : proc[q].name # n)
  <2>1. begins(n).name = n /\ (begins(n).single <=> Free(n))
    BY DEF begins, Idle
  <2> QED BY <1>1, <2>1 DEF Free, Busy
<1>5. ASSUME NEW q \in Procs, NEW t \in Procs, proc'[q].single, proc'[q].name = proc'[t].name, proc'[q].name # None
      PROVE  q = t
  <2>1. CASE proc'[q].name = n
    <3>1. q = p
      <4>1. q # p => proc[q].name = n
        BY <1>31, <2>1
      <4> QED BY <1>3, <1>5, <4>1
    <3>2. \A u \in Procs : proc[u].name # n
      BY <1>4, <1>5, <3>1
    <3>3. t = p
      BY <1>31, <1>5, <2>1, <3>2
    <3> QED BY <3>1, <3>3
  <2>2. CASE proc'[q].name # n
    <3>1. q \in Procs \ {p} /\ t \in Procs \ {p}
      BY <1>4, <1>5, <2>2
    <3>2. proc[q].name # n /\ proc[t].name # n
      BY <1>31, <1>5, <2>2, <3>1
    <3>3. proc'[q] = proc[q] /\ proc'[t] = proc[t]
      BY <1>32, <3>1, <3>2
    <3> QED BY <1>2, <1>5, <3>3
  <2> QED BY <2>1, <2>2
<1>6. \A m \in Names : last'[m].status = "ok" => \A q \in Procs : proc'[q].name # m
  <2>1. \A m \in Names : last'[m].status = "ok" => m # n /\ last[m].status = "ok"
    BY <1>1
  <2>2. \A q \in Procs : proc'[q].name \in {n, proc[q].name}
    BY <1>31, <1>4
  <2> QED BY <1>2, <2>1, <2>2
<1>7. ASSUME NEW m \in Names, last'[m].status = "busy", NEW q \in Procs, proc'[q].name = m
      PROVE  proc'[q].single
  <2>1. CASE m = n
    <3>1. \A t \in Procs : proc[t].name # n
      BY <1>1, <1>7, <2>1 DEF Free, Busy
    <3>2. q = p
      BY <1>31, <1>7, <2>1, <3>1
    <3> QED BY <1>4, <3>1, <3>2
  <2>2. CASE m # n
    <3>1. q # p /\ proc'[q] = proc[q] /\ last[m].status = "busy"
      <4>1. q # p
        BY <1>4, <1>7, <2>2
      <4>2. proc[q].name = m
        BY <1>31, <1>7, <4>1
      <4> QED BY <1>1, <1>32, <1>7, <2>2, <4>1, <4>2
    <3> QED BY <1>2, <1>7, <3>1
  <2> QED BY <2>1, <2>2
<1>8. \A m \in Names : last'[m].status \in {"ok", "busy"} => last'[m].src4 \in Source4 /\ last'[m].port \in Ports
  BY <1>1, <1>2
<1> QED BY <1>5, <1>6, <1>7, <1>8 DEF LedgerInv, Busy, Free
-----------------------------------------------------------------------------
(* The rule that stands first *)

\* What a step does to a chain that exists: nothing, a deletion, after which
\* the process is where it was, or an insertion.
LEMMA EditStep ==
    ASSUME TypeInv, NEW p \in Procs, Step(p), NEW c \in DOMAIN chain
    PROVE  \/ chain'[c] = chain[c]
           \/ /\ proc[p].pc = "rule" /\ Item(p).chain = c /\ Item(p).pos # 0 /\ UNCHANGED <<proc, last>>
              /\ chain'[c] \in Seq(RuleOf(c))
              /\ \E q : Extends(chain[c], chain'[c], q, Item(p).rule)
           \/ /\ proc[p].pc = "insert" /\ Item(p).chain = c /\ Item(p).pos # 0 /\ next_item(p) /\ UNCHANGED last
              /\ chain'[c] \in Seq(RuleOf(c))
              /\ Extends(chain'[c], chain[c], Item(p).pos, Item(p).rule)
<1> DEFINE it == Item(p)
<1>0. \A d \in DOMAIN chain : chain[d] \in Seq(RuleOf(d))
  BY DEF TypeInv, TypeOK
<1>1. CASE chain' = chain
  BY <1>1
<1>2. CASE ensure_chain(p)
  BY <1>2 DEF ensure_chain
<1>3. CASE remove_rule_all(p) /\ chain' # chain
  <2>1. /\ proc[p].pc = "rule" /\ it.pos # 0 /\ has_rule(chain[it.chain], it.rule)
        /\ chain' = [chain EXCEPT ![it.chain] = delete_rule(@, it.rule)]
        /\ UNCHANGED <<proc, last>>
    BY <1>3 DEF remove_rule_all
  <2>2. it.chain \in DOMAIN chain
    BY <2>1, AtItem
  <2>3. CASE it.chain = c
    <3>1. chain'[c] = delete_rule(chain[c], it.rule)
      BY <2>1, <2>3
    <3>2. /\ delete_rule(chain[c], it.rule) \in Seq(RuleOf(c))
          /\ \E q : Extends(chain[c], delete_rule(chain[c], it.rule), q, it.rule)
      BY <1>0, <2>1, <2>3, DeleteExtends
    <3> QED BY <2>1, <2>3, <3>1, <3>2
  <2>4. CASE it.chain # c
    BY <2>1, <2>4
  <2> QED BY <2>3, <2>4
<1>4. CASE ensure_rule_present(p) /\ chain' # chain
  <2>1. /\ proc[p].pc = "insert" /\ can_insert(chain[it.chain], it.pos)
        /\ chain' = [chain EXCEPT ![it.chain] = placed(@, it)]
        /\ next_item(p) /\ UNCHANGED last
    BY <1>4 DEF ensure_rule_present
  <2>2. it.pos # 0
    BY <2>1 DEF TypeInv, LocalsSet, Item, Items
  <2>3. it.chain \in DOMAIN chain /\ it.rule \in RuleOf(it.chain) /\ it.pos \in Nat \ {0}
    BY <2>1, <2>2, AtItem
  <2>4. CASE it.chain = c
    <3>1. chain'[c] = insert_rule(chain[c], it.pos, it.rule)
      BY <2>1, <2>4 DEF placed
    <3>2. /\ insert_rule(chain[c], it.pos, it.rule) \in Seq(RuleOf(c))
          /\ Extends(insert_rule(chain[c], it.pos, it.rule), chain[c], it.pos, it.rule)
      BY <1>0, <2>1, <2>3, <2>4, InsertExtends
    <3> QED BY <2>1, <2>2, <2>4, <3>1, <3>2
  <2>5. CASE it.chain # c
    BY <2>1, <2>5
  <2> QED BY <2>4, <2>5
<1> QED BY <1>1, <1>2, <1>3, <1>4
        DEF Step, ensure_rootless_dns_alias, ensure_rootless_dns_daemon, allocate_read4, allocate_probe4,
            allocate_read6, allocate_probe6, assign4, configure_rootless_podman_source_ipv6, destroy_ipsets,
            create_ipsets, send_create, run_command_checked_fails, killed, interrupted

\* What leads in a chain goes on to lead, unless the step is about a rule of
\* the two sets.
LEMMA LeadsStep ==
    ASSUME TypeInv, NEW p \in Procs, Step(p), NEW c \in DOMAIN chain, NEW A, NEW B, Leads(chain[c], A, B),
           proc[p].pc \in {"rule", "insert"} /\ Item(p).chain = c => Item(p).rule \notin A /\ Item(p).rule \notin B
    PROVE  Leads(chain'[c], A, B)
<1>0. chain[c] \in Seq(RuleOf(c))
  BY DEF TypeInv, TypeOK
<1>1. CASE chain'[c] = chain[c]
  BY <1>1
<1>2. ASSUME proc[p].pc = "rule", Item(p).chain = c, chain'[c] \in Seq(RuleOf(c)),
             NEW q, Extends(chain[c], chain'[c], q, Item(p).rule)
      PROVE  Leads(chain'[c], A, B)
  <2>1. Item(p).rule \notin A
    BY <1>2
  <2> QED BY <1>0, <1>2, <2>1, LeadsLess
<1>3. ASSUME proc[p].pc = "insert", Item(p).chain = c, chain'[c] \in Seq(RuleOf(c)),
             Extends(chain'[c], chain[c], Item(p).pos, Item(p).rule)
      PROVE  Leads(chain'[c], A, B)
  <2>1. Item(p).rule \notin B
    BY <1>3
  <2> QED BY <1>0, <1>3, <2>1, LeadsMore
<1> QED BY <1>1, <1>2, <1>3, EditStep

\* Hooks and redirections of a name are no business of other names.
LEMMA ForeignHook ==
    ASSUME TypeInv, NEW p \in Procs, Step(p), NEW n, n # proc[p].name, NEW f \in Families, NEW s,
           Hooked(chain, f, n, s)
    PROVE  Hooked(chain', f, n, s)
<1> DEFINE A == {a_rule("hook", n, s, None)}
           B == {r \in RuleOf(Hooks[f]) : r.name = n /\ r.src # s /\ (f = "v6" => r.src[1] = s[1])}
<1>1. Hooks[f] \in DOMAIN chain
  BY DEF TypeInv, TypeOK, Hooks, BuiltIn, Families
<1>2. \A r \in A \cup B : r.name = n
  BY DEF a_rule
<1>3. proc[p].pc \in {"rule", "insert"} => Item(p).rule.name = proc[p].name
  BY AtItem, ItemFacts DEF Item, Items
<1>4. Leads(chain[Hooks[f]], A, B)
  BY DEF Hooked
<1> HIDE DEF A, B
<1>5. Leads(chain'[Hooks[f]], A, B)
  BY <1>1, <1>2, <1>3, <1>4, LeadsStep
<1> QED BY <1>5 DEF Hooked, A, B

LEMMA ForeignRedirect ==
    ASSUME TypeInv, NEW p \in Procs, Step(p), NEW n, n # proc[p].name, NEW k, NEW s, NEW port,
           Redirected(chain, k, n, s, port)
    PROVE  Redirected(chain', k, n, s, port)
<1> DEFINE A == {a_rule(k, n, s, port)}
           B == {r \in RuleOf("nat-OUTPUT") : r.name = n /\ r.src = s /\ r.kind = k /\ r.arg # port}
<1>1. "nat-OUTPUT" \in DOMAIN chain
  BY DEF TypeInv, TypeOK, BuiltIn
<1>2. \A r \in A \cup B : r.name = n
  BY DEF a_rule
<1>3. proc[p].pc \in {"rule", "insert"} => Item(p).rule.name = proc[p].name
  BY AtItem, ItemFacts DEF Item, Items
<1>4. Leads(chain["nat-OUTPUT"], A, B)
  BY DEF Redirected
<1> HIDE DEF A, B
<1>5. Leads(chain'["nat-OUTPUT"], A, B)
  BY <1>1, <1>2, <1>3, <1>4, LeadsStep
<1> QED BY <1>5 DEF Redirected, A, B

LEMMA ForeignLed ==
    ASSUME TypeInv, NEW p \in Procs, Step(p), NEW n, n # proc[p].name, NEW s4, NEW s6, NEW port, NEW at0,
           Led(chain, n, s4, s6, port, at0)
    PROVE  Led(chain', n, s4, s6, port, at0)
<1>1. "v4" \in Families /\ "v6" \in Families
  BY DEF Families
<1>2. /\ Hooked(chain, "v4", n, s4) => Hooked(chain', "v4", n, s4)
      /\ Hooked(chain, "v6", n, s6) => Hooked(chain', "v6", n, s6)
  BY <1>1, ForeignHook
<1>3. \A k : Redirected(chain, k, n, s4, port) => Redirected(chain', k, n, s4, port)
  BY ForeignRedirect
<1> QED BY <1>2, <1>3 DEF Led

\* Where in the list the hooks and the redirections are.
LEMMA WhereIs ==
    ASSUME TypeInv, NEW p \in Procs, proc[p].pc \in {"rule", "insert"}
    PROVE  LET l  == proc[p]
               i  == proc[p].rule
               b6 == Base("v6", proc[p].port)
           IN  /\ Item(p).chain = "OUTPUT" => i = 2
               /\ Item(p).chain = "OUTPUT6" => i = b6 + 2
               /\ Item(p).chain = "nat-OUTPUT" =>
                    \/ i = 8 /\ Item(p).rule = a_rule("dns-udp", l.name, l.src4, l.port)
                    \/ i = 9 /\ Item(p).rule = a_rule("dns-tcp", l.name, l.src4, l.port)
               /\ i = 2 => Item(p) = at("OUTPUT", 1, a_rule("hook", l.name, l.src4, None))
               /\ i = b6 + 2 /\ l.src6 # None => Item(p) = at("OUTPUT6", 1, a_rule("hook", l.name, l.src6, None))
               /\ l.port # 53 /\ i = 8 => Item(p) = at("nat-OUTPUT", 1, a_rule("dns-udp", l.name, l.src4, l.port))
               /\ l.port # 53 /\ i = 9 => Item(p) = at("nat-OUTPUT", 1, a_rule("dns-tcp", l.name, l.src4, l.port))
<1> DEFINE l  == proc[p]
           i  == proc[p].rule
           b6 == Base("v6", proc[p].port)
           I  == ensure_rootless_podman_rules(l)
           it == I[i]
           Goal == /\ it.chain = "OUTPUT" => i = 2
                   /\ it.chain = "OUTPUT6" => i = b6 + 2
                   /\ it.chain = "nat-OUTPUT" =>
                        \/ i = 8 /\ it.rule = a_rule("dns-udp", l.name, l.src4, l.port)
                        \/ i = 9 /\ it.rule = a_rule("dns-tcp", l.name, l.src4, l.port)
<1>0. Item(p) = it
  BY DEF Item, Items
<1>1. i \in 1..Len(I)
  BY AtItem DEF Items
<1>2. \A c, q, r : it = at(c, q, r) => it.chain = c /\ it.rule = r
  BY DEF at
<1>3. \/ i = 1 /\ it = at("DOCKERWALL-OUTPUT", 0, a_rule("hook", l.name, l.src4, None))
      \/ i = 2 /\ it = at("OUTPUT", 1, a_rule("hook", l.name, l.src4, None))
      \/ \E j \in 1..5 : i = 2 + j /\ it = at("DOCKERWALL-OUTPUT", j, filter_rule("v4", j, l.name, l.src4, l.port))
      \/ i = 8 /\ l.port # 53 /\ it = at("nat-OUTPUT", 1, a_rule("dns-udp", l.name, l.src4, l.port))
      \/ i = 9 /\ l.port # 53 /\ it = at("nat-OUTPUT", 1, a_rule("dns-tcp", l.name, l.src4, l.port))
      \/ i = 10 /\ l.port # 53 /\ it = at("nat-PREROUTING", 1, a_rule("dns-udp", l.name, l.src4, l.port))
      \/ i = 11 /\ l.port # 53 /\ it = at("nat-PREROUTING", 1, a_rule("dns-tcp", l.name, l.src4, l.port))
      \/ i = b6 /\ it = at("nat-POSTROUTING", 1, a_rule("masquerade", l.name, l.src4, l.iface))
      \/ i = b6 + 1 /\ l.src6 # None /\ it = at("DOCKERWALL-OUTPUT6", 0, a_rule("hook", l.name, l.src6, None))
      \/ i = b6 + 2 /\ l.src6 # None /\ it = at("OUTPUT6", 1, a_rule("hook", l.name, l.src6, None))
      \/ \E j \in 1..5 : i = b6 + (2 + j) /\ l.src6 # None
                         /\ it = at("DOCKERWALL-OUTPUT6", j, filter_rule("v6", j, l.name, l.src6, l.port))
  BY <1>1, ItemCases
<1>4. Goal
  <2> HIDE DEF it, I, l, b6, i
  <2> QED BY <1>2, <1>3
<1>5. /\ i = 2 => it = at("OUTPUT", 1, a_rule("hook", l.name, l.src4, None))
      /\ i = b6 + 2 /\ l.src6 # None => it = at("OUTPUT6", 1, a_rule("hook", l.name, l.src6, None))
      /\ l.port # 53 /\ i = 8 => it = at("nat-OUTPUT", 1, a_rule("dns-udp", l.name, l.src4, l.port))
      /\ l.port # 53 /\ i = 9 => it = at("nat-OUTPUT", 1, a_rule("dns-tcp", l.name, l.src4, l.port))
  <2>1. /\ I[2] = at("OUTPUT", 1, a_rule("hook", l.name, l.src4, None))
        /\ l.src6 # None => I[b6 + 2] = at("OUTPUT6", 1, a_rule("hook", l.name, l.src6, None))
        /\ l.port # 53 => I[8] = at("nat-OUTPUT", 1, a_rule("dns-udp", l.name, l.src4, l.port))
        /\ l.port # 53 => I[9] = at("nat-OUTPUT", 1, a_rule("dns-tcp", l.name, l.src4, l.port))
    BY ItemsAre
  <2> HIDE DEF I, l, b6, i
  <2> QED BY <2>1
<1> QED BY <1>0, <1>4, <1>5

\* A process that is past a rule of its list does not touch it again.
LEMMA OwnLed ==
    ASSUME TypeInv, NEW p \in Procs, Step(p), proc[p].pc \in {"rule", "insert"},
           Led(chain, proc[p].name, proc[p].src4, proc[p].src6, proc[p].port, proc[p].rule)
    PROVE  Led(chain', proc[p].name, proc[p].src4, proc[p].src6, proc[p].port, proc[p].rule)
<1> DEFINE l  == proc[p]
           i  == proc[p].rule
           b6 == Base("v6", proc[p].port)
<1>0. i \in Nat /\ b6 \in {8, 12} /\ BuiltIn \subseteq DOMAIN chain
  BY DEF TypeInv, TypeOK, Process, Base
<1>1. ASSUME NEW f \in Families, Hooked(chain, f, l.name, SourceOf(p, f)), Item(p).chain # Hooks[f]
      PROVE  Hooked(chain', f, l.name, SourceOf(p, f))
  <2>1. Hooks[f] \in DOMAIN chain
    BY <1>0 DEF Hooks, BuiltIn, Families
  <2> QED BY <1>1, <2>1, LeadsStep DEF Hooked
<1>2. i > 2 => Item(p).chain # "OUTPUT"
  BY WhereIs
<1>3. i > b6 + 2 => Item(p).chain # "OUTPUT6"
  BY <1>0, WhereIs
<1>4. i > 2 => Hooked(chain', "v4", l.name, l.src4)
  BY <1>1, <1>2 DEF Led, Families, Hooks, SourceOf
<1>5. l.src6 # None /\ i > b6 + 2 => Hooked(chain', "v6", l.name, l.src6)
  BY <1>1, <1>3 DEF Led, Families, Hooks, SourceOf
<1>6. ASSUME NEW k \in {"dns-udp", "dns-tcp"}, Redirected(chain, k, l.name, l.src4, l.port),
             k = "dns-udp" => i > 8, k = "dns-tcp" => i > 9
      PROVE  Redirected(chain', k, l.name, l.src4, l.port)
  <2> DEFINE A == {a_rule(k, l.name, l.src4, l.port)}
             B == {r \in RuleOf("nat-OUTPUT") : r.name = l.name /\ r.src = l.src4 /\ r.kind = k /\ r.arg # l.port}
  <2>1. Leads(chain["nat-OUTPUT"], A, B)
    BY <1>6 DEF Redirected
  <2>2. ASSUME Item(p).chain = "nat-OUTPUT" PROVE Item(p).rule \notin A /\ Item(p).rule \notin B
    <3>1. k = "dns-udp" /\ Item(p).rule = a_rule("dns-tcp", l.name, l.src4, l.port)
      BY <1>0, <1>6, <2>2, WhereIs
    <3>2. Item(p).rule.kind # k
      BY <3>1 DEF a_rule
    <3> QED BY <3>2 DEF a_rule
  <2>3. "nat-OUTPUT" \in DOMAIN chain
    BY <1>0 DEF BuiltIn
  <2> HIDE DEF A, B
  <2>4. Leads(chain'["nat-OUTPUT"], A, B)
    BY <2>1, <2>2, <2>3, LeadsStep
  <2> QED BY <2>4 DEF Redirected, A, B
<1>7. /\ l.port # 53 /\ i > 8 => Redirected(chain', "dns-udp", l.name, l.src4, l.port)
      /\ l.port # 53 /\ i > 9 => Redirected(chain', "dns-tcp", l.name, l.src4, l.port)
  BY <1>0, <1>6 DEF Led
<1> QED BY <1>4, <1>5, <1>7 DEF Led

\* A process that goes on in its list has created a chain or inserted its rule.
LEMMA Advances ==
    ASSUME TypeInv, NEW p \in Procs, Step(p), proc[p].pc \in {"rule", "insert"},
           proc' # proc, proc'[p].pc # "insert", proc'[p] # Idle
    PROVE  \/ Item(p).pos = 0
           \/ /\ proc[p].pc = "insert" /\ Item(p).chain \in DOMAIN chain
              /\ chain'[Item(p).chain] \in Seq(RuleOf(Item(p).chain))
              /\ Extends(chain'[Item(p).chain], chain[Item(p).chain], Item(p).pos, Item(p).rule)
<1>0. proc \in [Procs -> Process]
  BY DEF TypeInv, TypeOK
<1>1. \A m : goto(p, m) => proc'[p].pc = m
  BY <1>0 DEF goto, goes, Process
<1>2. ends(p) => proc'[p] = Idle
  BY <1>0 DEF ends, goes
<1>3. ensure_chain(p) \/ (ensure_rule_present(p) /\ ~ends(p))
  BY <1>1, <1>2 DEF Step, ensure_rootless_dns_alias, ensure_rootless_dns_daemon, allocate_read4,
      allocate_probe4, allocate_read6, allocate_probe6, assign4, configure_rootless_podman_source_ipv6,
      destroy_ipsets, create_ipsets, send_create, run_command_checked_fails, killed, interrupted,
      remove_rule_all
<1>4. CASE ensure_chain(p)
  BY <1>4 DEF ensure_chain
<1>5. CASE ensure_rule_present(p) /\ ~ends(p)
  <2>1. /\ proc[p].pc = "insert" /\ can_insert(chain[Item(p).chain], Item(p).pos)
        /\ chain' = [chain EXCEPT ![Item(p).chain] = placed(@, Item(p))]
    BY <1>5 DEF ensure_rule_present
  <2>2. Item(p).pos # 0
    BY <2>1 DEF TypeInv, LocalsSet, Item, Items
  <2>3. Item(p).chain \in DOMAIN chain /\ Item(p).rule \in RuleOf(Item(p).chain) /\ Item(p).pos \in Nat \ {0}
    BY <2>1, <2>2, AtItem
  <2>4. chain'[Item(p).chain] = insert_rule(chain[Item(p).chain], Item(p).pos, Item(p).rule)
    BY <2>1, <2>3 DEF placed
  <2>5. chain[Item(p).chain] \in Seq(RuleOf(Item(p).chain))
    BY <2>3 DEF TypeInv, TypeOK
  <2> QED BY <2>1, <2>3, <2>4, <2>5, InsertExtends
<1> QED BY <1>3, <1>4, <1>5

\* What it has just inserted at the top leads.
LEMMA OwnLedNext ==
    ASSUME TypeInv, NEW p \in Procs, Step(p), proc[p].pc \in {"rule", "insert"}, proc' # proc, proc'[p].pc # "insert", proc'[p] # Idle,
           Led(chain, proc[p].name, proc[p].src4, proc[p].src6, proc[p].port, proc[p].rule)
    PROVE  Led(chain', proc[p].name, proc[p].src4, proc[p].src6, proc[p].port, proc[p].rule + 1)
<1> DEFINE l  == proc[p]
           i  == proc[p].rule
           b6 == Base("v6", proc[p].port)
<1>0. i \in Nat /\ b6 \in {8, 12} /\ BuiltIn \subseteq DOMAIN chain /\ proc \in [Procs -> Process]
  BY DEF TypeInv, TypeOK, Process, Base
<1>1. Led(chain', l.name, l.src4, l.src6, l.port, i)
  BY OwnLed
<1>2. \/ Item(p).pos = 0
      \/ /\ proc[p].pc = "insert" /\ Item(p).chain \in DOMAIN chain
         /\ chain'[Item(p).chain] \in Seq(RuleOf(Item(p).chain))
         /\ Extends(chain'[Item(p).chain], chain[Item(p).chain], Item(p).pos, Item(p).rule)
  BY Advances
<1>3. ASSUME NEW c, NEW r, Item(p) = at(c, 1, r), NEW B PROVE Leads(chain'[c], {r}, B)
  <2>1. Item(p).chain = c /\ Item(p).pos = 1 /\ Item(p).rule = r
    BY <1>3 DEF at
  <2>2. chain'[c] \in Seq(RuleOf(c)) /\ Extends(chain'[c], chain[c], 1, r)
    BY <1>2, <2>1
  <2> QED BY <2>2, LeadsTop
<1>4. \A k : i + 1 > k /\ k \in Nat => i > k \/ i = k
  BY <1>0
<1>5. i + 1 > 2 => Hooked(chain', "v4", l.name, l.src4)
  <2>1. CASE i > 2
    BY <1>1, <2>1 DEF Led
  <2>2. CASE i = 2
    <3>1. Item(p) = at("OUTPUT", 1, a_rule("hook", l.name, l.src4, None))
      BY <2>2, WhereIs
    <3> QED BY <1>3, <3>1 DEF Hooked, Hooks
  <2> QED BY <1>4, <2>1, <2>2
<1>6. l.src6 # None /\ i + 1 > b6 + 2 => Hooked(chain', "v6", l.name, l.src6)
  <2>1. CASE i > b6 + 2
    BY <1>1, <2>1 DEF Led
  <2>2. CASE i = b6 + 2 /\ l.src6 # None
    <3>1. Item(p) = at("OUTPUT6", 1, a_rule("hook", l.name, l.src6, None))
      BY <2>2, WhereIs
    <3> QED BY <1>3, <3>1 DEF Hooked, Hooks
  <2> QED BY <1>0, <2>1, <2>2
<1>7. l.port # 53 /\ i + 1 > 8 => Redirected(chain', "dns-udp", l.name, l.src4, l.port)
  <2>1. CASE i > 8
    BY <1>1, <2>1 DEF Led
  <2>2. CASE i = 8 /\ l.port # 53
    <3>1. Item(p) = at("nat-OUTPUT", 1, a_rule("dns-udp", l.name, l.src4, l.port))
      BY <2>2, WhereIs
    <3> QED BY <1>3, <3>1 DEF Redirected
  <2> QED BY <1>4, <2>1, <2>2
<1>8. l.port # 53 /\ i + 1 > 9 => Redirected(chain', "dns-tcp", l.name, l.src4, l.port)
  <2>1. CASE i > 9
    BY <1>1, <2>1 DEF Led
  <2>2. CASE i = 9 /\ l.port # 53
    <3>1. Item(p) = at("nat-OUTPUT", 1, a_rule("dns-tcp", l.name, l.src4, l.port))
      BY <2>2, WhereIs
    <3> QED BY <1>3, <3>1 DEF Redirected
  <2> QED BY <1>4, <2>1, <2>2
<1> QED BY <1>5, <1>6, <1>7, <1>8 DEF Led

\* How a process comes to a rule, or to the end of the list.
LEMMA WhereNext ==
    ASSUME TypeInv, NEW p \in Procs, Step(p), proc'[p].pc \in {"rule", "insert", "send"}
    PROVE  /\ proc'[p].name = proc[p].name /\ proc'[p].src4 = proc[p].src4 /\ proc'[p].src6 = proc[p].src6
           /\ proc'[p].port = proc[p].port /\ proc'[p].single = proc[p].single
           /\ \/ proc[p].pc = "create" /\ proc'[p].pc = "rule" /\ proc'[p].rule = 1
              \/ proc[p].pc \in {"rule", "insert"} /\ proc'[p].pc \in {"rule", "insert"} /\ proc'[p].rule = proc[p].rule
              \/ proc[p].pc \in {"rule", "insert"} /\ proc'[p].pc = "rule" /\ proc'[p].rule = proc[p].rule + 1
              \/ proc[p].pc \in {"rule", "insert"} /\ proc'[p].pc = "send" /\ ~(proc[p].rule < Len(Items(p)))
<1> DEFINE l == proc[p]
<1>0. proc \in [Procs -> Process] /\ l \in Process
  BY DEF TypeInv, TypeOK
<1>1. \A m : goes(p, m) => proc'[p] = m
  BY <1>0 DEF goes
<1>2. ~ends(p) /\ ~send_create(p)
  BY <1>1 DEF ends, send_create, Idle
<1>3. \A x : [l EXCEPT !.pc = x].pc = x
  BY <1>0 DEF Process
<1> DEFINE Away(m) == m.pc \notin {"rule", "insert", "send"}
<1>4. \A y, z : /\ Away([l EXCEPT !.pc = "read6", !.src4 = y]) /\ Away([l EXCEPT !.pc = "assign4", !.src6 = y])
                /\ Away([l EXCEPT !.pc = "assign4"]) /\ Away([l EXCEPT !.pc = "probe6", !.attempt = 0])
                /\ Away([l EXCEPT !.pc = "read4", !.port = y, !.iface = z])
                /\ Away([l EXCEPT !.pc = "probe4", !.attempt = 0, !.taken = y])
                /\ Away([l EXCEPT !.pc = "read6", !.src4 = y, !.taken = {}])
                /\ l.pc \in {"probe4", "probe6"} => Away([l EXCEPT !.attempt = y])
  BY <1>0 DEF Process
<1>41. \A m : goes(p, m) => ~Away(m)
  BY <1>1
<1> HIDE DEF Away
<1>5. create_ipsets(p) \/ ensure_chain(p) \/ remove_rule_all(p) \/ ensure_rule_present(p)
  <2>1. ~ensure_rootless_dns_alias(p) /\ ~destroy_ipsets(p) /\ ~assign4(p) /\ ~configure_rootless_podman_source_ipv6(p)
    BY <1>1, <1>3 DEF ensure_rootless_dns_alias, destroy_ipsets, assign4, configure_rootless_podman_source_ipv6, goto
  <2>2. ~ensure_rootless_dns_daemon(p)
    <3> SUFFICES ASSUME ensure_rootless_dns_daemon(p) PROVE FALSE
      OBVIOUS
    <3>1. PICK y, z : goes(p, [l EXCEPT !.pc = "read4", !.port = y, !.iface = z])
      BY DEF ensure_rootless_dns_daemon
    <3> QED BY <1>4, <1>41, <3>1
  <2>3. ~allocate_read4(p)
    <3> SUFFICES ASSUME allocate_read4(p) PROVE FALSE
      OBVIOUS
    <3>1. \/ \E y : goes(p, [l EXCEPT !.pc = "read6", !.src4 = y])
          \/ \E z : goes(p, [l EXCEPT !.pc = "probe4", !.attempt = 0, !.taken = z])
      BY DEF allocate_read4
    <3> QED BY <1>4, <1>41, <3>1
  <2>4. ~allocate_read6(p)
    <3> SUFFICES ASSUME allocate_read6(p) PROVE FALSE
      OBVIOUS
    <3>1. \/ goes(p, [l EXCEPT !.pc = "assign4"])
          \/ \E y : goes(p, [l EXCEPT !.pc = "assign4", !.src6 = y])
          \/ goes(p, [l EXCEPT !.pc = "probe6", !.attempt = 0])
      BY DEF allocate_read6, goto
    <3> QED BY <1>4, <1>41, <3>1
  <2>5. ~allocate_probe4(p) /\ ~allocate_probe6(p)
    <3> SUFFICES ASSUME allocate_probe4(p) \/ allocate_probe6(p) PROVE FALSE
      OBVIOUS
    <3>1. \/ l.pc \in {"probe4", "probe6"} /\ goes(p, [l EXCEPT !.attempt = l.attempt + 1])
          \/ \E y : goes(p, [l EXCEPT !.pc = "read6", !.src4 = y, !.taken = {}])
          \/ \E y : goes(p, [l EXCEPT !.pc = "assign4", !.src6 = y])
      BY <1>2 DEF allocate_probe4, allocate_probe6
    <3> QED BY <1>4, <1>41, <3>1
  <2>6. ~run_command_checked_fails(p) /\ ~killed(p)
    BY <1>2 DEF run_command_checked_fails, killed, interrupted
  <2> QED BY <1>2, <2>1, <2>2, <2>3, <2>4, <2>5, <2>6 DEF Step
<1>6. CASE UNCHANGED proc /\ l.pc = "rule"
  BY <1>6
<1>7. CASE create_ipsets(p)
  <2>1. proc'[p] = [l EXCEPT !.pc = "rule"] /\ l.pc = "create"
    BY <1>1, <1>7 DEF create_ipsets, goto
  <2>2. l.rule = 1
    BY <2>1 DEF TypeInv, LocalsSet
  <2> QED BY <1>0, <2>1, <2>2 DEF Process
<1>8. CASE goto(p, "insert") /\ l.pc = "rule"
  <2>1. proc'[p] = [l EXCEPT !.pc = "insert"]
    BY <1>1, <1>8 DEF goto
  <2> QED BY <1>0, <1>8, <2>1 DEF Process
<1>9. CASE next_item(p) /\ l.pc \in {"rule", "insert"}
  <2>1. CASE l.rule < Len(Items(p))
    <3>1. proc'[p] = [l EXCEPT !.pc = "rule", !.rule = l.rule + 1]
      BY <1>1, <1>9, <2>1 DEF next_item
    <3> QED BY <1>0, <1>9, <3>1 DEF Process
  <2>2. CASE ~(l.rule < Len(Items(p)))
    <3>1. proc'[p] = [l EXCEPT !.pc = "send"]
      BY <1>1, <1>9, <2>2 DEF next_item
    <3> QED BY <1>0, <1>9, <2>2, <3>1 DEF Process
  <2> QED BY <2>1, <2>2
<1>10. ensure_chain(p) => next_item(p) /\ l.pc \in {"rule", "insert"}
  BY DEF ensure_chain
<1>11. remove_rule_all(p) => l.pc = "rule" /\ (goto(p, "insert") \/ UNCHANGED proc)
  BY DEF remove_rule_all
<1>12. ensure_rule_present(p) => l.pc \in {"rule", "insert"} /\ next_item(p)
  BY <1>2 DEF ensure_rule_present
<1> HIDE DEF l
<1> QED BY <1>5, <1>6, <1>7, <1>8, <1>9, <1>10, <1>11, <1>12

LEMMA InitLed == Init => LedInv
<1> SUFFICES ASSUME Init PROVE LedInv
  OBVIOUS
<1>1. \A p \in Procs : proc[p].pc = "idle"
  BY DEF Init, Idle
<1>2. \A n \in Names : last[n].status = "none"
  BY DEF Init
<1> QED BY <1>1, <1>2 DEF LedInv

\* At the end of the list, all of it is in place.
LEMMA LedAtEnd ==
    ASSUME NEW l, NEW tables, NEW i \in Nat, ~(i < Len(ensure_rootless_podman_rules(l))),
           Led(tables, l.name, l.src4, l.src6, l.port, i + 1)
    PROVE  Led(tables, l.name, l.src4, l.src6, l.port, Beyond)
<1> DEFINE b6 == Base("v6", l.port)
<1>1. Len(ensure_rootless_podman_rules(l)) = b6 + (IF l.src6 = None THEN 0 ELSE 7)
  BY ItemsAre
<1>2. b6 = (IF l.port = 53 THEN 8 ELSE 12)
  BY DEF Base
<1> HIDE DEF b6
<1>3. i + 1 > 2 /\ (l.src6 # None => i + 1 > b6 + 2) /\ (l.port # 53 => i + 1 > 8 /\ i + 1 > 9)
  BY <1>1, <1>2
<1> QED BY <1>3 DEF Led, b6

LEMMA StepLed ==
    ASSUME TypeInv, LedgerInv, LedInv, NEW p \in Procs, Step(p)
    PROVE  LedInv'
<1>0. proc[p].name \in Names /\ \A q \in Procs \ {p} : proc'[q] = proc[q]
  BY StepFrame
<1>1. ASSUME NEW n \in Names, last'[n].status = "ok"
      PROVE  Led(chain', n, last'[n].src4, last'[n].src6, last'[n].port, Beyond)
  <2>1. CASE last'[n] = last[n]
    <3>1. last[n].status = "ok"
      BY <1>1, <2>1
    <3>2. n # proc[p].name
      BY <3>1 DEF LedgerInv, Free, Busy
    <3>3. Led(chain, n, last[n].src4, last[n].src6, last[n].port, Beyond)
      BY <3>1 DEF LedInv
    <3>4. Led(chain', n, last[n].src4, last[n].src6, last[n].port, Beyond)
      BY <3>2, <3>3, ForeignLed
    <3> QED BY <2>1, <3>4
  <2>2. CASE /\ n = proc[p].name /\ proc[p].pc = "send" /\ proc[p].single /\ UNCHANGED chain
             /\ last'[n] = [status |-> "ok", src4 |-> proc[p].src4, src6 |-> proc[p].src6, port |-> proc[p].port]
    <3>1. Led(chain, proc[p].name, proc[p].src4, proc[p].src6, proc[p].port, Beyond)
      BY <2>2 DEF LedInv
    <3>2. last'[n].src4 = proc[p].src4 /\ last'[n].src6 = proc[p].src6 /\ last'[n].port = proc[p].port
      BY <2>2
    <3> QED BY <2>2, <3>1, <3>2
  <2>3. UNCHANGED last => last'[n] = last[n]
    OBVIOUS
  <2> QED BY <1>1, <2>1, <2>2, <2>3, StepOutcome
<1>2. ASSUME NEW q \in Procs, proc'[q].single, proc'[q].pc \in {"rule", "insert", "send"}
      PROVE  Led(chain', proc'[q].name, proc'[q].src4, proc'[q].src6, proc'[q].port,
                 IF proc'[q].pc = "send" THEN Beyond ELSE proc'[q].rule)
  <2>1. CASE q # p
    <3>1. proc'[q] = proc[q]
      BY <1>0, <2>1
    <3>2. proc[q].name \in Names /\ proc[q].single
      BY <1>2, <3>1 DEF TypeInv, LocalsSet
    <3>3. proc[q].name # proc[p].name
      BY <1>0, <2>1, <3>2, RootlessAssumption DEF LedgerInv
    <3> DEFINE at0 == IF proc[q].pc = "send" THEN Beyond ELSE proc[q].rule
    <3>4. Led(chain, proc[q].name, proc[q].src4, proc[q].src6, proc[q].port, at0)
      BY <1>2, <3>1 DEF LedInv
    <3>5. Led(chain', proc[q].name, proc[q].src4, proc[q].src6, proc[q].port, at0)
      BY <3>3, <3>4, ForeignLed
    <3> QED BY <3>1, <3>5
  <2>2. CASE q = p
    <3> DEFINE l == proc[p]
               m == proc'[p]
    <3> SUFFICES Led(chain', m.name, m.src4, m.src6, m.port, IF m.pc = "send" THEN Beyond ELSE m.rule)
      BY <2>2
    <3>0. m.pc \in {"rule", "insert", "send"}
      BY <1>2, <2>2
    <3>1. /\ m.name = l.name /\ m.src4 = l.src4 /\ m.src6 = l.src6 /\ m.port = l.port /\ m.single = l.single
          /\ \/ l.pc = "create" /\ m.pc = "rule" /\ m.rule = 1
             \/ l.pc \in {"rule", "insert"} /\ m.pc \in {"rule", "insert"} /\ m.rule = l.rule
             \/ l.pc \in {"rule", "insert"} /\ m.pc = "rule" /\ m.rule = l.rule + 1
             \/ l.pc \in {"rule", "insert"} /\ m.pc = "send" /\ ~(l.rule < Len(Items(p)))
      BY <3>0, WhereNext
    <3>2. l.rule \in Nat
      BY DEF TypeInv, TypeOK, Process
    <3>3. ASSUME l.pc \in {"rule", "insert"}
          PROVE  Led(chain, l.name, l.src4, l.src6, l.port, l.rule)
      BY <1>2, <2>2, <3>1, <3>3 DEF LedInv
    <3>4. ASSUME l.pc = "create", m.pc = "rule", m.rule = 1
          PROVE  Led(chain', m.name, m.src4, m.src6, m.port, IF m.pc = "send" THEN Beyond ELSE m.rule)
      <4>1. Base("v6", m.port) \in {8, 12}
        BY DEF Base
      <4> QED BY <3>4, <4>1 DEF Led
    <3>5. ASSUME l.pc \in {"rule", "insert"}, m.pc \in {"rule", "insert"}, m.rule = l.rule
          PROVE  Led(chain', m.name, m.src4, m.src6, m.port, IF m.pc = "send" THEN Beyond ELSE m.rule)
      <4>1. Led(chain', l.name, l.src4, l.src6, l.port, l.rule)
        BY <3>3, <3>5, OwnLed
      <4> QED BY <3>1, <3>5, <4>1
    <3>6. ASSUME l.pc \in {"rule", "insert"}, m.pc \in {"rule", "send"}, m.pc = "rule" => m.rule = l.rule + 1
          PROVE  Led(chain', l.name, l.src4, l.src6, l.port, l.rule + 1)
      <4>1. proc' # proc /\ m.pc # "insert" /\ m # Idle
        BY <3>2, <3>6 DEF Idle
      <4> QED BY <3>3, <3>6, <4>1, OwnLedNext
    <3>7. ASSUME l.pc \in {"rule", "insert"}, m.pc = "rule", m.rule = l.rule + 1
          PROVE  Led(chain', m.name, m.src4, m.src6, m.port, IF m.pc = "send" THEN Beyond ELSE m.rule)
      BY <3>1, <3>6, <3>7
    <3>8. ASSUME l.pc \in {"rule", "insert"}, m.pc = "send", ~(l.rule < Len(Items(p)))
          PROVE  Led(chain', m.name, m.src4, m.src6, m.port, IF m.pc = "send" THEN Beyond ELSE m.rule)
      <4>1. Led(chain', l.name, l.src4, l.src6, l.port, l.rule + 1)
        BY <3>6, <3>8
      <4>2. Led(chain', l.name, l.src4, l.src6, l.port, Beyond)
        BY <3>2, <3>8, <4>1, LedAtEnd DEF Items
      <4> QED BY <3>1, <3>8, <4>2
    <3> QED BY <3>1, <3>4, <3>5, <3>7, <3>8
  <2> QED BY <2>1, <2>2
<1> QED BY <1>1, <1>2 DEF LedInv

LEMMA PrepareLed ==
    ASSUME TypeInv, LedInv, NEW p \in Procs, prepare_rootless_podman_network(p)
    PROVE  LedInv'
<1>1. PICK n \in Names :
        /\ proc'[p] = begins(n)
        /\ \A q \in Procs \ {p} : proc'[q] = IF proc[q].name = n THEN [proc[q] EXCEPT !.single = FALSE] ELSE proc[q]
        /\ \A m \in Names \ {n} : last'[m] = last[m]
        /\ last'[n].status \in {"none", "busy", "broken"}
  BY PrepareIs
<1>2. UNCHANGED chain
  BY PrepareIs
<1>3. \A m \in Names : last'[m].status = "ok" => last'[m] = last[m]
  BY <1>1
<1>4. ASSUME NEW q \in Procs, proc'[q].single, proc'[q].pc \in {"rule", "insert", "send"}
      PROVE  proc'[q] = proc[q]
  <2>1. begins(n).pc = "alias"
    BY DEF begins, Idle
  <2>2. q # p
    BY <1>1, <1>4, <2>1
  <2>3. ~[proc[q] EXCEPT !.single = FALSE].single
    BY DEF TypeInv, TypeOK, Process
  <2> QED BY <1>1, <1>4, <2>2, <2>3
<1> QED BY <1>2, <1>3, <1>4 DEF LedInv

\* Queries of a policy go to the port it was last prepared with, for chains of
\* any length and whatever other preparations, failures and kills came between.
THEOREM DnsTheorem == Spec => []DnsReachesDaemon
<1>1. TypeInv /\ LedgerInv /\ LedInv /\ [Next]_vars => LedgerInv' /\ LedInv'
  <2> SUFFICES ASSUME TypeInv, LedgerInv, LedInv, [Next]_vars PROVE LedgerInv' /\ LedInv'
    OBVIOUS
  <2>1. CASE UNCHANGED vars
    BY <2>1 DEF vars, LedgerInv, LedInv, Busy, Free
  <2>2. ASSUME NEW p \in Procs, prepare_rootless_podman_network(p) \/ Step(p) PROVE LedgerInv' /\ LedInv'
    BY <2>2, PrepareLedger, StepLedger, PrepareLed, StepLed
  <2> QED BY <2>1, <2>2 DEF Next
<1>2. TypeInv /\ LedgerInv /\ LedInv => DnsReachesDaemon
  <2> SUFFICES ASSUME TypeInv, LedgerInv, LedInv, NEW n \in Settled, NEW k \in {"dns-udp", "dns-tcp"},
                      last[n].port # 53, Exclusive("nat-OUTPUT", "v4", n)
               PROVE  DnsPort(n, k) = last[n].port
    BY DEF DnsReachesDaemon
  <2> DEFINE c == chain["nat-OUTPUT"]
             s == last[n].src4
             port == last[n].port
             matches(r) == r.src = s /\ r.kind = k
             I == {i \in 1..Len(c) : matches(c[i])}
             i == FirstMatch(c, matches)
  <2>0. n \in Names /\ last[n].status = "ok"
    BY DEF Settled
  <2>1. "nat-OUTPUT" \in DOMAIN chain /\ c \in Seq(RuleOf("nat-OUTPUT"))
    BY DEF TypeInv, TypeOK, BuiltIn
  <2>2. Len(c) \in Nat /\ DOMAIN c = 1..Len(c) /\ \A j \in 1..Len(c) : c[j] \in RuleOf("nat-OUTPUT")
    BY <2>1, LenProperties, ElementOfSeq
  <2>3. Redirected(chain, k, n, s, port)
    <3>1. Led(chain, n, s, last[n].src6, port, Beyond)
      BY <2>0 DEF LedInv
    <3> QED BY <3>1 DEF Led, Beyond
  <2>4. PICK j \in 1..Len(c) :
          /\ c[j] = a_rule(k, n, s, port)
          /\ \A h \in 1..(j - 1) :
                ~(c[h] \in RuleOf("nat-OUTPUT") /\ c[h].name = n /\ c[h].src = s /\ c[h].kind = k /\ c[h].arg # port)
    BY <2>2, <2>3 DEF Redirected, Leads
  <2>5. c[j].src = s /\ c[j].kind = k /\ c[j].arg = port
    BY <2>4 DEF a_rule
  <2>6. \A h \in 1..Len(c) : c[h].src = s => c[h].name = n
    BY <2>1, <2>2 DEF Exclusive, Source
  <2>7. DnsPort(n, k) = IF i = 0 THEN 53 ELSE c[i].arg
    BY DEF DnsPort
  <2>8. i = IF I # {} THEN Min(I) ELSE 0
    BY DEF FirstMatch, SelectInSeq
  <2> HIDE DEF i, c
  <2>9. j \in I /\ I \in SUBSET (1..Len(c))
    BY <2>5
  <2>10. i \in I /\ \A h \in I : i <= h
    <3>1. c \in Seq(RuleOf("nat-OUTPUT")) /\ I # {} /\ I \in SUBSET (1..Len(c)) /\ i = Min(I)
      BY <2>1, <2>8, <2>9
    <3> HIDE DEF I
    <3> QED BY <3>1, FirstMatchIsFirst
  <2>11. i \in 1..Len(c) /\ c[i].src = s /\ c[i].kind = k /\ i <= j
    BY <2>9, <2>10
  <2>12. c[i].arg = port
    <3>1. CASE i = j
      BY <2>5, <3>1
    <3>2. CASE i # j
      <4>1. i \in 1..(j - 1)
        BY <2>2, <2>11, <3>2
      <4> QED BY <2>2, <2>4, <2>6, <2>11, <4>1
    <3> QED BY <3>1, <3>2
  <2>13. i # 0
    BY <2>2, <2>11
  <2> QED BY <2>7, <2>12, <2>13
<1> QED BY <1>1, <1>2, InitType, NextType, InitLedger, InitLed, PTL DEF Spec
-----------------------------------------------------------------------------
(* A policy that is prepared again *)

\* The step of a process that does not end with it, as far as the choice of
\* addresses is concerned.
LEMMA Moves ==
    ASSUME TypeInv, NEW p \in Procs, Step(p), proc'[p] # Idle
    PROVE  LET l == proc[p]
               m == proc'[p]
               x == rootless_podman_ipv6_prefix(proc[p].iface)
           IN  \/ l.pc \in {"alias", "daemon"} /\ m.pc \in {"daemon", "read4"}
               \/ l.pc = "read4" /\ m.pc = "read6" /\ m.src4 = reusable("v4", l.name, None) /\ m.src4 # None
               \/ l.pc = "read4" /\ m.pc = "probe4" /\ reusable("v4", l.name, None) = None
               \/ l.pc = "probe4"
               \/ l.pc = "read6" /\ m.pc = "assign4" /\ m.src4 = l.src4
                  /\ (m.src6 = l.src6 \/ (m.src6 = reusable("v6", l.name, x) /\ m.src6 # None))
               \/ l.pc = "read6" /\ m.pc = "probe6" /\ m.src4 = l.src4 /\ m.iface = l.iface
                  /\ x # None /\ reusable("v6", l.name, x) = None
               \/ l.pc = "probe6" /\ m.pc = "probe6" /\ m.src4 = l.src4 /\ m.iface = l.iface
               \/ l.pc = "probe6" /\ m.pc = "assign4" /\ m.src4 = l.src4 /\ m.src6[1] = x
               \/ l.pc \in Chosen["v6"] /\ m.pc \in Chosen["v6"] /\ m.src4 = l.src4 /\ m.src6 = l.src6
<1> DEFINE l == proc[p]
           m == proc'[p]
           x == rootless_podman_ipv6_prefix(proc[p].iface)
<1>0. proc \in [Procs -> Process] /\ l \in Process
  BY DEF TypeInv, TypeOK
<1>1. \A y : goes(p, y) => m = y
  BY <1>0 DEF goes
<1>2. ~ends(p) /\ ~send_create(p)
  BY <1>1 DEF ends, send_create
<1>3. ~run_command_checked_fails(p) /\ ~killed(p)
  BY <1>2 DEF run_command_checked_fails, killed, interrupted
<1>4. CASE ensure_rootless_dns_alias(p)
  BY <1>0, <1>1, <1>4 DEF ensure_rootless_dns_alias, goto, Process
<1>5. CASE ensure_rootless_dns_daemon(p)
  <2>1. PICK y, z : goes(p, [l EXCEPT !.pc = "read4", !.port = y, !.iface = z])
    BY <1>5 DEF ensure_rootless_dns_daemon
  <2>2. m = [l EXCEPT !.pc = "read4", !.port = y, !.iface = z]
    BY <1>1, <2>1
  <2>3. m.pc = "read4" /\ l.pc = "daemon"
    BY <1>0, <1>5, <2>2 DEF ensure_rootless_dns_daemon, Process
  <2> QED BY <2>3
<1>6. CASE allocate_read4(p)
  <2> DEFINE own == reusable("v4", l.name, None)
  <2>0. l.pc = "read4"
    BY <1>6 DEF allocate_read4
  <2>1. CASE own # None
    <3>1. m = [l EXCEPT !.pc = "read6", !.src4 = own]
      BY <1>1, <1>6, <2>1 DEF allocate_read4
    <3> HIDE DEF own
    <3>2. m.pc = "read6" /\ m.src4 = own
      BY <1>0, <3>1 DEF Process
    <3> QED BY <2>0, <2>1, <3>2 DEF own
  <2>2. CASE own = None
    <3>1. PICK z : goes(p, [l EXCEPT !.pc = "probe4", !.attempt = 0, !.taken = z])
      BY <1>6, <2>2 DEF allocate_read4
    <3>2. m = [l EXCEPT !.pc = "probe4", !.attempt = 0, !.taken = z]
      BY <1>1, <3>1
    <3>3. m.pc = "probe4"
      BY <1>0, <3>2 DEF Process
    <3> QED BY <2>0, <2>2, <3>3
  <2> QED BY <2>1, <2>2
<1>7. CASE allocate_probe4(p)
  BY <1>7 DEF allocate_probe4
<1>8. CASE allocate_read6(p)
  <2> DEFINE own == reusable("v6", l.name, x)
  <2>0. l.pc = "read6"
    BY <1>8 DEF allocate_read6
  <2>1. CASE x = None
    <3>1. m = [l EXCEPT !.pc = "assign4"]
      BY <1>1, <1>8, <2>1 DEF allocate_read6, goto
    <3>2. m.pc = "assign4" /\ m.src4 = l.src4 /\ m.src6 = l.src6
      BY <1>0, <3>1 DEF Process
    <3> QED BY <2>0, <3>2
  <2>2. CASE x # None /\ own # None
    <3>1. m = [l EXCEPT !.pc = "assign4", !.src6 = own]
      BY <1>1, <1>8, <2>2 DEF allocate_read6
    <3> HIDE DEF own
    <3>2. m.pc = "assign4" /\ m.src4 = l.src4 /\ m.src6 = own
      BY <1>0, <3>1 DEF Process
    <3> QED BY <2>0, <2>2, <3>2 DEF own
  <2>3. CASE x # None /\ own = None
    <3>1. m = [l EXCEPT !.pc = "probe6", !.attempt = 0]
      BY <1>1, <1>8, <2>3 DEF allocate_read6
    <3>2. m.pc = "probe6" /\ m.src4 = l.src4 /\ m.iface = l.iface
      BY <1>0, <3>1 DEF Process
    <3> QED BY <2>0, <2>3, <3>2
  <2> QED BY <2>1, <2>2, <2>3
<1>9. CASE allocate_probe6(p)
  <2> DEFINE ip == rootless_podman_source_ipv6(x, Hash[l.name], l.attempt)
  <2>0. l.pc = "probe6"
    BY <1>9 DEF allocate_probe6
  <2>1. CASE ip \in addrs.v6
    <3>1. m = [l EXCEPT !.attempt = l.attempt + 1]
      BY <1>1, <1>2, <1>9, <2>1 DEF allocate_probe6
    <3>2. m.pc = l.pc /\ m.src4 = l.src4 /\ m.iface = l.iface
      BY <1>0, <3>1 DEF Process
    <3> QED BY <2>0, <3>2
  <2>2. CASE ip \notin addrs.v6
    <3>1. m = [l EXCEPT !.pc = "assign4", !.src6 = ip]
      BY <1>1, <1>2, <1>9, <2>2 DEF allocate_probe6
    <3>2. ip[1] = x
      BY DEF rootless_podman_source_ipv6
    <3> HIDE DEF ip
    <3>3. m.pc = "assign4" /\ m.src4 = l.src4 /\ m.src6 = ip
      BY <1>0, <3>1 DEF Process
    <3>4. m.src6[1] = x
      BY <3>2, <3>3
    <3> QED BY <2>0, <3>3, <3>4
  <2> QED BY <2>1, <2>2
<1>10. CASE assign4(p) \/ configure_rootless_podman_source_ipv6(p) \/ destroy_ipsets(p) \/ create_ipsets(p)
            \/ ensure_chain(p) \/ remove_rule_all(p) \/ ensure_rule_present(p)
  <2>1. l.pc \in {"assign4", "assign6", "destroy", "create", "rule", "insert"}
    BY <1>10 DEF assign4, configure_rootless_podman_source_ipv6, destroy_ipsets, create_ipsets,
                 ensure_chain, remove_rule_all, ensure_rule_present
  <2>2. \/ \E y \in {"destroy", "assign6", "create", "rule", "insert", "send"} : goes(p, [l EXCEPT !.pc = y])
        \/ goes(p, [l EXCEPT !.pc = "rule", !.rule = l.rule + 1])
        \/ UNCHANGED proc
    BY <1>2, <1>10 DEF assign4, configure_rootless_podman_source_ipv6, destroy_ipsets, create_ipsets,
                 ensure_chain, remove_rule_all, ensure_rule_present, goto, next_item
  <2>3. \/ \E y \in {"destroy", "assign6", "create", "rule", "insert", "send"} : m = [l EXCEPT !.pc = y]
        \/ m = [l EXCEPT !.pc = "rule", !.rule = l.rule + 1]
        \/ m = l
    BY <1>1, <2>2
  <2>4. /\ m.pc \in {"assign4", "assign6", "destroy", "create", "rule", "insert", "send"}
        /\ m.src4 = l.src4 /\ m.src6 = l.src6
    BY <1>0, <2>1, <2>3 DEF Process
  <2> QED BY <2>1, <2>4 DEF Chosen, Informed, Pcs
<1> QED BY <1>2, <1>3, <1>4, <1>5, <1>6, <1>7, <1>8, <1>9, <1>10 DEF Step

\* The first hook of the name is the one whose address is used again.
LEMMA ReusedKept ==
    ASSUME TypeInv, OwnMarkers, NEW f \in Families, NEW n \in Names, NEW s, NEW x,
           Hooked(chain, f, n, s), f = "v6" => s[1] = x
    PROVE  reusable(f, n, x) = s
<1> DEFINE c == chain[Hooks[f]]
<1>1. Hooks[f] \in DOMAIN chain /\ c \in Seq(RuleOf(Hooks[f]))
  BY DEF TypeInv, TypeOK, Hooks, BuiltIn, Families
<1>2. Len(c) \in Nat /\ DOMAIN c = 1..Len(c) /\ \A i \in 1..Len(c) : c[i] \in RuleOf(Hooks[f])
  BY <1>1, LenProperties, ElementOfSeq
<1>3. PICK h \in 1..Len(c) :
        /\ c[h] = a_rule("hook", n, s, None)
        /\ \A i \in 1..(h - 1) :
            ~(c[i] \in RuleOf(Hooks[f]) /\ c[i].name = n /\ c[i].src # s /\ (f = "v6" => c[i].src[1] = s[1]))
  BY <1>2 DEF Hooked, Leads
<1>4. c[h].name = n /\ c[h].src = s
  BY <1>3 DEF a_rule
<1>5. own_hook(c[h], f, n, x)
  BY <1>4, RootlessAssumption DEF own_hook
<1>6. PICK k \in 1..Len(c) :
        /\ reusable(f, n, x) = c[k].src
        /\ own_hook(c[k], f, n, x)
        /\ \A i \in 1..(k - 1) : ~own_hook(c[i], f, n, x)
  BY <1>1, <1>5, ReusableIs
<1>7. c[k].name \in Names
  <2>1. Hooks[f] \in ChainsOf(f)
    BY DEF Hooks, ChainsOf, BuiltIn, Families
  <2> QED BY <1>2, <2>1, RuleSources
<1>8. c[k].name = n /\ (f = "v6" => c[k].src[1] = x)
  BY <1>6, <1>7 DEF own_hook, OwnMarkers
<1> HIDE DEF c
<1>9. ~(h \in 1..(k - 1))
  BY <1>5, <1>6
<1>10. CASE k = h
  BY <1>4, <1>6, <1>10
<1>11. CASE k # h
  <2>1. k \in 1..(h - 1)
    BY <1>2, <1>9, <1>11
  <2>2. c[k] \in RuleOf(Hooks[f])
    BY <1>2
  <2>3. c[k].src = s
    BY <1>3, <1>8, <2>1, <2>2
  <2> QED BY <1>6, <2>3
<1> QED BY <1>10, <1>11

\* An address that is used again is under the prefix that was asked for.
LEMMA ReusedUnderPrefix ==
    ASSUME TypeInv, NEW n, NEW x, reusable("v6", n, x) # None
    PROVE  reusable("v6", n, x)[1] = x
<1> DEFINE c == chain["OUTPUT6"]
<1>1. c \in Seq(RuleOf("OUTPUT6")) /\ Hooks["v6"] = "OUTPUT6" /\ "v6" \in Families
  BY DEF TypeInv, TypeOK, Hooks, BuiltIn, Families
<1>2. PICK k \in 1..Len(c) : reusable("v6", n, x) = c[k].src /\ own_hook(c[k], "v6", n, x)
  BY <1>1, ReusableIs
<1> QED BY <1>2 DEF own_hook

\* Outside the installation of rules no hook moves.
LEMMA HookSame ==
    ASSUME TypeInv, NEW p \in Procs, Step(p), proc[p].pc \notin {"rule", "insert"}, NEW f \in Families, NEW n, NEW s,
           Hooked(chain, f, n, s)
    PROVE  Hooked(chain', f, n, s)
<1>1. Hooks[f] \in DOMAIN chain
  BY DEF TypeInv, TypeOK, Hooks, BuiltIn, Families
<1>2. chain'[Hooks[f]] = chain[Hooks[f]]
  BY <1>1, EditStep
<1> QED BY <1>2 DEF Hooked

LEMMA OwnKept ==
    ASSUME TypeInv, OwnMarkers, NEW p \in Procs, Step(p), proc'[p] # Idle,
           NEW n \in Names, n = proc[p].name, NEW s4, s4 # None, NEW s6, Keeps(chain, proc[p], n, s4, s6)
    PROVE  Keeps(chain', proc'[p], n, s4, s6)
<1> DEFINE l == proc[p]
           m == proc'[p]
           x == rootless_podman_ipv6_prefix(proc[p].iface)
           Goal == Keeps(chain', m, n, s4, s6)
<1>0. /\ "v4" \in Families /\ "v6" \in Families
      /\ Chosen["v4"] = {"read6", "probe6", "assign4", "assign6", "destroy", "create", "rule", "insert", "send"}
      /\ Chosen["v6"] = {"assign4", "assign6", "destroy", "create", "rule", "insert", "send"}
  BY DEF Families, Chosen, Informed, Pcs
<1>1. /\ l.pc # "probe4"
      /\ l.pc \in Chosen["v4"] => l.src4 = s4
      /\ l.pc \notin Chosen["v4"] => Hooked(chain, "v4", n, s4)
  BY DEF Keeps
<1>2. s6 # None =>
        /\ l.pc = "probe6" => s6[1] # x
        /\ l.pc \in Chosen["v6"] => (l.src6 # None /\ l.src6[1] = s6[1] => l.src6 = s6)
        /\ l.pc \notin Chosen["v6"] => Hooked(chain, "v6", n, s6)
  BY DEF Keeps
<1>3. l.pc \notin {"rule", "insert"} =>
        /\ Hooked(chain, "v4", n, s4) => Hooked(chain', "v4", n, s4)
        /\ Hooked(chain, "v6", n, s6) => Hooked(chain', "v6", n, s6)
  BY <1>0, HookSame
<1>4. l.pc \notin Chosen["v6"] => l.src6 = None
  BY DEF TypeInv, LocalsSet
<1>5. Hooked(chain, "v4", n, s4) => reusable("v4", n, None) = s4
  BY <1>0, ReusedKept
<1>6. Hooked(chain, "v6", n, s6) /\ s6[1] = x => reusable("v6", n, x) = s6
  BY <1>0, ReusedKept
<1>7. reusable("v6", n, x) # None => reusable("v6", n, x)[1] = x
  BY ReusedUnderPrefix
<1> SUFFICES Goal
  OBVIOUS
<1> USE DEF Keeps
<1>8. CASE l.pc \in {"alias", "daemon"} /\ m.pc \in {"daemon", "read4"}
  BY <1>0, <1>1, <1>2, <1>3, <1>8
<1>9. CASE l.pc = "read4" /\ m.pc = "read6" /\ m.src4 = reusable("v4", l.name, None) /\ m.src4 # None
  BY <1>0, <1>1, <1>2, <1>3, <1>5, <1>9
<1>10. CASE l.pc = "read4" /\ m.pc = "probe4" /\ reusable("v4", l.name, None) = None
  BY <1>0, <1>1, <1>5, <1>10
<1>11. CASE l.pc = "read6" /\ m.pc = "assign4" /\ m.src4 = l.src4
            /\ (m.src6 = l.src6 \/ (m.src6 = reusable("v6", l.name, x) /\ m.src6 # None))
  <2>1. s6 # None /\ m.src6 # None /\ m.src6[1] = s6[1] => m.src6 = s6
    BY <1>0, <1>2, <1>4, <1>6, <1>7, <1>11
  <2> QED BY <1>0, <1>1, <1>11, <2>1
<1>12. CASE l.pc = "read6" /\ m.pc = "probe6" /\ m.src4 = l.src4 /\ m.iface = l.iface
            /\ x # None /\ reusable("v6", l.name, x) = None
  <2>1. s6 # None => s6[1] # x
    BY <1>0, <1>2, <1>6, <1>12
  <2> QED BY <1>0, <1>1, <1>2, <1>3, <1>12, <2>1
<1>13. CASE l.pc = "probe6" /\ m.pc = "probe6" /\ m.src4 = l.src4 /\ m.iface = l.iface
  BY <1>0, <1>1, <1>2, <1>3, <1>13
<1>14. CASE l.pc = "probe6" /\ m.pc = "assign4" /\ m.src4 = l.src4 /\ m.src6[1] = x
  BY <1>0, <1>1, <1>2, <1>14
<1>15. CASE l.pc \in Chosen["v6"] /\ m.pc \in Chosen["v6"] /\ m.src4 = l.src4 /\ m.src6 = l.src6
  BY <1>0, <1>1, <1>2, <1>15
<1> QED BY <1>1, <1>8, <1>9, <1>10, <1>11, <1>12, <1>13, <1>14, <1>15, Moves

LEMMA StepKept ==
    ASSUME TypeInv, LedgerInv, KeptInv, OwnMarkers, NEW p \in Procs, Step(p)
    PROVE  KeptInv'
<1> SUFFICES ASSUME NEW n \in Names, last'[n].status = "busy", NEW q \in Procs, proc'[q].name = n
             PROVE  Keeps(chain', proc'[q], n, last'[n].src4, last'[n].src6)
  BY DEF KeptInv, Busy
<1>0. proc[p].name \in Names /\ \A t \in Procs \ {p} : proc'[t] = proc[t]
  BY StepFrame
<1>1. n # None
  BY RootlessAssumption
<1>2. last'[n] = last[n]
  <2>1. UNCHANGED last => last'[n] = last[n]
    OBVIOUS
  <2>2. ASSUME NEW s4, NEW s6, NEW port, last'[n] = [status |-> "ok", src4 |-> s4, src6 |-> s6, port |-> port]
        PROVE  FALSE
    BY <2>2
  <2>3. last'[n].status \notin {"none", "broken"}
    OBVIOUS
  <2>4. CASE n = proc[p].name
    <3>1. \/ UNCHANGED last
          \/ last'[n].status \in {"none", "broken"}
          \/ last'[n] = [status |-> "ok", src4 |-> proc[p].src4, src6 |-> proc[p].src6, port |-> proc[p].port]
      BY <2>4, StepOutcome
    <3> QED BY <2>1, <2>2, <2>3, <3>1
  <2>5. CASE n # proc[p].name
    BY <2>1, <2>5, StepOutcome
  <2> QED BY <2>4, <2>5
<1>3. last[n].status = "busy"
  BY <1>2
<1>4. CASE q # p
  <2>1. proc'[q] = proc[q] /\ q \in Busy(n)
    BY <1>0, <1>4 DEF Busy
  <2>2. proc[q].single
    BY <1>3, <2>1 DEF LedgerInv
  <2>3. n # proc[p].name
    BY <1>1, <1>4, <2>1, <2>2 DEF LedgerInv, Busy
  <2>4. Keeps(chain, proc[q], n, last[n].src4, last[n].src6)
    BY <1>3, <2>1 DEF KeptInv
  <2>5. "v4" \in Families /\ "v6" \in Families
    BY DEF Families
  <2>6. /\ Hooked(chain, "v4", n, last[n].src4) => Hooked(chain', "v4", n, last[n].src4)
        /\ Hooked(chain, "v6", n, last[n].src6) => Hooked(chain', "v6", n, last[n].src6)
    BY <2>3, <2>5, ForeignHook
  <2>7. Keeps(chain', proc[q], n, last[n].src4, last[n].src6)
    BY <2>4, <2>6 DEF Keeps
  <2> QED BY <1>2, <2>1, <2>7
<1>5. CASE q = p
  <2>1. proc'[p] # Idle /\ proc'[p].name = n
    BY <1>1, <1>5 DEF Idle
  <2>2. proc[p].name = n
    BY <2>1, StepOutcome
  <2>3. Keeps(chain, proc[p], n, last[n].src4, last[n].src6)
    BY <1>3, <2>2 DEF KeptInv, Busy
  <2>4. last[n].src4 # None
    BY <1>3, NoneIsNoAddress DEF LedgerInv
  <2>5. Keeps(chain', proc'[p], n, last[n].src4, last[n].src6)
    BY <2>1, <2>2, <2>3, <2>4, OwnKept
  <2> QED BY <1>2, <1>5, <2>5
<1> QED BY <1>4, <1>5

\* A preparation that begins when the last one finished finds the hooks.
LEMMA PrepareKept ==
    ASSUME TypeInv, LedgerInv, LedInv, KeptInv, NEW p \in Procs, prepare_rootless_podman_network(p)
    PROVE  KeptInv'
<1>1. PICK n \in Names :
        /\ proc'[p] = begins(n)
        /\ \A q \in Procs \ {p} : proc'[q] = IF proc[q].name = n THEN [proc[q] EXCEPT !.single = FALSE] ELSE proc[q]
        /\ \A m \in Names \ {n} : last'[m] = last[m]
        /\ last'[n].status = "busy" => last[n].status = "ok" /\ Free(n)
        /\ \A m \in Names : last'[m].src4 = last[m].src4 /\ last'[m].src6 = last[m].src6
  BY PrepareIs
<1>2. UNCHANGED chain
  BY PrepareIs
<1>3. begins(n).name = n /\ begins(n).pc = "alias"
  BY DEF begins, Idle
<1> SUFFICES ASSUME NEW m \in Names, last'[m].status = "busy", NEW q \in Procs, proc'[q].name = m
             PROVE  Keeps(chain', proc'[q], m, last'[m].src4, last'[m].src6)
  BY DEF KeptInv, Busy
<1>4. CASE m = n
  <2>1. last[n].status = "ok" /\ \A t \in Procs : proc[t].name # n
    BY <1>1, <1>4 DEF Free, Busy
  <2>2. q = p
    BY <1>1, <1>4, <2>1
  <2>3. Led(chain, n, last[n].src4, last[n].src6, last[n].port, Beyond)
    BY <2>1 DEF LedInv
  <2>4. Base("v6", last[n].port) \in {8, 12}
    BY DEF Base
  <2>5. Hooked(chain, "v4", n, last[n].src4) /\ (last[n].src6 # None => Hooked(chain, "v6", n, last[n].src6))
    BY <2>3, <2>4 DEF Led, Beyond
  <2>6. proc'[q].pc = "alias"
    BY <1>1, <1>3, <2>2
  <2>7. "alias" \notin Chosen["v4"] /\ "alias" \notin Chosen["v6"]
    BY DEF Chosen, Informed
  <2>8. last'[m].src4 = last[n].src4 /\ last'[m].src6 = last[n].src6
    BY <1>1, <1>4
  <2> QED BY <1>2, <1>4, <2>5, <2>6, <2>7, <2>8 DEF Keeps
<1>5. CASE m # n
  <2>1. q # p
    BY <1>1, <1>3, <1>5
  <2>2. \A t \in Procs : [proc[t] EXCEPT !.single = FALSE].name = proc[t].name
    BY DEF TypeInv, TypeOK, Process
  <2>3. proc'[q] = proc[q]
    BY <1>1, <1>5, <2>1, <2>2
  <2>4. last'[m] = last[m]
    BY <1>1, <1>5
  <2>5. Keeps(chain, proc[q], m, last[m].src4, last[m].src6)
    BY <2>3, <2>4 DEF KeptInv, Busy
  <2> QED BY <1>2, <2>3, <2>4, <2>5
<1> QED BY <1>4, <1>5

\* Preparing a policy again leaves it its addresses, whatever the other
\* preparations do meanwhile, if no name's marker is part of another name's rule.
THEOREM KeptTheorem ==
    ASSUME OwnMarkers
    PROVE  Spec => AddressKept
<1> DEFINE Inv == TypeInv /\ LedgerInv /\ LedInv /\ KeptInv
           Kept == \A n \in Names : last[n].status = "busy" /\ last'[n].status = "ok" =>
                     /\ last'[n].src4 = last[n].src4
                     /\ last[n].src6 # None /\ last'[n].src6 # None /\ last[n].src6[1] = last'[n].src6[1]
                         => last'[n].src6 = last[n].src6
<1>1. Init => Inv
  <2>1. Init => KeptInv
    BY DEF Init, KeptInv
  <2> QED BY <2>1, InitType, InitLedger, InitLed
<1>2. Inv /\ [Next]_vars => Inv' /\ [Kept]_vars
  <2> SUFFICES ASSUME Inv, [Next]_vars PROVE Inv' /\ [Kept]_vars
    OBVIOUS
  <2>0. TypeInv'
    BY NextType
  <2>1. CASE UNCHANGED vars
    <3>1. Inv'
      BY <2>0, <2>1 DEF vars, LedgerInv, LedInv, KeptInv, Busy, Free
    <3> QED BY <2>1, <3>1
  <2>2. ASSUME NEW p \in Procs, prepare_rootless_podman_network(p) PROVE Inv' /\ Kept
    <3>1. Inv'
      BY <2>0, <2>2, PrepareLedger, PrepareLed, PrepareKept
    <3>2. \A n \in Names : last'[n].src4 = last[n].src4 /\ last'[n].src6 = last[n].src6
      BY <2>2, PrepareIs
    <3> QED BY <3>1, <3>2
  <2>3. ASSUME NEW p \in Procs, Step(p) PROVE Inv' /\ Kept
    <3>1. Inv'
      BY <2>0, <2>3, StepLedger, StepLed, StepKept
    <3>2. ASSUME NEW n \in Names, last[n].status = "busy", last'[n].status = "ok"
          PROVE  /\ last'[n].src4 = last[n].src4
                 /\ last[n].src6 # None /\ last'[n].src6 # None /\ last[n].src6[1] = last'[n].src6[1]
                     => last'[n].src6 = last[n].src6
      <4>1. /\ n = proc[p].name /\ proc[p].pc = "send"
            /\ last'[n] = [status |-> "ok", src4 |-> proc[p].src4, src6 |-> proc[p].src6, port |-> proc[p].port]
        <5>1. last'[n] # last[n] /\ last' # last
          BY <3>2
        <5>2. last'[n].status \notin {"none", "broken"}
          BY <3>2
        <5> QED BY <2>3, <5>1, <5>2, StepOutcome
      <4>2. last'[n].src4 = proc[p].src4 /\ last'[n].src6 = proc[p].src6
        BY <4>1
      <4>3. Keeps(chain, proc[p], n, last[n].src4, last[n].src6)
        BY <3>2, <4>1 DEF KeptInv, Busy
      <4>4. "send" \in Chosen["v4"] /\ "send" \in Chosen["v6"]
        BY DEF Chosen, Informed, Pcs
      <4> QED BY <4>1, <4>2, <4>3, <4>4 DEF Keeps
    <3> QED BY <3>1, <3>2
  <2> QED BY <2>1, <2>2, <2>3 DEF Next
<1> HIDE DEF Inv
<1>3. Spec => [][Kept]_vars
  BY <1>1, <1>2, PTL DEF Spec
<1> QED BY <1>3 DEF AddressKept
-----------------------------------------------------------------------------
(* The rules of the own chains *)

\* Chains stay.
LEMMA ChainsStay ==
    ASSUME NEW p \in Procs, Step(p)
    PROVE  DOMAIN chain \subseteq DOMAIN chain'
<1>1. UNCHANGED chain \/ ensure_chain(p) \/ remove_rule_all(p) \/ ensure_rule_present(p)
  BY DEF Step, ensure_rootless_dns_alias, ensure_rootless_dns_daemon, allocate_read4, allocate_probe4,
         allocate_read6, allocate_probe6, assign4, configure_rootless_podman_source_ipv6, destroy_ipsets,
         create_ipsets, send_create, run_command_checked_fails, killed, interrupted
<1>2. CASE ensure_chain(p)
  BY <1>2 DEF ensure_chain
<1>3. CASE remove_rule_all(p) \/ ensure_rule_present(p)
  <2>1. UNCHANGED chain \/ \E c, g : chain' = [chain EXCEPT ![c] = g]
    BY <1>3 DEF remove_rule_all, ensure_rule_present
  <2> QED BY <2>1
<1> QED BY <1>1, <1>2, <1>3

\* The rules of a name in the own chains are no business of other names.
LEMMA ForeignGuard ==
    ASSUME TypeInv, NEW p \in Procs, Step(p), NEW n, n # proc[p].name, NEW f \in Families, NEW s, NEW port,
           Guarded(chain, f, n, s, port)
    PROVE  Guarded(chain', f, n, s, port)
<1> DEFINE c == Filter[f]
           mine == {r \in RuleOf(c) : r.name = n /\ r.src = s}
           good == {filter_rule(f, j, n, s, port) : j \in 1..5}
           one(j) == {filter_rule(f, j, n, s, port)}
           drops == {r \in mine : r.kind = "drop"}
<1>1. c \in DOMAIN chain /\ Leads(chain[c], one(5), mine \ good) /\ \A j \in 2..4 : Leads(chain[c], one(j), drops)
  BY DEF Guarded
<1>2. proc[p].pc \in {"rule", "insert"} => Item(p).rule.name = proc[p].name
  BY AtItem, ItemFacts DEF Item, Items
<1>3. \A j : filter_rule(f, j, n, s, port).name = n
  BY DEF filter_rule, a_rule
<1>4. \A A, B : /\ \A r \in A : r.name = n
                /\ \A r \in B : r.name = n
                /\ Leads(chain[c], A, B)
                => Leads(chain'[c], A, B)
  <2> SUFFICES ASSUME NEW A, NEW B, \A r \in A : r.name = n, \A r \in B : r.name = n, Leads(chain[c], A, B)
               PROVE  Leads(chain'[c], A, B)
    OBVIOUS
  <2>1. proc[p].pc \in {"rule", "insert"} => Item(p).rule \notin A /\ Item(p).rule \notin B
    BY <1>2
  <2>2. c \in DOMAIN chain
    BY <1>1
  <2> QED BY <2>1, <2>2, LeadsStep
<1>5. /\ \A r \in mine \ good : r.name = n
      /\ \A r \in drops : r.name = n
      /\ \A j : \A r \in one(j) : r.name = n
  BY <1>3
<1>6. c \in DOMAIN chain'
  BY <1>1, ChainsStay
<1>7. Leads(chain'[c], one(5), mine \ good) /\ \A j \in 2..4 : Leads(chain'[c], one(j), drops)
  <2> HIDE DEF one, mine, good, drops, c
  <2> QED BY <1>1, <1>4, <1>5
<1> QED BY <1>6, <1>7 DEF Guarded

\* The five rules are five rules.
LEMMA RulesDiffer ==
    ASSUME NEW f \in Families, NEW i \in 1..5, NEW j \in 1..5, NEW n, NEW s, NEW port,
           filter_rule(f, i, n, s, port) = filter_rule(f, j, n, s, port)
    PROVE  i = j
<1>1. filter_rule(f, i, n, s, port).kind = filter_kinds(f)[i] /\ filter_rule(f, j, n, s, port).kind = filter_kinds(f)[j]
  BY DEF filter_rule, a_rule
<1>2. filter_kinds(f)[i] = filter_kinds(f)[j]
  BY <1>1
<1>3. i \in {1, 2, 3, 4, 5} /\ j \in {1, 2, 3, 4, 5}
  OBVIOUS
<1>4. CASE f = "v4"
  BY <1>2, <1>3, <1>4 DEF filter_kinds
<1>5. CASE f = "v6"
  BY <1>2, <1>3, <1>5 DEF filter_kinds
<1> QED BY <1>4, <1>5 DEF Families

\* Where in the list they are.
LEMMA WhereFilter ==
    ASSUME TypeInv, NEW p \in Procs, proc[p].pc \in {"rule", "insert"}, NEW f \in Families, SourceOf(p, f) # None
    PROVE  LET l == proc[p]
               i == proc[p].rule
               b == Base(f, proc[p].port)
           IN  /\ b \in Nat
               /\ Item(p).chain = Filter[f] /\ Item(p).pos # 0 =>
                    \E j \in 1..5 : i = b + (2 + j) /\ Item(p) = at(Filter[f], j, filter_rule(f, j, l.name, SourceOf(p, f), l.port))
               /\ \A j \in 1..5 : i = b + (2 + j) =>
                    Item(p) = at(Filter[f], j, filter_rule(f, j, l.name, SourceOf(p, f), l.port))
               /\ i > b + 1 => Filter[f] \in DOMAIN chain
<1> DEFINE l  == proc[p]
           i  == proc[p].rule
           b6 == Base("v6", proc[p].port)
           b  == Base(f, proc[p].port)
           I  == ensure_rootless_podman_rules(l)
           it == I[i]
           s  == SourceOf(p, f)
<1>0. Item(p) = it
  BY DEF Item, Items
<1>1. i \in 1..Len(I) /\ i \in Nat
  <2>1. i \in Nat
    BY DEF TypeInv, TypeOK, Process
  <2> QED BY <2>1, AtItem DEF Items
<1>11. i \in 1..Len(I)
  BY <1>1
<1>2. \A c, q, r : it = at(c, q, r) => it.chain = c /\ it.pos = q /\ it.rule = r
  BY DEF at
<1>3. \/ i = 1 /\ it = at("DOCKERWALL-OUTPUT", 0, a_rule("hook", l.name, l.src4, None))
      \/ i = 2 /\ it = at("OUTPUT", 1, a_rule("hook", l.name, l.src4, None))
      \/ \E j \in 1..5 : i = 2 + j /\ it = at("DOCKERWALL-OUTPUT", j, filter_rule("v4", j, l.name, l.src4, l.port))
      \/ i = 8 /\ l.port # 53 /\ it = at("nat-OUTPUT", 1, a_rule("dns-udp", l.name, l.src4, l.port))
      \/ i = 9 /\ l.port # 53 /\ it = at("nat-OUTPUT", 1, a_rule("dns-tcp", l.name, l.src4, l.port))
      \/ i = 10 /\ l.port # 53 /\ it = at("nat-PREROUTING", 1, a_rule("dns-udp", l.name, l.src4, l.port))
      \/ i = 11 /\ l.port # 53 /\ it = at("nat-PREROUTING", 1, a_rule("dns-tcp", l.name, l.src4, l.port))
      \/ i = b6 /\ it = at("nat-POSTROUTING", 1, a_rule("masquerade", l.name, l.src4, l.iface))
      \/ i = b6 + 1 /\ l.src6 # None /\ it = at("DOCKERWALL-OUTPUT6", 0, a_rule("hook", l.name, l.src6, None))
      \/ i = b6 + 2 /\ l.src6 # None /\ it = at("OUTPUT6", 1, a_rule("hook", l.name, l.src6, None))
      \/ \E j \in 1..5 : i = b6 + (2 + j) /\ l.src6 # None
                         /\ it = at("DOCKERWALL-OUTPUT6", j, filter_rule("v6", j, l.name, l.src6, l.port))
  BY <1>11, ItemCases
<1>4. \/ f = "v4" /\ b = 0 /\ s = l.src4 /\ Filter[f] = "DOCKERWALL-OUTPUT"
      \/ f = "v6" /\ b = b6 /\ s = l.src6 /\ Filter[f] = "DOCKERWALL-OUTPUT6" /\ l.src6 # None
  BY DEF Families, Base, SourceOf, Filter
<1>5. b \in Nat
  BY DEF Base
<1>6. ASSUME it.chain = Filter[f], it.pos # 0
      PROVE  \E j \in 1..5 : i = b + (2 + j) /\ it = at(Filter[f], j, filter_rule(f, j, l.name, s, l.port))
  <2> HIDE DEF it, I, l, b6, i, b, s
  <2>1. CASE f = "v4"
    <3>1. \E j \in 1..5 : i = 2 + j /\ it = at("DOCKERWALL-OUTPUT", j, filter_rule("v4", j, l.name, l.src4, l.port))
      BY <1>2, <1>3, <1>4, <1>6, <2>1
    <3>2. \A j \in 1..5 : 0 + (2 + j) = 2 + j
      OBVIOUS
    <3> QED BY <1>4, <2>1, <3>1, <3>2
  <2>2. CASE f = "v6"
    <3>1. \E j \in 1..5 : i = b6 + (2 + j) /\ it = at("DOCKERWALL-OUTPUT6", j, filter_rule("v6", j, l.name, l.src6, l.port))
      BY <1>2, <1>3, <1>4, <1>6, <2>2
    <3> QED BY <1>4, <2>2, <3>1
  <2> QED BY <2>1, <2>2 DEF Families
<1>7. /\ I[1] = at("DOCKERWALL-OUTPUT", 0, a_rule("hook", l.name, l.src4, None))
      /\ \A j \in 1..5 : I[2 + j] = at("DOCKERWALL-OUTPUT", j, filter_rule("v4", j, l.name, l.src4, l.port))
      /\ l.src6 # None =>
           /\ I[b6 + 1] = at("DOCKERWALL-OUTPUT6", 0, a_rule("hook", l.name, l.src6, None))
           /\ \A j \in 1..5 : I[b6 + (2 + j)] = at("DOCKERWALL-OUTPUT6", j, filter_rule("v6", j, l.name, l.src6, l.port))
  BY ItemsAre
<1>8. ASSUME NEW j \in 1..5, i = b + (2 + j)
      PROVE  it = at(Filter[f], j, filter_rule(f, j, l.name, s, l.port))
  <2> HIDE DEF I, l, b6, i, b, s
  <2>1. 0 + (2 + j) = 2 + j
    OBVIOUS
  <2> QED BY <1>4, <1>7, <1>8, <2>1
<1>9. ASSUME i > b + 1 PROVE Filter[f] \in DOMAIN chain
  <2>1. \A k \in 1..(i - 1) : I[k].pos = 0 => I[k].chain \in DOMAIN chain
    BY DEF TypeInv, LocalsSet
  <2>2. b + 1 \in 1..(i - 1)
    BY <1>1, <1>5, <1>9
  <2>3. \E r : I[b + 1] = at(Filter[f], 0, r)
    <3> HIDE DEF I, l, b6, i, b, s
    <3>1. 0 + 1 = 1
      OBVIOUS
    <3> QED BY <1>4, <1>7, <3>1
  <2>4. I[b + 1].pos = 0 /\ I[b + 1].chain = Filter[f]
    BY <2>3 DEF at
  <2> QED BY <2>1, <2>2, <2>4
<1> QED BY <1>0, <1>5, <1>6, <1>8, <1>9

\* Copies of a rule that are deleted are below the rules already on top.
LEMMA OwnTop ==
    ASSUME TypeInv, NEW p \in Procs, Step(p), proc[p].pc \in {"rule", "insert"},
           NEW f \in Families, SourceOf(p, f) # None,
           OnTop(chain, f, proc[p].name, SourceOf(p, f), proc[p].port, proc[p].rule)
    PROVE  OnTop(chain', f, proc[p].name, SourceOf(p, f), proc[p].port, proc[p].rule)
<1> DEFINE l == proc[p]
           i == proc[p].rule
           b == Base(f, proc[p].port)
           c == Filter[f]
           R(j) == filter_rule(f, j, proc[p].name, SourceOf(p, f), proc[p].port)
<1> SUFFICES ASSUME NEW j \in 1..5, i > b + (2 + j)
             PROVE  j <= Len(chain'[c]) /\ chain'[c][j] = R(j)
  BY DEF OnTop
<1>0. i \in Nat /\ b \in Nat
  BY DEF TypeInv, TypeOK, Process, Base
<1>1. c \in DOMAIN chain
  <2>1. i > b + 1
    BY <1>0
  <2> QED BY <2>1, WhereFilter
<1>2. chain[c] \in Seq(RuleOf(c))
  BY <1>1 DEF TypeInv, TypeOK
<1>3. \A h \in 1..5 : i > b + (2 + h) => h <= Len(chain[c]) /\ chain[c][h] = R(h)
  BY DEF OnTop
<1>4. CASE chain'[c] = chain[c]
  BY <1>3, <1>4
<1>5. ASSUME Item(p).chain = c, Item(p).pos # 0
      PROVE  \E h \in 1..5 : i = b + (2 + h) /\ Item(p).rule = R(h) /\ Item(p).pos = h /\ j < h
  <2>1. PICK h \in 1..5 : i = b + (2 + h) /\ Item(p) = at(c, h, R(h))
    BY <1>5, WhereFilter
  <2>2. Item(p).rule = R(h) /\ Item(p).pos = h
    BY <2>1 DEF at
  <2>3. j < h
    BY <1>0, <2>1
  <2> QED BY <2>1, <2>2, <2>3
<1>6. ASSUME Item(p).chain = c, Item(p).pos # 0, chain'[c] \in Seq(RuleOf(c)),
             NEW q, Extends(chain[c], chain'[c], q, Item(p).rule)
      PROVE  j <= Len(chain'[c]) /\ chain'[c][j] = R(j)
  <2>1. PICK h \in 1..5 : i = b + (2 + h) /\ Item(p).rule = R(h) /\ j < h
    BY <1>5, <1>6
  <2>2. q \in Nat \ {0} /\ chain[c][q] = R(h)
    <3>1. q \in Nat \ {0}
      BY <1>2, <1>6, ChainDomains
    <3> QED BY <1>6, <2>1, <3>1 DEF Extends
  <2>3. ~(q <= j)
    <3> SUFFICES ASSUME q <= j PROVE FALSE
      OBVIOUS
    <3>1. q \in 1..5 /\ i > b + (2 + q) /\ q # h
      BY <1>0, <2>1, <2>2
    <3>2. R(q) = R(h)
      BY <1>3, <2>2, <3>1
    <3> QED BY <3>1, <3>2, RulesDiffer
  <2>4. j \in 1..(q - 1)
    BY <2>2, <2>3
  <2>5. j <= Len(chain[c]) /\ chain[c][j] = R(j)
    BY <1>3
  <2>6. /\ j <= Len(chain'[c]) <=> j <= Len(chain[c])
        /\ j <= Len(chain'[c]) => chain'[c][j] = chain[c][j]
    BY <1>2, <1>6, <2>4, TopKept
  <2> QED BY <2>5, <2>6
<1>7. ASSUME Item(p).chain = c, Item(p).pos # 0, chain'[c] \in Seq(RuleOf(c)),
             Extends(chain'[c], chain[c], Item(p).pos, Item(p).rule)
      PROVE  j <= Len(chain'[c]) /\ chain'[c][j] = R(j)
  <2>1. j \in 1..(Item(p).pos - 1)
    BY <1>5, <1>7
  <2>2. j <= Len(chain[c]) /\ chain[c][j] = R(j)
    BY <1>3
  <2>3. /\ j <= Len(chain[c]) <=> j <= Len(chain'[c])
        /\ j <= Len(chain[c]) => chain[c][j] = chain'[c][j]
    BY <1>2, <1>7, <2>1, TopKept
  <2> QED BY <2>2, <2>3
<1> HIDE DEF c, R
<1> QED BY <1>1, <1>4, <1>6, <1>7, EditStep

LEMMA OwnTopNext ==
    ASSUME TypeInv, NEW p \in Procs, Step(p), proc[p].pc \in {"rule", "insert"},
           proc' # proc, proc'[p].pc # "insert", proc'[p] # Idle, NEW f \in Families, SourceOf(p, f) # None,
           OnTop(chain, f, proc[p].name, SourceOf(p, f), proc[p].port, proc[p].rule)
    PROVE  OnTop(chain', f, proc[p].name, SourceOf(p, f), proc[p].port, proc[p].rule + 1)
<1> DEFINE i == proc[p].rule
           b == Base(f, proc[p].port)
           c == Filter[f]
           R(j) == filter_rule(f, j, proc[p].name, SourceOf(p, f), proc[p].port)
<1> SUFFICES ASSUME NEW j \in 1..5, i + 1 > b + (2 + j)
             PROVE  j <= Len(chain'[c]) /\ chain'[c][j] = R(j)
  BY DEF OnTop
<1>0. i \in Nat /\ b \in Nat
  BY DEF TypeInv, TypeOK, Process, Base
<1>1. OnTop(chain', f, proc[p].name, SourceOf(p, f), proc[p].port, i)
  BY OwnTop
<1>2. CASE i > b + (2 + j)
  BY <1>1, <1>2 DEF OnTop
<1>3. CASE i = b + (2 + j)
  <2>1. Item(p) = at(c, j, R(j))
    BY <1>3, WhereFilter
  <2>2. Item(p).chain = c /\ Item(p).pos = j /\ Item(p).rule = R(j)
    BY <2>1 DEF at
  <2>3. j # 0
    OBVIOUS
  <2> HIDE DEF c, R
  <2>4. chain'[c] \in Seq(RuleOf(c)) /\ Extends(chain'[c], chain[c], j, R(j))
    BY <2>2, <2>3, Advances
  <2>5. j \in DOMAIN chain'[c] /\ chain'[c][j] = R(j)
    BY <2>4 DEF Extends
  <2>6. DOMAIN chain'[c] = 1..Len(chain'[c]) /\ Len(chain'[c]) \in Nat
    BY <2>4, LenProperties
  <2> QED BY <2>5, <2>6
<1> QED BY <1>0, <1>2, <1>3

\* Five rules on top are a guard.
LEMMA TopGuards ==
    ASSUME NEW f \in Families, NEW tables, Filter[f] \in DOMAIN tables, NEW S, tables[Filter[f]] \in Seq(S),
           NEW n, NEW s, NEW port, NEW at0 \in Nat, at0 > Base(f, port) + 7,
           OnTop(tables, f, n, s, port, at0)
    PROVE  Guarded(tables, f, n, s, port)
<1> DEFINE c == tables[Filter[f]]
           R(j) == filter_rule(f, j, n, s, port)
           mine == {r \in RuleOf(Filter[f]) : r.name = n /\ r.src = s}
           good == {R(j) : j \in 1..5}
<1>0. Base(f, port) \in Nat
  BY DEF Base
<1>1. \A j \in 1..5 : at0 > Base(f, port) + (2 + j)
  BY <1>0
<1>2. \A j \in 1..5 : j <= Len(c) /\ c[j] = R(j)
  BY <1>1 DEF OnTop
<1>3. DOMAIN c = 1..Len(c) /\ Len(c) \in Nat
  BY LenProperties
<1>4. \A j \in 1..5 : j \in DOMAIN c
  BY <1>2, <1>3
<1>5. \A j \in 1..4 : R(j).kind # "drop"
  <2>1. \A j \in 1..4 : R(j).kind = filter_kinds(f)[j]
    BY DEF filter_rule, a_rule
  <2>2. \A j \in 1..4 : j \in {1, 2, 3, 4}
    OBVIOUS
  <2>3. \A j \in {1, 2, 3, 4} : filter_kinds(f)[j] # "drop"
    BY DEF filter_kinds, Families
  <2> QED BY <2>1, <2>2, <2>3
<1> HIDE DEF c, R
<1>6. Leads(c, {R(5)}, mine \ good)
  <2>1. \A h \in 1..(5 - 1) : c[h] \in good
    BY <1>2
  <2>2. 5 \in DOMAIN c /\ c[5] = R(5)
    BY <1>2, <1>4
  <2> HIDE DEF mine, good
  <2> QED BY <2>1, <2>2 DEF Leads
<1>7. ASSUME NEW j \in 2..4 PROVE Leads(c, {R(j)}, {r \in mine : r.kind = "drop"})
  <2>1. \A h \in 1..(j - 1) : c[h].kind # "drop"
    BY <1>2, <1>5
  <2>2. j \in DOMAIN c /\ c[j] = R(j)
    BY <1>2, <1>4
  <2> HIDE DEF mine
  <2> QED BY <2>1, <2>2 DEF Leads
<1> QED BY <1>6, <1>7 DEF Guarded, c, R

\* A process that has come to the end of its list has its rules in place.
LEMMA EndGuards ==
    ASSUME TypeInv, TypeInv', NEW p \in Procs, Step(p), proc[p].pc \in {"rule", "insert"}, proc'[p].pc = "send",
           ~(proc[p].rule < Len(Items(p))), OnTopBoth(chain, proc[p], proc[p].rule)
    PROVE  GuardedBoth(chain', proc[p].name, proc[p].src4, proc[p].src6, proc[p].port)
<1> DEFINE l == proc[p]
           i == proc[p].rule
           b6 == Base("v6", proc[p].port)
<1>0. i \in Nat /\ l.src4 \in Source4
  <2>1. i \in Nat
    BY DEF TypeInv, TypeOK, Process
  <2> QED BY <2>1, AtItem DEF Ready
<1>1. Len(Items(p)) = b6 + (IF l.src6 = None THEN 0 ELSE 7) /\ b6 \in {8, 12}
  <2>1. Len(Items(p)) = b6 + (IF l.src6 = None THEN 0 ELSE 7)
    BY ItemsAre DEF Items
  <2> QED BY <2>1 DEF Base
<1>2. proc' # proc /\ proc'[p].pc # "insert" /\ proc'[p] # Idle
  BY DEF Idle
<1>3. ASSUME NEW f \in Families, SourceOf(p, f) # None, i + 1 > Base(f, l.port) + 7,
             OnTop(chain, f, l.name, SourceOf(p, f), l.port, i)
      PROVE  Guarded(chain', f, l.name, SourceOf(p, f), l.port)
  <2>1. OnTop(chain', f, l.name, SourceOf(p, f), l.port, i + 1)
    BY <1>2, <1>3, OwnTopNext
  <2>2. Base(f, l.port) \in Nat
    BY DEF Base
  <2>3. i > Base(f, l.port) + 1 /\ i + 1 \in Nat
    BY <1>0, <1>3, <2>2
  <2>4. Filter[f] \in DOMAIN chain
    BY <1>3, <2>3, WhereFilter
  <2>5. Filter[f] \in DOMAIN chain'
    BY <2>4, ChainsStay
  <2>6. chain'[Filter[f]] \in Seq(RuleOf(Filter[f]))
    BY <2>5 DEF TypeInv, TypeOK
  <2> QED BY <1>3, <2>1, <2>3, <2>5, <2>6, TopGuards
<1>4. "v4" \in Families /\ "v6" \in Families /\ SourceOf(p, "v4") = l.src4 /\ SourceOf(p, "v6") = l.src6
  BY DEF Families, SourceOf
<1>5. l.src4 # None /\ Base("v4", l.port) = 0
  BY <1>0, NoneIsNoAddress DEF Base
<1>6. i + 1 > 0 + 7 /\ (l.src6 # None => i + 1 > b6 + 7)
  BY <1>0, <1>1
<1>7. Guarded(chain', "v4", l.name, l.src4, l.port)
  BY <1>3, <1>4, <1>5, <1>6 DEF OnTopBoth
<1>8. ASSUME l.src6 # None PROVE Guarded(chain', "v6", l.name, l.src6, l.port)
  BY <1>3, <1>4, <1>6, <1>8 DEF OnTopBoth
<1> QED BY <1>7, <1>8 DEF GuardedBoth

LEMMA ForeignGuards ==
    ASSUME TypeInv, NEW p \in Procs, Step(p), NEW n, n # proc[p].name, NEW s4, NEW s6, NEW port,
           GuardedBoth(chain, n, s4, s6, port)
    PROVE  GuardedBoth(chain', n, s4, s6, port)
<1>1. "v4" \in Families /\ "v6" \in Families
  BY DEF Families
<1>2. /\ Guarded(chain, "v4", n, s4, port) => Guarded(chain', "v4", n, s4, port)
      /\ Guarded(chain, "v6", n, s6, port) => Guarded(chain', "v6", n, s6, port)
  BY <1>1, ForeignGuard
<1> QED BY <1>2 DEF GuardedBoth

LEMMA OwnTops ==
    ASSUME TypeInv, NEW p \in Procs, Step(p), proc'[p].pc \in {"rule", "insert"},
           proc[p].pc \in {"rule", "insert"} => OnTopBoth(chain, proc[p], proc[p].rule)
    PROVE  OnTopBoth(chain', proc'[p], proc'[p].rule)
<1> DEFINE l == proc[p]
           m == proc'[p]
<1>1. /\ m.name = l.name /\ m.src4 = l.src4 /\ m.src6 = l.src6 /\ m.port = l.port
      /\ \/ l.pc = "create" /\ m.rule = 1
         \/ l.pc \in {"rule", "insert"} /\ m.rule = l.rule
         \/ l.pc \in {"rule", "insert"} /\ m.pc = "rule" /\ m.rule = l.rule + 1
  BY WhereNext
<1>2. "v4" \in Families /\ "v6" \in Families /\ SourceOf(p, "v4") = l.src4 /\ SourceOf(p, "v6") = l.src6
  BY DEF Families, SourceOf
<1>3. CASE m.rule = 1
  <2>1. \A f : Base(f, m.port) \in Nat
    BY DEF Base
  <2>2. \A f : \A j \in 1..5 : ~(1 > Base(f, m.port) + (2 + j))
    BY <2>1
  <2> QED BY <1>3, <2>2 DEF OnTopBoth, OnTop
<1>4. l.pc \in {"rule", "insert"} => l.src4 # None /\ l.rule \in Nat
  <2>1. l.pc \in {"rule", "insert"} => l.src4 \in Source4
    BY AtItem DEF Ready
  <2>2. l.rule \in Nat
    BY DEF TypeInv, TypeOK, Process
  <2> QED BY <2>1, <2>2, NoneIsNoAddress
<1>5. CASE l.pc \in {"rule", "insert"} /\ m.rule = l.rule
  <2>1. OnTop(chain', "v4", l.name, l.src4, l.port, l.rule)
    BY <1>2, <1>4, <1>5, OwnTop DEF OnTopBoth
  <2>2. l.src6 # None => OnTop(chain', "v6", l.name, l.src6, l.port, l.rule)
    BY <1>2, <1>5, OwnTop DEF OnTopBoth
  <2> QED BY <1>1, <1>5, <2>1, <2>2 DEF OnTopBoth
<1>6. CASE l.pc \in {"rule", "insert"} /\ m.pc = "rule" /\ m.rule = l.rule + 1
  <2>0. proc' # proc /\ m.pc # "insert" /\ m # Idle
    BY <1>4, <1>6 DEF Idle
  <2>1. OnTop(chain', "v4", l.name, l.src4, l.port, l.rule + 1)
    BY <1>2, <1>4, <1>6, <2>0, OwnTopNext DEF OnTopBoth
  <2>2. l.src6 # None => OnTop(chain', "v6", l.name, l.src6, l.port, l.rule + 1)
    BY <1>2, <1>6, <2>0, OwnTopNext DEF OnTopBoth
  <2> QED BY <1>1, <1>6, <2>1, <2>2 DEF OnTopBoth
<1> QED BY <1>1, <1>3, <1>5, <1>6

LEMMA StepGuard ==
    ASSUME InstallsAlone, TypeInv, TypeInv', LedgerInv, GuardInv, NEW p \in Procs, Step(p),
           \A q \in Procs \ {p} : proc[q].pc \in Interleaved
    PROVE  GuardInv'
<1>0. proc[p].name \in Names /\ \A q \in Procs \ {p} : proc'[q] = proc[q]
  BY StepFrame
<1>1. ASSUME NEW n \in Names, last'[n].status = "ok"
      PROVE  GuardedBoth(chain', n, last'[n].src4, last'[n].src6, last'[n].port)
  <2>1. CASE last'[n] = last[n]
    <3>1. last[n].status = "ok"
      BY <1>1, <2>1
    <3>2. n # proc[p].name
      BY <3>1 DEF LedgerInv, Free, Busy
    <3>3. GuardedBoth(chain, n, last[n].src4, last[n].src6, last[n].port)
      BY <3>1 DEF GuardInv
    <3>4. GuardedBoth(chain', n, last[n].src4, last[n].src6, last[n].port)
      BY <3>2, <3>3, ForeignGuards
    <3> QED BY <2>1, <3>4
  <2>2. CASE /\ n = proc[p].name /\ proc[p].pc = "send" /\ proc[p].single /\ UNCHANGED chain
             /\ last'[n] = [status |-> "ok", src4 |-> proc[p].src4, src6 |-> proc[p].src6, port |-> proc[p].port]
    <3>1. GuardedBoth(chain, proc[p].name, proc[p].src4, proc[p].src6, proc[p].port)
      BY <2>2 DEF GuardInv
    <3>2. last'[n].src4 = proc[p].src4 /\ last'[n].src6 = proc[p].src6 /\ last'[n].port = proc[p].port
      BY <2>2
    <3> QED BY <2>2, <3>1, <3>2
  <2>3. UNCHANGED last => last'[n] = last[n]
    OBVIOUS
  <2> QED BY <1>1, <2>1, <2>2, <2>3, StepOutcome
<1>2. ASSUME NEW q \in Procs, proc'[q].single, proc'[q].pc = "send"
      PROVE  GuardedBoth(chain', proc'[q].name, proc'[q].src4, proc'[q].src6, proc'[q].port)
  <2>1. CASE q # p
    <3>1. proc'[q] = proc[q]
      BY <1>0, <2>1
    <3>2. proc[q].name \in Names /\ proc[q].single
      BY <1>2, <3>1 DEF TypeInv, LocalsSet
    <3>3. proc[q].name # proc[p].name
      BY <1>0, <2>1, <3>2, RootlessAssumption DEF LedgerInv
    <3>4. GuardedBoth(chain, proc[q].name, proc[q].src4, proc[q].src6, proc[q].port)
      BY <1>2, <3>1 DEF GuardInv
    <3>5. GuardedBoth(chain', proc[q].name, proc[q].src4, proc[q].src6, proc[q].port)
      BY <3>3, <3>4, ForeignGuards
    <3> QED BY <3>1, <3>5
  <2>2. CASE q = p
    <3>1. /\ proc'[p].name = proc[p].name /\ proc'[p].src4 = proc[p].src4 /\ proc'[p].src6 = proc[p].src6
          /\ proc'[p].port = proc[p].port
          /\ proc[p].pc \in {"rule", "insert"} /\ ~(proc[p].rule < Len(Items(p)))
      BY <1>2, <2>2, WhereNext
    <3>2. OnTopBoth(chain, proc[p], proc[p].rule)
      BY <3>1 DEF GuardInv
    <3>3. GuardedBoth(chain', proc[p].name, proc[p].src4, proc[p].src6, proc[p].port)
      BY <1>2, <2>2, <3>1, <3>2, EndGuards
    <3> QED BY <2>2, <3>1, <3>3
  <2> QED BY <2>1, <2>2
<1>3. ASSUME NEW q \in Procs, proc'[q].pc \in {"rule", "insert"}
      PROVE  OnTopBoth(chain', proc'[q], proc'[q].rule)
  <2>1. q = p
    BY <1>0, <1>3 DEF InstallsAlone
  <2>2. proc[p].pc \in {"rule", "insert"} => OnTopBoth(chain, proc[p], proc[p].rule)
    BY DEF GuardInv
  <2> QED BY <1>3, <2>1, <2>2, OwnTops
<1> QED BY <1>1, <1>2, <1>3 DEF GuardInv

LEMMA PrepareGuard ==
    ASSUME InstallsAlone, TypeInv, GuardInv, NEW p \in Procs, prepare_rootless_podman_network(p),
           \A q \in Procs \ {p} : proc[q].pc \in Interleaved
    PROVE  GuardInv'
<1>1. PICK n \in Names :
        /\ proc'[p] = begins(n)
        /\ \A q \in Procs \ {p} : proc'[q] = IF proc[q].name = n THEN [proc[q] EXCEPT !.single = FALSE] ELSE proc[q]
        /\ \A m \in Names \ {n} : last'[m] = last[m]
        /\ last'[n].status \in {"none", "busy", "broken"}
  BY PrepareIs
<1>2. UNCHANGED chain
  BY PrepareIs
<1>3. \A m \in Names : last'[m].status = "ok" => last'[m] = last[m]
  BY <1>1
<1>4. begins(n).pc = "alias"
  BY DEF begins, Idle
<1>5. \A q \in Procs : ~[proc[q] EXCEPT !.single = FALSE].single /\ [proc[q] EXCEPT !.single = FALSE].pc = proc[q].pc
  BY DEF TypeInv, TypeOK, Process
<1>6. ASSUME NEW q \in Procs, proc'[q].single, proc'[q].pc = "send" PROVE proc'[q] = proc[q]
  <2>1. q # p
    BY <1>1, <1>4, <1>6
  <2> QED BY <1>1, <1>5, <1>6, <2>1
<1>7. \A q \in Procs : proc'[q].pc \notin {"rule", "insert"}
  <2>1. \A q \in Procs \ {p} : proc[q].pc \notin {"rule", "insert"}
    BY DEF InstallsAlone
  <2>2. \A q \in Procs \ {p} : proc'[q].pc = proc[q].pc
    BY <1>1, <1>5
  <2> QED BY <1>1, <1>4, <2>1, <2>2
<1> QED BY <1>2, <1>3, <1>6, <1>7 DEF GuardInv

LEMMA InitGuard == Init => GuardInv
<1> SUFFICES ASSUME Init PROVE GuardInv
  OBVIOUS
<1>1. \A p \in Procs : proc[p].pc = "idle"
  BY DEF Init, Idle
<1>2. \A n \in Names : last[n].status = "none"
  BY DEF Init
<1> QED BY <1>1, <1>2 DEF GuardInv

\* What the five rules are about.
Target(f, j, n, s, port) ==
    LET r == filter_rule(f, j, n, s, port)
    IN  <<r.kind, IF r.kind = "allow" THEN r.name ELSE r.arg>>

LEMMA Targets ==
    ASSUME NEW f \in Families, NEW n, NEW s, NEW port
    PROVE  LET T(j) == Target(f, j, n, s, port)
           IN  /\ T(1) \notin Destinations
               /\ {<<"allow", n>>} \cup (IF f = "v4" THEN {"dns-udp", "dns-tcp"} \X {port}
                    ELSE {"neighbor-solicitation", "neighbor-advertisement"} \X {None}) = {T(2), T(3), T(4)}
<1> DEFINE T(j) == Target(f, j, n, s, port)
<1>1. /\ T(1) = <<"established", None>>
      /\ T(4) = <<"allow", n>>
      /\ f = "v4" => T(2) = <<"dns-udp", port>> /\ T(3) = <<"dns-tcp", port>>
      /\ f = "v6" => T(2) = <<"neighbor-solicitation", None>> /\ T(3) = <<"neighbor-advertisement", None>>
  BY DEF Target, filter_rule, filter_kinds, a_rule, Families
<1> HIDE DEF T
<1>2. T(1) \notin Destinations
  BY <1>1 DEF Destinations
<1>3. CASE f = "v4"
  <2>1. {"dns-udp", "dns-tcp"} \X {port} = {<<"dns-udp", port>>, <<"dns-tcp", port>>}
    OBVIOUS
  <2> QED BY <1>1, <1>2, <1>3, <2>1 DEF T
<1>4. CASE f = "v6"
  <2>1. {"neighbor-solicitation", "neighbor-advertisement"} \X {None}
            = {<<"neighbor-solicitation", None>>, <<"neighbor-advertisement", None>>}
    OBVIOUS
  <2> QED BY <1>1, <1>2, <1>4, <2>1 DEF T
<1> QED BY <1>3, <1>4 DEF Families

\* Guarded rules, with a hook that leads to them, let through what they are
\* about and nothing else.
LEMMA GuardDecides ==
    ASSUME TypeInv, NEW f \in Families, NEW n, NEW s, NEW port, Hooked(chain, f, n, s), Guarded(chain, f, n, s, port),
           \A i \in DOMAIN chain[Filter[f]] : chain[Filter[f]][i].src = s => chain[Filter[f]][i].name = n,
           NEW d \in Destinations
    PROVE  Passes(f, s, d) <=> \E j \in 2..4 : d = Target(f, j, n, s, port)
<1> DEFINE c == chain[Filter[f]]
           R(j) == filter_rule(f, j, n, s, port)
           T(j) == Target(f, j, n, s, port)
           mine == {r \in RuleOf(Filter[f]) : r.name = n /\ r.src = s}
           good == {R(j) : j \in 1..5}
           matches(r) == /\ r.src = s
                         /\ r.kind = "drop" \/ d = <<r.kind, IF r.kind = "allow" THEN r.name ELSE r.arg>>
           I == {i \in 1..Len(c) : matches(c[i])}
           i == FirstMatch(c, matches)
<1>0. Filter[f] \in DOMAIN chain /\ c \in Seq(RuleOf(Filter[f]))
  BY DEF TypeInv, TypeOK, Guarded
<1>1. Len(c) \in Nat /\ DOMAIN c = 1..Len(c) /\ \A h \in 1..Len(c) : c[h] \in RuleOf(Filter[f])
  BY <1>0, LenProperties, ElementOfSeq
<1>2. \E h \in DOMAIN chain[Hooks[f]] : chain[Hooks[f]][h].src = s
  <2>1. PICK h \in DOMAIN chain[Hooks[f]] : chain[Hooks[f]][h] = a_rule("hook", n, s, None)
    BY DEF Hooked, Leads
  <2> QED BY <2>1 DEF a_rule
<1>3. i = IF I # {} THEN Min(I) ELSE 0
  BY DEF FirstMatch, SelectInSeq
<1>4. Passes(f, s, d) <=> (i = 0 \/ c[i].kind # "drop")
  BY <1>0, <1>2 DEF Passes, Rules
<1>5. \A j \in 1..5 : /\ R(j).kind = filter_kinds(f)[j] /\ R(j).name = n /\ R(j).src = s
                      /\ T(j) = <<R(j).kind, IF R(j).kind = "allow" THEN R(j).name ELSE R(j).arg>>
  BY DEF filter_rule, a_rule, Target
<1>6. R(5).kind = "drop" /\ \A j \in 1..4 : R(j).kind # "drop"
  <2>1. \A j \in 1..4 : j \in {1, 2, 3, 4}
    OBVIOUS
  <2>2. filter_kinds(f)[5] = "drop" /\ \A j \in {1, 2, 3, 4} : filter_kinds(f)[j] # "drop"
    BY DEF filter_kinds, Families
  <2>3. \A j \in 1..5 : R(j).kind = filter_kinds(f)[j]
    BY <1>5
  <2> QED BY <2>1, <2>2, <2>3
<1>7. PICK k \in 1..Len(c) : c[k] = R(5) /\ \A h \in 1..(k - 1) : c[h] \notin mine \ good
  BY <1>1 DEF Guarded, Leads
<1>8. \A j \in 2..4 : \E h \in 1..Len(c) : /\ c[h] = R(j)
                                           /\ \A g \in 1..(h - 1) : ~(c[g] \in mine /\ c[g].kind = "drop")
  BY <1>1 DEF Guarded, Leads
<1>9. \A h \in 1..Len(c) : c[h].src = s => c[h] \in mine
  BY <1>1
<1>10. T(1) \notin Destinations
  BY Targets
<1> HIDE DEF c, R, T, mine, i
<1>11. k \in I /\ I \in SUBSET (1..Len(c)) /\ I # {}
  BY <1>5, <1>6, <1>7
<1>12. i \in I /\ \A h \in I : i <= h
  <2>1. i = Min(I) /\ I \in SUBSET (1..Len(c)) /\ I # {}
    BY <1>3, <1>11
  <2> HIDE DEF I
  <2> QED BY <1>0, <2>1, FirstMatchIsFirst
<1>13. i \in 1..Len(c) /\ matches(c[i]) /\ i <= k /\ i # 0 /\ c[i] \in mine
  BY <1>1, <1>9, <1>11, <1>12
<1>14. ASSUME c[i].kind # "drop" PROVE \E j \in 2..4 : d = T(j)
  <2>1. i \in 1..(k - 1)
    BY <1>1, <1>6, <1>7, <1>13, <1>14
  <2>2. c[i] \in good
    BY <1>7, <1>13, <2>1
  <2>3. PICK j \in 1..5 : c[i] = R(j)
    BY <2>2
  <2>4. d = T(j)
    BY <1>5, <1>13, <1>14, <2>3
  <2>5. j # 5 /\ j # 1
    BY <1>6, <1>10, <1>14, <2>3, <2>4
  <2>6. j \in 2..4
    BY <2>5
  <2> QED BY <2>4, <2>6
<1>15. ASSUME NEW j \in 2..4, d = T(j) PROVE c[i].kind # "drop"
  <2>0. j \in 1..5 /\ j \in 1..4
    OBVIOUS
  <2>1. PICK h \in 1..Len(c) : /\ c[h] = R(j)
                               /\ \A g \in 1..(h - 1) : ~(c[g] \in mine /\ c[g].kind = "drop")
    BY <1>8
  <2>2. h \in I
    BY <1>5, <1>15, <2>0, <2>1
  <2>3. i <= h
    BY <1>12, <2>2
  <2>4. CASE i = h
    BY <1>6, <2>0, <2>1, <2>4
  <2>5. CASE i # h
    <3>1. i \in 1..(h - 1)
      BY <1>1, <1>13, <2>3, <2>5
    <3> QED BY <1>13, <2>1, <3>1
  <2> QED BY <2>4, <2>5
<1> QED BY <1>4, <1>13, <1>14, <1>15 DEF T

\* From the address of a policy exactly what is meant to be reachable is
\* reachable, over both families, if rules are installed by one process at a
\* time: for chains of any length, any ports, and any number of preparations.
THEOREM FirewallTheorem ==
    ASSUME InstallsAlone
    PROVE  Spec => []RootlessFirewall
<1> DEFINE Inv == TypeInv /\ LedgerInv /\ LedInv /\ GuardInv
<1>1. Init => Inv
  BY InitType, InitLedger, InitLed, InitGuard
<1>2. Inv /\ [Next]_vars => Inv'
  <2> SUFFICES ASSUME Inv, [Next]_vars PROVE Inv'
    OBVIOUS
  <2>0. TypeInv'
    BY NextType
  <2>1. CASE UNCHANGED vars
    BY <2>0, <2>1 DEF vars, LedgerInv, LedInv, GuardInv, Busy, Free
  <2>2. ASSUME NEW p \in Procs, \A q \in Procs \ {p} : proc[q].pc \in Interleaved, prepare_rootless_podman_network(p)
        PROVE  Inv'
    BY <2>0, <2>2, PrepareLedger, PrepareLed, PrepareGuard
  <2>3. ASSUME NEW p \in Procs, \A q \in Procs \ {p} : proc[q].pc \in Interleaved, Step(p)
        PROVE  Inv'
    BY <2>0, <2>3, StepLedger, StepLed, StepGuard
  <2> QED BY <2>1, <2>2, <2>3 DEF Next
<1>3. Inv => RootlessFirewall
  <2> SUFFICES ASSUME Inv, NEW n \in Settled, NEW f \in Families, Source(f, n) # None, Exclusive(Filter[f], f, n),
                      NEW d \in Destinations
               PROVE  Passes(f, Source(f, n), d) <=> d \in Meant(f, n)
    BY DEF RootlessFirewall
  <2> DEFINE s == Source(f, n)
             port == last[n].port
  <2>0. n \in Names /\ last[n].status = "ok"
    BY DEF Settled
  <2>1. Led(chain, n, last[n].src4, last[n].src6, port, Beyond) /\ GuardedBoth(chain, n, last[n].src4, last[n].src6, port)
    BY <2>0 DEF LedInv, GuardInv
  <2>2. Base("v6", port) \in {8, 12}
    BY DEF Base
  <2>3. Hooked(chain, f, n, s)
    BY <2>1, <2>2 DEF Led, Beyond, Source, Families
  <2>4. Guarded(chain, f, n, s, port)
    BY <2>1 DEF GuardedBoth, Source, Families
  <2>5. Filter[f] \in DOMAIN chain
    BY <2>4 DEF Guarded
  <2>6. \A i \in DOMAIN chain[Filter[f]] : chain[Filter[f]][i].src = s => chain[Filter[f]][i].name = n
    BY <2>5 DEF Exclusive
  <2>7. Passes(f, s, d) <=> \E j \in 2..4 : d = Target(f, j, n, s, port)
    <3> HIDE DEF s
    <3> QED BY <2>3, <2>4, <2>6, GuardDecides
  <2>8. Meant(f, n) = {Target(f, 2, n, s, port), Target(f, 3, n, s, port), Target(f, 4, n, s, port)}
    BY Targets DEF Meant
  <2>9. \A j \in 2..4 : j = 2 \/ j = 3 \/ j = 4
    OBVIOUS
  <2> HIDE DEF s, port
  <2>10. Passes(f, s, d) <=> d \in Meant(f, n)
    BY <2>7, <2>8, <2>9
  <2> QED BY <2>10 DEF s
<1> HIDE DEF Inv
<1> QED BY <1>1, <1>2, <1>3, PTL DEF Spec
=============================================================================
