--------------------------- MODULE IptablesProofs ---------------------------
(***************************************************************************)
(* What the operations on a chain of rules do, for chains of any length:   *)
(* the facts that the proofs about the firewall rest on.                   *)
(***************************************************************************)
EXTENDS Iptables, SequenceTheorems, WellFoundedInduction, TLAPS

\* A rule of one set stands above all rules of another.
Leads(chain, lead, others) ==
    \E k \in DOMAIN chain : chain[k] \in lead /\ \A i \in 1..(k - 1) : chain[i] \notin others

\* A set of numbers has a least one, which Min chooses.
LEMMA MinIsLeast ==
    ASSUME NEW T \in SUBSET Nat, T # {}
    PROVE  Min(T) \in T /\ \A y \in T : Min(T) <= y
<1> DEFINE R == OpToRel(<, Nat)
<1>1. IsWellFoundedOn(R, Nat)
  BY NatLessThanWellFounded
<1>2. \A x, y \in Nat : <<y, x>> \in R <=> y < x
  BY DEF OpToRel
<1> HIDE DEF R
<1>3. PICK x \in T : \A y \in T : ~(<<y, x>> \in R)
  BY <1>1, WFMin
<1>4. ASSUME NEW y \in T PROVE x <= y
  <2>1. x \in Nat /\ y \in Nat
    OBVIOUS
  <2>2. ~(y < x)
    BY <1>2, <1>3, <2>1
  <2> QED BY <2>1, <2>2
<1>5. \E z \in T : \A y \in T : z =< y
  BY <1>4
<1> QED BY <1>5 DEF Min

\* The rule that decides is the first one that matches.
LEMMA FirstMatchIsFirst ==
    ASSUME NEW S, NEW f \in Seq(S), NEW I \in SUBSET (1..Len(f)), I # {}
    PROVE  Min(I) \in I /\ \A i \in I : Min(I) <= i
<1>1. I \in SUBSET Nat
  BY LenProperties
<1> QED BY <1>1, MinIsLeast

\* An insertion moves the rules from its position on by one.
LEMMA InsertRule ==
    ASSUME NEW S, NEW f \in Seq(S), NEW r \in S, NEW pos \in Nat \ {0}, can_insert(f, pos)
    PROVE  LET g == insert_rule(f, pos, r) IN
           /\ g \in Seq(S)
           /\ Len(g) = Len(f) + 1
           /\ g[pos] = r
           /\ \A i \in 1..(pos - 1) : g[i] = f[i]
           /\ \A i \in pos..Len(f) : g[i + 1] = f[i]
<1> DEFINE a == SubSeq(f, 1, pos - 1)
           b == SubSeq(f, pos, Len(f))
           g == insert_rule(f, pos, r)
<1>0. Len(f) \in Nat /\ pos <= Len(f) + 1 /\ \A i \in 1..Len(f) : f[i] \in S
  BY LenProperties, ElementOfSeq DEF can_insert
<1>1. a \in Seq(S) /\ Len(a) = pos - 1 /\ \A i \in 1..(pos - 1) : a[i] = f[i]
  <2>1. \A i \in 1..(pos - 1) : f[i] \in S
    BY <1>0
  <2>2. /\ a \in Seq(S) /\ Len(a) = IF 1 <= pos - 1 THEN (pos - 1) - 1 + 1 ELSE 0
        /\ \A i \in 1..((pos - 1) - 1 + 1) : a[i] = f[1 + i - 1]
    BY <2>1, SubSeqProperties
  <2> HIDE DEF a
  <2>3. Len(a) = pos - 1
    BY <2>2
  <2>4. ASSUME NEW i \in 1..(pos - 1) PROVE a[i] = f[i]
    <3>1. i \in 1..((pos - 1) - 1 + 1) /\ 1 + i - 1 = i
      OBVIOUS
    <3> QED BY <2>2, <3>1
  <2> QED BY <2>2, <2>3, <2>4
<1>2. b \in Seq(S) /\ Len(b) = Len(f) + 1 - pos /\ \A i \in 1..(Len(f) + 1 - pos) : b[i] = f[pos + i - 1]
  <2>1. \A i \in pos..Len(f) : f[i] \in S
    BY <1>0
  <2>2. /\ b \in Seq(S) /\ Len(b) = IF pos <= Len(f) THEN Len(f) - pos + 1 ELSE 0
        /\ \A i \in 1..(Len(f) - pos + 1) : b[i] = f[pos + i - 1]
    BY <1>0, <2>1, SubSeqProperties
  <2> HIDE DEF b
  <2>3. Len(b) = Len(f) + 1 - pos /\ Len(f) - pos + 1 = Len(f) + 1 - pos
    BY <1>0, <2>2
  <2> QED BY <2>2, <2>3
<1>3. g = (a \o <<r>>) \o b
  BY DEF insert_rule, InsertAt
<1> HIDE DEF a, b, g
<1>4. <<r>> \in Seq(S) /\ Len(<<r>>) = 1 /\ <<r>>[1] = r
  OBVIOUS
<1>5. /\ a \o <<r>> \in Seq(S) /\ Len(a \o <<r>>) = pos
      /\ \A i \in 1..(pos - 1) : (a \o <<r>>)[i] = f[i]
      /\ (a \o <<r>>)[pos] = r
  <2>1. /\ a \o <<r>> \in Seq(S) /\ Len(a \o <<r>>) = Len(a) + 1
        /\ \A i \in 1..(Len(a) + 1) : (a \o <<r>>)[i] = IF i <= Len(a) THEN a[i] ELSE <<r>>[i - Len(a)]
    BY <1>1, <1>4, ConcatProperties
  <2>2. pos \in 1..(Len(a) + 1) /\ pos - Len(a) = 1 /\ ~(pos <= Len(a)) /\ Len(a) + 1 = pos
    BY <1>1
  <2>3. \A i \in 1..(pos - 1) : i \in 1..(Len(a) + 1) /\ i <= Len(a)
    BY <1>1
  <2> QED BY <1>1, <1>4, <2>1, <2>2, <2>3
<1>6. /\ g \in Seq(S) /\ Len(g) = Len(f) + 1
      /\ \A i \in 1..(Len(f) + 1) : g[i] = IF i <= pos THEN (a \o <<r>>)[i] ELSE b[i - pos]
  <2>1. /\ g \in Seq(S) /\ Len(g) = pos + Len(b)
        /\ \A i \in 1..(pos + Len(b)) : g[i] = IF i <= pos THEN (a \o <<r>>)[i] ELSE b[i - pos]
    BY <1>2, <1>3, <1>5, ConcatProperties
  <2>2. pos + Len(b) = Len(f) + 1
    BY <1>0, <1>2
  <2> QED BY <2>1, <2>2
<1>7. g[pos] = r /\ \A i \in 1..(pos - 1) : g[i] = f[i]
  <2>1. pos \in 1..(Len(f) + 1) /\ \A i \in 1..(pos - 1) : i \in 1..(Len(f) + 1) /\ i <= pos
    BY <1>0
  <2> QED BY <1>5, <1>6, <2>1
<1>8. ASSUME NEW i \in pos..Len(f) PROVE g[i + 1] = f[i]
  <2>1. i + 1 \in 1..(Len(f) + 1) /\ ~(i + 1 <= pos) /\ (i + 1) - pos \in 1..(Len(f) + 1 - pos)
        /\ pos + ((i + 1) - pos) - 1 = i
    BY <1>0
  <2> QED BY <1>2, <1>6, <2>1
<1> QED BY <1>6, <1>7, <1>8 DEF g

\* A deletion takes one copy of the rule away and closes the gap.
LEMMA DeleteRule ==
    ASSUME NEW S, NEW f \in Seq(S), NEW r, has_rule(f, r)
    PROVE  LET g == delete_rule(f, r) IN
           /\ g \in Seq(S)
           /\ Len(g) = Len(f) - 1
           /\ \E q \in 1..Len(f) :
                /\ f[q] = r
                /\ \A i \in 1..(q - 1) : g[i] = f[i]
                /\ \A i \in (q + 1)..Len(f) : g[i - 1] = f[i]
<1> DEFINE I == {i \in 1..Len(f) : f[i] = r}
           q == Min(I)
           a == SubSeq(f, 1, q - 1)
           b == SubSeq(f, q + 1, Len(f))
           g == delete_rule(f, r)
<1>0. Len(f) \in Nat /\ DOMAIN f = 1..Len(f) /\ \A i \in 1..Len(f) : f[i] \in S
  BY LenProperties, ElementOfSeq
<1>1. I # {}
  BY <1>0 DEF has_rule
<1>2. q \in 1..Len(f) /\ f[q] = r
  <2>1. I \in SUBSET (1..Len(f))
    OBVIOUS
  <2>2. q \in I
    BY <1>1, <2>1, FirstMatchIsFirst
  <2> QED BY <2>2
<1>3. g = a \o b
  <2>1. SelectInSeq(f, LAMBDA v : v = r) = q
    BY <1>1 DEF SelectInSeq
  <2>2. \E i \in 1..Len(f) : f[i] = r
    BY <1>2
  <2> QED BY <2>1, <2>2 DEF delete_rule, RemoveFirst, RemoveAt
<1> HIDE DEF q, I
<1>4. a \in Seq(S) /\ Len(a) = q - 1 /\ \A i \in 1..(q - 1) : a[i] = f[i]
  <2>1. \A i \in 1..(q - 1) : f[i] \in S
    BY <1>0, <1>2
  <2>2. /\ a \in Seq(S) /\ Len(a) = IF 1 <= q - 1 THEN (q - 1) - 1 + 1 ELSE 0
        /\ \A i \in 1..((q - 1) - 1 + 1) : a[i] = f[1 + i - 1]
    BY <1>0, <1>2, <2>1, SubSeqProperties
  <2> HIDE DEF a
  <2>3. Len(a) = q - 1
    BY <1>0, <1>2, <2>2
  <2>4. ASSUME NEW i \in 1..(q - 1) PROVE a[i] = f[i]
    <3>1. i \in 1..((q - 1) - 1 + 1) /\ 1 + i - 1 = i
      BY <1>0, <1>2
    <3> QED BY <2>2, <3>1
  <2> QED BY <2>2, <2>3, <2>4
<1>5. b \in Seq(S) /\ Len(b) = Len(f) - q /\ \A i \in 1..(Len(f) - q) : b[i] = f[q + i]
  <2>1. \A i \in (q + 1)..Len(f) : f[i] \in S
    BY <1>0, <1>2
  <2>2. /\ b \in Seq(S) /\ Len(b) = IF q + 1 <= Len(f) THEN Len(f) - (q + 1) + 1 ELSE 0
        /\ \A i \in 1..(Len(f) - (q + 1) + 1) : b[i] = f[(q + 1) + i - 1]
    BY <1>0, <1>2, <2>1, SubSeqProperties
  <2> HIDE DEF b
  <2>3. Len(b) = Len(f) - q
    <3>1. q \in Nat /\ Len(f) \in Nat /\ q <= Len(f)
      BY <1>0, <1>2
    <3>2. Len(b) = IF q + 1 <= Len(f) THEN Len(f) - (q + 1) + 1 ELSE 0
      BY <2>2
    <3> QED BY <3>1, <3>2
  <2>4. ASSUME NEW i \in 1..(Len(f) - q) PROVE b[i] = f[q + i]
    <3>1. i \in 1..(Len(f) - (q + 1) + 1) /\ (q + 1) + i - 1 = q + i
      BY <1>0, <1>2
    <3> QED BY <2>2, <3>1
  <2> QED BY <2>2, <2>3, <2>4
<1> HIDE DEF a, b, g
<1>6. /\ g \in Seq(S) /\ Len(g) = Len(f) - 1
      /\ \A i \in 1..(Len(f) - 1) : g[i] = IF i <= q - 1 THEN a[i] ELSE b[i - (q - 1)]
  <2>1. /\ g \in Seq(S) /\ Len(g) = (q - 1) + (Len(f) - q)
        /\ \A i \in 1..((q - 1) + (Len(f) - q)) : g[i] = IF i <= q - 1 THEN a[i] ELSE b[i - (q - 1)]
    <3>1. /\ a \o b \in Seq(S) /\ Len(a \o b) = Len(a) + Len(b)
          /\ \A i \in 1..(Len(a) + Len(b)) : (a \o b)[i] = IF i <= Len(a) THEN a[i] ELSE b[i - Len(a)]
      BY <1>4, <1>5, ConcatProperties
    <3> QED BY <1>3, <1>4, <1>5, <3>1
  <2>2. (q - 1) + (Len(f) - q) = Len(f) - 1
    BY <1>0, <1>2
  <2> QED BY <2>1, <2>2
<1>7. ASSUME NEW i \in 1..(q - 1) PROVE g[i] = f[i]
  <2>1. i \in 1..(Len(f) - 1) /\ i <= q - 1
    BY <1>0, <1>2
  <2> QED BY <1>4, <1>6, <2>1
<1>8. ASSUME NEW i \in (q + 1)..Len(f) PROVE g[i - 1] = f[i]
  <2>1. i - 1 \in 1..(Len(f) - 1) /\ ~(i - 1 <= q - 1) /\ (i - 1) - (q - 1) \in 1..(Len(f) - q)
        /\ q + ((i - 1) - (q - 1)) = i
    BY <1>0, <1>2
  <2> QED BY <1>5, <1>6, <2>1
<1> QED BY <1>2, <1>6, <1>7, <1>8 DEF g
-----------------------------------------------------------------------------
(* Both operations in one picture: the longer chain is the shorter one with  *)
(* one more rule at position q, and the rules from q on moved down by one.   *)

Shift(q, i) == IF i < q THEN i ELSE i + 1

Extends(g, f, q, r) ==
    /\ q \in DOMAIN g /\ g[q] = r
    /\ \A i \in DOMAIN f : Shift(q, i) \in DOMAIN g /\ g[Shift(q, i)] = f[i]
    /\ \A j \in DOMAIN g \ {q} : \E i \in DOMAIN f : j = Shift(q, i)

\* The rules that move keep their order and make room for one.
LEMMA ShiftOrder ==
    ASSUME NEW q \in Nat
    PROVE  /\ \A i \in Nat : Shift(q, i) \in Nat /\ Shift(q, i) # q
           /\ \A i, j \in Nat : Shift(q, i) < Shift(q, j) <=> i < j
           /\ \A i, j \in Nat : Shift(q, i) = Shift(q, j) => i = j
           /\ \A i \in Nat : i < q => Shift(q, i) = i
  BY DEF Shift

\* An insertion extends the chain.
LEMMA InsertExtends ==
    ASSUME NEW S, NEW f \in Seq(S), NEW r \in S, NEW pos \in Nat \ {0}, can_insert(f, pos)
    PROVE  insert_rule(f, pos, r) \in Seq(S) /\ Extends(insert_rule(f, pos, r), f, pos, r)
<1> DEFINE g == insert_rule(f, pos, r)
<1>1. /\ g \in Seq(S)
      /\ Len(g) = Len(f) + 1
      /\ g[pos] = r
      /\ \A i \in 1..(pos - 1) : g[i] = f[i]
      /\ \A i \in pos..Len(f) : g[i + 1] = f[i]
  BY InsertRule
<1> HIDE DEF g
<1>2. Len(f) \in Nat /\ DOMAIN f = 1..Len(f) /\ DOMAIN g = 1..(Len(f) + 1) /\ pos <= Len(f) + 1
  BY <1>1, LenProperties DEF can_insert
<1>3. ASSUME NEW i \in 1..Len(f) PROVE Shift(pos, i) \in 1..(Len(f) + 1) /\ g[Shift(pos, i)] = f[i]
  <2>1. CASE i < pos
    <3>1. i \in 1..(pos - 1) /\ Shift(pos, i) = i /\ i \in 1..(Len(f) + 1)
      BY <1>2, <2>1 DEF Shift
    <3> QED BY <1>1, <3>1
  <2>2. CASE ~(i < pos)
    <3>1. i \in pos..Len(f) /\ Shift(pos, i) = i + 1 /\ i + 1 \in 1..(Len(f) + 1)
      BY <1>2, <2>2 DEF Shift
    <3> QED BY <1>1, <3>1
  <2> QED BY <2>1, <2>2
<1>4. ASSUME NEW j \in 1..(Len(f) + 1), j # pos PROVE \E i \in 1..Len(f) : j = Shift(pos, i)
  <2>1. CASE j < pos
    <3>1. j \in 1..Len(f) /\ j = Shift(pos, j)
      BY <1>2, <2>1 DEF Shift
    <3> QED BY <3>1
  <2>2. CASE ~(j < pos)
    <3>1. j - 1 \in 1..Len(f) /\ j = Shift(pos, j - 1)
      BY <1>2, <1>4, <2>2 DEF Shift
    <3> QED BY <3>1
  <2> QED BY <2>1, <2>2
<1>5. pos \in 1..(Len(f) + 1)
  BY <1>2
<1>6. Extends(g, f, pos, r)
  BY <1>1, <1>2, <1>3, <1>4, <1>5 DEF Extends
<1> QED BY <1>1, <1>6 DEF g

\* A deletion leaves a chain that the old one extends.
LEMMA DeleteExtends ==
    ASSUME NEW S, NEW f \in Seq(S), NEW r, has_rule(f, r)
    PROVE  /\ delete_rule(f, r) \in Seq(S)
           /\ \E q \in DOMAIN f : f[q] = r /\ Extends(f, delete_rule(f, r), q, r)
<1> DEFINE g == delete_rule(f, r)
<1>1. g \in Seq(S) /\ Len(g) = Len(f) - 1
  BY DeleteRule
<1>2. PICK q \in 1..Len(f) : /\ f[q] = r
                             /\ \A i \in 1..(q - 1) : g[i] = f[i]
                             /\ \A i \in (q + 1)..Len(f) : g[i - 1] = f[i]
  BY DeleteRule
<1> HIDE DEF g
<1>3. Len(f) \in Nat /\ DOMAIN f = 1..Len(f) /\ DOMAIN g = 1..(Len(f) - 1)
  BY <1>1, LenProperties
<1>4. ASSUME NEW i \in 1..(Len(f) - 1) PROVE Shift(q, i) \in 1..Len(f) /\ f[Shift(q, i)] = g[i]
  <2>1. CASE i < q
    <3>1. i \in 1..(q - 1) /\ Shift(q, i) = i /\ i \in 1..Len(f)
      BY <1>3, <2>1 DEF Shift
    <3> QED BY <1>2, <3>1
  <2>2. CASE ~(i < q)
    <3>1. i + 1 \in (q + 1)..Len(f) /\ Shift(q, i) = i + 1 /\ i + 1 \in 1..Len(f) /\ (i + 1) - 1 = i
      BY <1>3, <2>2 DEF Shift
    <3> QED BY <1>2, <3>1
  <2> QED BY <2>1, <2>2
<1>5. ASSUME NEW j \in 1..Len(f), j # q PROVE \E i \in 1..(Len(f) - 1) : j = Shift(q, i)
  <2>1. CASE j < q
    <3>1. j \in 1..(Len(f) - 1) /\ j = Shift(q, j)
      BY <1>3, <2>1 DEF Shift
    <3> QED BY <3>1
  <2>2. CASE ~(j < q)
    <3>1. j - 1 \in 1..(Len(f) - 1) /\ j = Shift(q, j - 1)
      BY <1>3, <1>5, <2>2 DEF Shift
    <3> QED BY <3>1
  <2> QED BY <2>1, <2>2
<1>6. Extends(f, g, q, r)
  BY <1>2, <1>3, <1>4, <1>5 DEF Extends
<1> QED BY <1>1, <1>2, <1>3, <1>6 DEF g

\* The domains of two chains, one of which extends the other, are numbers.
LEMMA ChainDomains ==
    ASSUME NEW S, NEW f \in Seq(S), NEW g \in Seq(S), NEW q, NEW r, Extends(g, f, q, r)
    PROVE  /\ q \in Nat \ {0}
           /\ Len(f) \in Nat /\ DOMAIN f = 1..Len(f) /\ DOMAIN f \subseteq Nat \ {0}
           /\ Len(g) \in Nat /\ DOMAIN g = 1..Len(g) /\ DOMAIN g \subseteq Nat \ {0}
<1>1. DOMAIN f = 1..Len(f) /\ DOMAIN g = 1..Len(g) /\ Len(f) \in Nat /\ Len(g) \in Nat
  BY LenProperties
<1> QED BY <1>1 DEF Extends

\* The rules above the place where one comes or goes stay where they are.
LEMMA TopKept ==
    ASSUME NEW S, NEW f \in Seq(S), NEW g \in Seq(S), NEW q, NEW r, Extends(g, f, q, r), NEW i \in 1..(q - 1)
    PROVE  /\ i <= Len(f) <=> i <= Len(g)
           /\ i <= Len(f) => f[i] = g[i]
<1>0. /\ q \in Nat \ {0} /\ DOMAIN f \subseteq Nat \ {0} /\ DOMAIN g \subseteq Nat \ {0}
      /\ Len(f) \in Nat /\ DOMAIN f = 1..Len(f) /\ Len(g) \in Nat /\ DOMAIN g = 1..Len(g)
  BY ChainDomains
<1>1. i \in Nat /\ 1 <= i /\ i < q
  BY <1>0
<1>2. Shift(q, i) = i
  BY <1>0, <1>1, ShiftOrder
<1>3. ASSUME i <= Len(f) PROVE i <= Len(g) /\ f[i] = g[i]
  <2>1. i \in DOMAIN f
    BY <1>0, <1>1, <1>3
  <2>2. i \in DOMAIN g /\ g[i] = f[i]
    BY <1>2, <2>1 DEF Extends
  <2> QED BY <1>0, <2>2
<1>4. ASSUME i <= Len(g) PROVE i <= Len(f)
  <2>1. i \in DOMAIN g \ {q}
    BY <1>0, <1>1, <1>4
  <2>2. PICK j \in DOMAIN f : i = Shift(q, j)
    BY <2>1 DEF Extends
  <2>3. j \in Nat
    BY <1>0
  <2>4. j = i
    BY <1>0, <1>1, <2>2, <2>3 DEF Shift
  <2> QED BY <1>0, <2>4
<1> QED BY <1>3, <1>4

\* Rules that are all different, some exempt, stay so when one is inserted
\* that is exempt or was not there, and when one is deleted.
AllDifferent(f, exempt) == \A i, j \in DOMAIN f : f[i] = f[j] => i = j \/ f[i] \in exempt

LEMMA DifferentExtended ==
    ASSUME NEW S, NEW T, NEW f \in Seq(S), NEW g \in Seq(T), NEW q, NEW r, NEW exempt,
           Extends(g, f, q, r)
    PROVE  /\ AllDifferent(g, exempt) => AllDifferent(f, exempt)
           /\ AllDifferent(f, exempt) /\ (~has_rule(f, r) \/ r \in exempt) => AllDifferent(g, exempt)
<1>0. DOMAIN f \subseteq Nat /\ DOMAIN g \subseteq Nat /\ q \in Nat
  <2>1. DOMAIN f = 1..Len(f) /\ DOMAIN g = 1..Len(g) /\ Len(f) \in Nat /\ Len(g) \in Nat
    BY LenProperties
  <2> QED BY <2>1 DEF Extends
<1>1. \A i, j \in Nat : Shift(q, i) = Shift(q, j) => i = j
  BY <1>0, ShiftOrder
<1>2. AllDifferent(g, exempt) => AllDifferent(f, exempt)
  BY <1>0, <1>1 DEF AllDifferent, Extends
<1>3. ASSUME AllDifferent(f, exempt), ~has_rule(f, r) \/ r \in exempt PROVE AllDifferent(g, exempt)
  <2> SUFFICES ASSUME NEW i \in DOMAIN g, NEW j \in DOMAIN g, g[i] = g[j]
               PROVE  i = j \/ g[i] \in exempt
    BY DEF AllDifferent
  <2>1. CASE i # q /\ j # q
    BY <1>3, <2>1 DEF AllDifferent, Extends
  <2>2. CASE i = q \/ j = q
    BY <1>3, <2>2 DEF Extends, has_rule
  <2> QED BY <2>1, <2>2
<1> QED BY <1>2, <1>3

\* A rule that leads keeps doing so when a rule is added that is not one of
\* those below, and when one is taken away that is not itself the leading one.
LEMMA LeadsMore ==
    ASSUME NEW S, NEW T, NEW f \in Seq(S), NEW g \in Seq(T), NEW q, NEW r, Extends(g, f, q, r),
           NEW A, NEW B, r \notin B, Leads(f, A, B)
    PROVE  Leads(g, A, B)
<1>0. /\ DOMAIN f = 1..Len(f) /\ DOMAIN g = 1..Len(g) /\ Len(f) \in Nat /\ Len(g) \in Nat
      /\ q \in 1..Len(g)
  BY LenProperties DEF Extends
<1>1. PICK k \in 1..Len(f) : f[k] \in A /\ \A i \in 1..(k - 1) : f[i] \notin B
  BY <1>0 DEF Leads
<1>2. Shift(q, k) \in 1..Len(g) /\ g[Shift(q, k)] \in A
  BY <1>0, <1>1 DEF Extends
<1>3. ASSUME NEW i \in 1..(Shift(q, k) - 1) PROVE g[i] \notin B
  <2>1. i \in 1..Len(g) /\ i < Shift(q, k)
    BY <1>0, <1>2
  <2>2. CASE i = q
    BY <2>2 DEF Extends
  <2>3. CASE i # q
    <3>1. PICK j \in 1..Len(f) : i = Shift(q, j) /\ g[i] = f[j]
      BY <1>0, <2>1, <2>3 DEF Extends
    <3>2. j < k
      <4>1. q \in Nat /\ j \in Nat /\ k \in Nat /\ Shift(q, j) < Shift(q, k)
        BY <1>0, <1>1, <2>1, <3>1
      <4> QED BY <4>1, ShiftOrder
    <3> QED BY <1>1, <3>1, <3>2
  <2> QED BY <2>2, <2>3
<1> QED BY <1>0, <1>2, <1>3 DEF Leads

LEMMA LeadsLess ==
    ASSUME NEW S, NEW T, NEW f \in Seq(S), NEW g \in Seq(T), NEW q, NEW r, Extends(g, f, q, r),
           NEW A, NEW B, r \notin A, Leads(g, A, B)
    PROVE  Leads(f, A, B)
<1>0. /\ DOMAIN f = 1..Len(f) /\ DOMAIN g = 1..Len(g) /\ Len(f) \in Nat /\ Len(g) \in Nat
      /\ q \in 1..Len(g)
  BY LenProperties DEF Extends
<1>1. PICK k \in 1..Len(g) : g[k] \in A /\ \A i \in 1..(k - 1) : g[i] \notin B
  BY <1>0 DEF Leads
<1>2. PICK j \in 1..Len(f) : k = Shift(q, j) /\ f[j] = g[k]
  BY <1>0, <1>1 DEF Extends
<1>3. ASSUME NEW i \in 1..(j - 1) PROVE f[i] \notin B
  <2>1. i \in 1..Len(f) /\ i < j
    BY <1>0, <1>2
  <2>2. Shift(q, i) \in 1..Len(g) /\ g[Shift(q, i)] = f[i]
    BY <1>0, <2>1 DEF Extends
  <2>3. Shift(q, i) < k
    BY <1>0, <1>2, <2>1, ShiftOrder
  <2>4. Shift(q, i) \in 1..(k - 1)
    BY <1>0, <2>2, <2>3
  <2> QED BY <1>1, <2>2, <2>4
<1> QED BY <1>0, <1>1, <1>2, <1>3 DEF Leads

\* The first rule leads over all.
LEMMA LeadsTop ==
    ASSUME NEW S, NEW g \in Seq(S), NEW f, NEW r, Extends(g, f, 1, r), NEW A, NEW B, r \in A
    PROVE  Leads(g, A, B)
<1>1. 1 \in DOMAIN g /\ g[1] \in A
  BY DEF Extends
<1>2. 1..(1 - 1) = {}
  OBVIOUS
<1> QED BY <1>1, <1>2 DEF Leads
=============================================================================
