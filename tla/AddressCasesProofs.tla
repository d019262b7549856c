------------------------- MODULE AddressCasesProofs -------------------------
(***************************************************************************)
(* Proofs about the addresses of names, for every hash and every attempt.  *)
(***************************************************************************)
EXTENDS AddressCases, TLAPS

\* What an input is.
Inputs ==
    [kind : {"none"}] \cup [kind : {"gateway", "search"}, hash : Nat]
        \cup [kind : {"source"}, hash : Nat, attempt : Nat]
-----------------------------------------------------------------------------
\* The constants in numbers.
LEMMA Sizes ==
    /\ Octet = 256 /\ SubnetSize = 16 /\ Octet * Octet = 65536
    /\ SourceSlots \in Nat \ {0} /\ SourceSlots <= 131069
    /\ SubnetCount \in Nat \ {0} /\ SubnetCount <= 256
    /\ UsableHosts \in Nat \ {0} /\ UsableHosts <= 14
<1>1. Octet = 256 /\ SubnetSize = 16
  BY DEF Octet, SubnetSize
<1>2. Octet * Octet = 65536
  BY DEF Octet
<1>3. 2 * Octet * Octet - 3 = 131069
  BY DEF Octet
<1>4. SubnetSize - 2 = 14
  BY DEF SubnetSize
<1>5. \A n \in Nat : \A k \in 1 .. n : k \in Nat \ {0} /\ k <= n
  OBVIOUS
<1>6. SourceSlots \in Nat \ {0} /\ SourceSlots <= 131069
  BY <1>3, <1>5, AddressingAssumption
<1>7. SubnetCount \in Nat \ {0} /\ SubnetCount <= 256
  <2>1. Octet \in Nat
    BY <1>1
  <2>2. SubnetCount \in Nat \ {0} /\ SubnetCount <= Octet
    BY <2>1, <1>5, AddressingAssumption
  <2> QED BY <1>1, <2>2
<1>8. UsableHosts \in Nat \ {0} /\ UsableHosts <= 14
  BY <1>4, <1>5, AddressingAssumption
<1> QED BY <1>1, <1>2, <1>6, <1>7, <1>8

\* A remainder is less than what it is divided by.
LEMMA Remainder ==
    ASSUME NEW x \in Nat, NEW m \in Nat \ {0}
    PROVE  x % m \in 0 .. m - 1
  OBVIOUS

\* A number and what is left of it when the divisor was added once.
LEMMA WrapsOnce ==
    ASSUME NEW m \in Nat \ {0}, NEW x \in 0 .. m - 1
    PROVE  x % m = x /\ (x + m) % m = x
  OBVIOUS

\* The slots are filled subnet by subnet: the quotient is a subnet.
LEMMA SlotSubnet ==
    ASSUME NEW n \in Nat \ {0}, NEW u \in Nat \ {0}, NEW slot \in 0 .. n * u - 1
    PROVE  slot \div u \in 0 .. n - 1
<1> DEFINE q == slot \div u
<1>1. q \in Nat /\ q * u <= slot
  OBVIOUS
<1> HIDE DEF q
<1>2. ASSUME q >= n PROVE FALSE
  <2>1. q * u >= n * u
    BY <1>1, <1>2
  <2> QED BY <1>1, <2>1
<1>3. q \in 0 .. n - 1
  BY <1>1, <1>2
<1> QED BY <1>3 DEF q

\* The blocks of subnets are apart: an address with a host number is in the
\* block of its own subnet only.
LEMMA BlocksApart ==
    ASSUME NEW x \in Nat, NEW y \in Nat, NEW g \in Nat, g <= 15
    PROVE  y * 256 <= x * 256 + g /\ x * 256 + g <= y * 256 + 15 <=> y = x
  OBVIOUS

\* Where a slot is: a subnet that exists and a host number in it.
LEMMA SlotHost ==
    ASSUME NEW h \in Nat
    PROVE  /\ subnet_and_gateway(h).third \in 0 .. SubnetCount - 1
           /\ subnet_and_gateway(h).gateway \in 1 .. UsableHosts
<1> DEFINE slots == SubnetCount * UsableHosts
           slot  == h % slots
<1>0. SubnetCount \in Nat \ {0} /\ UsableHosts \in Nat \ {0}
  BY Sizes
<1>1. slots \in Nat \ {0}
  BY <1>0
<1>2. slot \in 0 .. slots - 1
  BY <1>1, Remainder
<1>3. slot \div UsableHosts \in 0 .. SubnetCount - 1
  BY <1>0, <1>2, SlotSubnet
<1>4. slot % UsableHosts \in 0 .. UsableHosts - 1
  BY <1>0, <1>2, Remainder
<1> QED BY <1>0, <1>3, <1>4 DEF subnet_and_gateway

\* The search meets each address: the attempt that does is the distance from
\* where the search began, around the end of the range if need be.
LEMMA SearchMeets ==
    ASSUME NEW h \in Nat, NEW offset \in SourceOffsets
    PROVE  \E a \in 0 .. SourceSlots - 1 : rootless_podman_source_ip(h, a) = offset
<1> DEFINE m == SourceSlots
           r == h % m
           x == offset - 2
<1>0. m \in Nat \ {0}
  BY Sizes
<1>1. r \in 0 .. m - 1
  BY <1>0, Remainder
<1>2. x \in 0 .. m - 1
  BY <1>0 DEF SourceOffsets
<1>3. x % m = x /\ (x + m) % m = x
  BY <1>0, <1>2, WrapsOnce
<1>4. offset = x + 2
  BY <1>0 DEF SourceOffsets
<1>5. \A a : rootless_podman_source_ip(h, a) = ((r + a) % m) + 2
  BY DEF rootless_podman_source_ip
<1> HIDE DEF m, r, x
<1>6. CASE r <= x
  <2>1. x - r \in 0 .. m - 1 /\ r + (x - r) = x
    BY <1>0, <1>1, <1>2, <1>6
  <2> QED BY <1>3, <1>4, <1>5, <2>1 DEF m
<1>7. CASE ~(r <= x)
  <2>1. x + m - r \in 0 .. m - 1 /\ r + (x + m - r) = x + m
    BY <1>0, <1>1, <1>2, <1>7
  <2> QED BY <1>3, <1>4, <1>5, <2>1 DEF m
<1> QED BY <1>6, <1>7

\* The search leaves the range nowhere.
LEMMA SearchStays ==
    ASSUME NEW h \in Nat, NEW a \in Nat
    PROVE  rootless_podman_source_ip(h, a) \in SourceOffsets
<1>0. SourceSlots \in Nat \ {0}
  BY Sizes
<1>1. h % SourceSlots \in 0 .. SourceSlots - 1
  BY <1>0, Remainder
<1>2. ((h % SourceSlots) + a) % SourceSlots \in 0 .. SourceSlots - 1
  BY <1>0, <1>1, Remainder
<1> QED BY <1>0, <1>2 DEF rootless_podman_source_ip, SourceOffsets
-----------------------------------------------------------------------------
\* The inputs are what the functions are called with.
LEMMA InputTypes == AddressSpec => [](input \in Inputs)
<1>1. Init => input \in Inputs
  BY DEF Init, Inputs
<1>2. input \in Inputs /\ [TryAddress]_input => (input \in Inputs)'
  BY CasesAssumption DEF TryAddress, TryGateway, TrySource, TrySearch, Inputs
<1> QED BY <1>1, <1>2, PTL DEF AddressSpec

\* The gateway of a name is a host of its subnet and of no other, whatever
\* its hash.
THEOREM GatewayTheorem == AddressSpec => []GatewayIsHost
<1>1. input \in Inputs => GatewayIsHost
  <2> SUFFICES ASSUME input \in Inputs, input.kind = "gateway" PROVE GatewayIsHost
    BY DEF GatewayIsHost
  <2> DEFINE g == subnet_and_gateway(input.hash)
  <2>1. input.hash \in Nat
    BY DEF Inputs
  <2>2. g.third \in 0 .. Octet - 1 /\ g.gateway \in 1 .. SubnetSize - 2
    <3>1. g.third \in 0 .. SubnetCount - 1 /\ g.gateway \in 1 .. UsableHosts
      BY <2>1, SlotHost
    <3> HIDE DEF g
    <3> QED BY <3>1, Sizes
  <2> HIDE DEF g
  <2>3. ASSUME NEW third \in 0 .. Octet - 1
        PROVE  g.third * Octet + g.gateway \in third * Octet .. third * Octet + SubnetSize - 1
                <=> third = g.third
    <3>1. third \in Nat /\ g.third \in Nat /\ g.gateway \in Nat /\ g.gateway <= 15
      BY <2>2, Sizes
    <3>2. third * 256 <= g.third * 256 + g.gateway /\ g.third * 256 + g.gateway <= third * 256 + 15
            <=> third = g.third
      BY <3>1, BlocksApart
    <3>3. \A a, b, c \in Nat : a \in b .. c <=> b <= a /\ a <= c
      OBVIOUS
    <3>4. third * 256 + 16 - 1 = third * 256 + 15
      BY <3>1
    <3>5. /\ third * 256 \in Nat /\ third * 256 + 15 \in Nat
          /\ g.third * 256 + g.gateway \in Nat
      BY <3>1
    <3> QED BY <3>2, <3>3, <3>4, <3>5, Sizes
  <2> QED BY <2>2, <2>3 DEF GatewayIsHost, g
<1> QED BY <1>1, InputTypes, PTL

\* The proxy answers every source address a policy can get, whatever the hash
\* of its name and however many attempts failed.
THEOREM SourceTheorem == AddressSpec => []SourceIsServed
<1>1. input \in Inputs => SourceIsServed
  <2> SUFFICES ASSUME input \in Inputs, input.kind = "source" PROVE SourceIsServed
    BY DEF SourceIsServed
  <2> DEFINE offset == rootless_podman_source_ip(input.hash, input.attempt)
  <2>1. offset \in SourceOffsets
    BY SearchStays DEF Inputs
  <2> HIDE DEF offset
  <2>2. offset \in Nat /\ 2 <= offset /\ offset <= 131070
    <3>1. SourceSlots \in Nat \ {0} /\ SourceSlots <= 131069
      BY Sizes
    <3> QED BY <2>1, <3>1 DEF SourceOffsets
  <2>3. offset \div (Octet * Octet) \in {0, 1}
    <3>1. offset \div 65536 \in {0, 1}
      BY <2>2
    <3> QED BY <3>1, Sizes
  <2>4. is_local_ip(198, 18 + offset \div (Octet * Octet))
    BY <2>3 DEF is_local_ip
  <2>5. offset # RootlessDnsIp
    BY <2>2 DEF RootlessDnsIp
  <2> QED BY <2>4, <2>5 DEF SourceIsServed, offset
<1> QED BY <1>1, InputTypes, PTL

\* The search for a source address tries all of them before it gives up,
\* wherever it begins.
THEOREM SearchTheorem == AddressSpec => []SearchIsComplete
<1>1. input \in Inputs => SearchIsComplete
  <2> SUFFICES ASSUME input \in Inputs, input.kind = "search" PROVE SearchIsComplete
    BY DEF SearchIsComplete
  <2>1. input.hash \in Nat
    BY DEF Inputs
  <2>2. \A a \in 0 .. SourceSlots - 1 : rootless_podman_source_ip(input.hash, a) \in SourceOffsets
    BY <2>1, SearchStays
  <2>3. \A o \in SourceOffsets :
            \E a \in 0 .. SourceSlots - 1 : rootless_podman_source_ip(input.hash, a) = o
    BY <2>1, SearchMeets
  <2> QED BY <2>2, <2>3 DEF SearchIsComplete
<1> QED BY <1>1, InputTypes, PTL
=============================================================================
