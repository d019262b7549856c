----------------------------- MODULE Addressing -----------------------------
(***************************************************************************)
(* How names are given addresses (src/helper.rs), and which addresses the  *)
(* proxy answers (src/proxy.rs).  A hash of the name, and of the number of *)
(* the attempt, picks a slot; the slot is an address.  The hash functions  *)
(* are external: a hash is any natural number.                             *)
(***************************************************************************)
EXTENDS Naturals

CONSTANTS
    SubnetCount,    \* 256: values of the third octet
    UsableHosts,    \* USABLE_HOSTS_PER_SUBNET, 14
    SourceSlots,    \* 131_069: source addresses for rootless Podman
    HostIds         \* 2^64: host parts of an IPv6 address

Octet      == 256   \* values of an octet
SubnetSize == 16    \* addresses of a subnet, with NETWORK_PREFIX_LENGTH 28

ASSUME AddressingAssumption ==
    /\ SubnetCount \in 1 .. Octet
    /\ UsableHosts \in 1 .. SubnetSize - 2
    /\ SourceSlots \in 1 .. 2 * Octet * Octet - 3
    /\ HostIds \in Nat \ {0}

\* Variant with a fault: host numbers from 0.
subnet_and_gateway_FromZero(hash) ==
    LET slot == hash % (SubnetCount * UsableHosts)
    IN  [third |-> slot \div UsableHosts, gateway |-> slot % UsableHosts]

\* Subnet 172.30.third.0/28 and, in it, the host number of the gateway.
subnet_and_gateway(hash) ==
    LET slot == hash % (SubnetCount * UsableHosts)
    IN  [third |-> slot \div UsableHosts, gateway |-> (slot % UsableHosts) + 1]

\* Offsets in 198.18.0.0/15.  The first two are the network and the alias
\* that containers send their DNS queries to; the last one is left out too.
RootlessDnsIp == 1
SourceOffsets == 2 .. SourceSlots + 1

\* Variants with a fault: the sum with the attempt is not reduced again, or
\* wraps one address early.
rootless_podman_source_ip_NoWrap(hash, attempt) == (hash % SourceSlots) + attempt + 2
rootless_podman_source_ip_Early(hash, attempt) ==
    (((hash % SourceSlots) + attempt) % (SourceSlots - 1)) + 2

rootless_podman_source_ip(hash, attempt) ==
    (((hash % SourceSlots) + attempt) % SourceSlots) + 2

\* The prefix of the interface and a host part that wraps.
rootless_podman_source_ipv6(prefix, hash, attempt) == <<prefix, (hash + attempt) % HostIds>>

\* Of addresses of IPv4 their first two octets decide whether the proxy
\* answers; which are private, loopback and link-local is external.
is_loopback(a, b)   == a = 127
is_private(a, b)    == a = 10 \/ (a = 172 /\ b \in 16 .. 31) \/ (a = 192 /\ b = 168)
is_link_local(a, b) == a = 169 /\ b = 254

is_local_ip(a, b) ==
    is_loopback(a, b) \/ is_private(a, b) \/ is_link_local(a, b) \/ (a = 198 /\ b \in {18, 19})
=============================================================================
