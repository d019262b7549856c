---------------------------- MODULE SubnetMatch ----------------------------
(***************************************************************************)
(* Which network an address belongs to (src/stats.rs), and what is meant   *)
(* by that.  Addresses are numbers of fewer bits than in the code;         *)
(* ::ffff:0:0/96, the addresses of IPv6 that stand for those of IPv4, is a *)
(* block of the same shape.                                                *)
(***************************************************************************)
EXTENDS Naturals, Bitwise

CONSTANTS
    Bits,           \* 32 and 128: the bits of an address of each family
    MappedBlock,    \* 0xffff: the leading bits of a mapped address
    Invalid         \* a part of a subnet that is no address or no number

ASSUME SubnetAssumption ==
    /\ Bits \in [{"v4", "v6"} -> Nat \ {0}]
    /\ Bits.v4 < Bits.v6
    /\ MappedBlock \in 0 .. 2 ^ (Bits.v6 - Bits.v4) - 1

Addresses(f) == [family : {f}, value : 0 .. 2 ^ Bits[f] - 1]
Address      == Addresses("v4") \cup Addresses("v6")

is_mapped(ip) == ip.family = "v6" /\ ip.value \div 2 ^ Bits.v4 = MappedBlock

to_ipv4_mapped(ip) ==
    IF is_mapped(ip) THEN [family |-> "v4", value |-> ip.value % 2 ^ Bits.v4] ELSE ip

\* A shift keeps the width, and its distance must be less than the width.
shl(x, k, width) == (x * 2 ^ k) % 2 ^ width

\* Variant with a fault: without a case for it, length 0 shifts by the whole
\* width, which the machine takes for no shift.
mask_NoZero(len, width) ==
    IF len >= width THEN 2 ^ width - 1 ELSE shl(2 ^ width - 1, (width - len) % width, width)

mask(len, width) ==
    CASE len = 0      -> 0
      [] len >= width -> 2 ^ width - 1
      [] OTHER        -> shl(2 ^ width - 1, width - len, width)

\* The subnet is a text; net and len are what its two parts parse as.
ip_in_subnet(origin, net, len) ==
    LET ip == to_ipv4_mapped(origin)
        m  == mask(len, Bits[net.family])
    IN  /\ net # Invalid
        /\ len # Invalid
        /\ ip.family = net.family
        /\ (ip.value & m) = (net.value & m)

\* The reference: the block of addresses from the network's first to its last.
Block(net, len) ==
    LET width == Bits[net.family]
        size  == 2 ^ (IF len > width THEN 0 ELSE width - len)
        first == (net.value \div size) * size
    IN  [family : {net.family}, value : first .. first + size - 1]

\* An address of IPv4 in the notation of IPv6 is in subnets of IPv4 only, and
\* none is in what is no subnet.
InBlock(origin, net, len) ==
    LET same == {v \in Addresses("v4") :
                    origin = [family |-> "v6", value |-> MappedBlock * 2 ^ Bits.v4 + v.value]}
    IN  /\ Invalid \notin {net, len}
        /\ (IF same = {} THEN {origin} ELSE same) \subseteq Block(net, len)
=============================================================================
