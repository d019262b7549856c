------------------------------- MODULE Ipset -------------------------------
(***************************************************************************)
(* The kernel's ipsets as Dockerwall uses them (src/ipset.rs and the ipset *)
(* commands of src/helper.rs).  A network has a pair of sets, one for each *)
(* address family; iptables rules refer to them and keep them alive.       *)
(* The ipset utility and the kernel are external: their behaviour is the   *)
(* one the code relies on.                                                 *)
(***************************************************************************)
EXTENDS Network

VARIABLES
    kset,       \* the sets that exist, and what each one holds
    referenced  \* the sets some iptables rule matches against

Families == {"inet", "inet6"}
SetKeys  == Names \X Families

family(ip) == IF ip \in V6Ips THEN "inet6" ELSE "inet"

IpsetType ==
    /\ DOMAIN kset \subseteq SetKeys
    /\ kset \in [DOMAIN kset -> SUBSET Ips]
    /\ referenced \in SUBSET SetKeys

\* The given networks have their two sets, still empty, and IPv4 rules.
IpsetInit(names) ==
    /\ kset = [k \in names \X Families |-> {}]
    /\ referenced = names \X {"inet"}

\* The sets of the pair that ipv6_ipset_name tells apart.
KernelIps(n) == UNION {kset[k] : k \in {<<n, f>> : f \in Families} \cap DOMAIN kset}

\* ipset destroy: refused by the kernel while a rule refers to the set, and
\* the caller ignores that failure.
destroy_set(k) ==
    kset' = [j \in DOMAIN kset \ ({k} \ referenced) |-> kset[j]]

\* ipset create ... -exist: an existing set is left alone, with its entries.
create_set(k) ==
    kset' = [j \in DOMAIN kset \cup {k} |-> IF j \in DOMAIN kset THEN kset[j] ELSE {}]

\* The way out when create fails: a new empty set is swapped in, or renamed.
\* The swap is one step of the kernel; the temporary set is destroyed.
swap_in_empty(k) ==
    kset' = [j \in DOMAIN kset \cup {k} |-> IF j = k THEN {} ELSE kset[j]]

\* The two kinds of lines in the payload of `ipset restore`.
flush_set(k) == kset' = [kset EXCEPT ![k] = {}]
add_entry(k, ip) == kset' = [kset EXCEPT ![k] = @ \cup {ip}]
=============================================================================
