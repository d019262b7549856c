---------------------------- MODULE PolicyState ----------------------------
(***************************************************************************)
(* The daemon's in-memory policy table: the static STATE of src/state.rs,  *)
(* a map from the name of a network to the patterns it allows and to the   *)
(* addresses resolved for it so far.  Every operation below runs under the *)
(* table's write lock and is therefore one step.                           *)
(***************************************************************************)
EXTENDS Network

VARIABLE state  \* STATE: a function on the names the daemon manages

ManagedIpset == [allowed_domain_patterns : SUBSET Patterns, ips : SUBSET Ips]

StateType ==
    /\ DOMAIN state \subseteq Names
    /\ state \in [DOMAIN state -> ManagedIpset]

\* The table of a daemon that has just started.
StateInit == state = [n \in {} |-> {}]

\* Variant with a fault: any domain will do.
MatchingSets_AnyDomain(domains) == {n \in DOMAIN state : domains # {}}

\* The networks that allow at least one of the domains.
MatchingSets(domains) ==
    {n \in DOMAIN state :
        \E d \in domains : accepts(state[n].allowed_domain_patterns, d)}

\* Variant with a fault: the flag of one network's match is never reset.
ChangedSets_StickyMatch(domains, resolved) ==
    {[name |-> n, ips |-> state[n].ips \cup resolved] :
        n \in {m \in DOMAIN state : MatchingSets(domains) # {}}}

\* Variant with a fault: only the new addresses, which the flush makes wrong.
ChangedSets_OnlyNew(domains, resolved) ==
    {[name |-> n, ips |-> resolved \ state[n].ips] :
        n \in {m \in MatchingSets(domains) : ~(resolved \subseteq state[m].ips)}}

\* Variant with a fault: the test for growth is inverted.
ChangedSets_Unchanged(domains, resolved) ==
    {[name |-> n, ips |-> state[n].ips] :
        n \in {m \in MatchingSets(domains) : resolved \subseteq state[m].ips}}

(***************************************************************************)
(* What apply_resolved_ips returns: for every matching network whose set   *)
(* of addresses grows, the WHOLE new set, since update_ipset flushes.      *)
(***************************************************************************)
ChangedSets(domains, resolved) ==
    {[name |-> n, ips |-> state[n].ips \cup resolved] :
        n \in {m \in MatchingSets(domains) : ~(resolved \subseteq state[m].ips)}}

\* Its early return on no domain or no address is the case of no change.
apply_resolved_ips(domains, resolved) ==
    state' = [n \in DOMAIN state |->
                IF n \in MatchingSets(domains)
                THEN [state[n] EXCEPT !.ips = @ \cup resolved]
                ELSE state[n]]

\* The CREATE command replaces the entry: the addresses start again empty.
insert_managed(name, patterns) ==
    state' = [n \in DOMAIN state \cup {name} |->
                IF n = name
                THEN [allowed_domain_patterns |-> patterns, ips |-> {}]
                ELSE state[n]]

\* The REMOVE command forgets the entry; an unknown name is no error.
remove_managed(name) ==
    state' = [n \in DOMAIN state \ {name} |-> state[n]]
=============================================================================
