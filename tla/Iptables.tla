------------------------------ MODULE Iptables ------------------------------
(***************************************************************************)
(* A chain of netfilter rules as src/helper.rs drives it through the       *)
(* iptables command: a sequence in which the first rule that matches a     *)
(* packet decides.  The command and the kernel are external.               *)
(***************************************************************************)
EXTENDS Naturals, SequencesExt

\* iptables -D: removes the first copy, and fails when there is none.
has_rule(chain, rule) == \E i \in DOMAIN chain : chain[i] = rule
delete_rule(chain, rule) == RemoveFirst(chain, rule)

\* iptables -I: positions count from 1; one past the end is the last allowed.
can_insert(chain, pos) == pos <= Len(chain) + 1
insert_rule(chain, pos, rule) == InsertAt(chain, pos, rule)

\* The position of the rule that decides, or 0 when none matches.
FirstMatch(chain, matches(_)) == SelectInSeq(chain, matches)
=============================================================================
