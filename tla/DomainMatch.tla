---------------------------- MODULE DomainMatch ----------------------------
(***************************************************************************)
(* Which domains a pattern accepts (src/state.rs), on strings as sequences *)
(* of characters, and what is meant by it: a comparison of labels.  The    *)
(* other modules use the relation this one computes as the constant        *)
(* Matches.                                                                *)
(***************************************************************************)
EXTENDS Naturals, SequencesExt

\* A letter in both cases, and the two characters with a meaning.
Chars == {"a", "A", ".", "*"}

to_ascii_lowercase(s) == [i \in 1..Len(s) |-> IF s[i] = "A" THEN "a" ELSE s[i]]

trim_end_dots(s) ==
    LET kept == {i \in 1..Len(s) : s[i] # "."} \cup {0}
    IN  SubSeq(s, 1, CHOOSE i \in kept : \A j \in kept : j <= i)

normalize_domain(s) == to_ascii_lowercase(trim_end_dots(s))

\* Variant with a fault: the suffix may start inside a label.
domain_matches_pattern_NoDot(d, p) ==
    LET domain  == normalize_domain(d)
        pattern == normalize_domain(p)
        suffix  == SubSeq(pattern, 3, Len(pattern))
    IN  IF IsPrefix(<<"*", ".">>, pattern)
        THEN IsSuffix(suffix, domain)
        ELSE domain = pattern

domain_matches_pattern(d, p) ==
    LET domain  == normalize_domain(d)
        pattern == normalize_domain(p)
        suffix  == SubSeq(pattern, 3, Len(pattern))
    IN  IF IsPrefix(<<"*", ".">>, pattern)
        THEN domain = suffix \/ IsSuffix(<<".">> \o suffix, domain)
        ELSE domain = pattern
-----------------------------------------------------------------------------
(* The reference: names as sequences of labels. *)

Split(s) ==
    FoldLeft(LAMBDA labels, ch :
                IF ch = "." THEN Append(labels, <<>>)
                ELSE [labels EXCEPT ![Len(labels)] = Append(@, ch)],
             <<<<>>>>, s)

\* The labels of a name, case folded, without the empty ones at its end.
Labels(s) ==
    LET all  == [i \in 1..Len(Split(s)) |-> to_ascii_lowercase(Split(s)[i])]
        last == {i \in 1..Len(all) : all[i] # <<>>} \cup {0}
    IN  SubSeq(all, 1, CHOOSE i \in last : \A j \in last : j <= i)

\* A wildcard in front stands for any number of labels, none included.
MatchesLabels(d, p) ==
    IF Len(Labels(p)) > 1 /\ Head(Labels(p)) = <<"*">>
    THEN IsSuffix(Tail(Labels(p)), Labels(d))
    ELSE Labels(d) = Labels(p)
=============================================================================
