---------------------------- MODULE Subsequences ----------------------------
(***************************************************************************)
(* What the filters and sorts of the code compute, by position: a filter   *)
(* keeps the elements at some positions in the order they have, a sort     *)
(* puts the element with k others before it at place k + 1.                *)
(***************************************************************************)
EXTENDS Naturals, Sequences, FiniteSets

(* The members of the finite set S in the order R, a set of pairs: counted *)
(* by the members before each.                                             *)
Numbered(S, R) ==
    LET before == [x \in S |-> Cardinality({y \in S : <<y, x>> \in R})]
    IN  [k \in 1..Cardinality(S) |-> CHOOSE x \in S : before[x] = k - 1]

Earlier(S) == {p \in S \X S : p[1] < p[2]}
KeepAt(s, I) == LET at == Numbered(I, Earlier(I)) IN [k \in DOMAIN at |-> s[at[k]]]

(* The positions at which s has an element it had at none before.          *)
FirstPlaces(s) == {i \in DOMAIN s : \A j \in 1..i - 1 : s[j] # s[i]}

(* A stable sort: "before" holds the pairs of positions whose elements the *)
(* comparison puts in that order; the others stay as they are.             *)
Stable(I, before) == {p \in I \X I :
    p \in before \/ (p[1] < p[2] /\ <<p[2], p[1]>> \notin before)}
SortedBy(s, before) ==
    LET at == Numbered(DOMAIN s, Stable(DOMAIN s, before)) IN [k \in DOMAIN at |-> s[at[k]]]
=============================================================================
