------------------------------ MODULE DocMerge ------------------------------
(***************************************************************************)
(* The pure tail of a fanout dispatch (internal/fanout/dedup.go, sort.go): *)
(* the documents of the successful adapters, concatenated in the order of  *)
(* the adapter set, lose their duplicates and are then sorted.             *)
(*                                                                         *)
(* A document is a record with at least the fields                         *)
(*   key    the dedup key ("url:" + canonical URL, or "hash:" + hash)      *)
(*   score  relevance, an integer standing for the float                   *)
(*   src    the rank of SourceID in lexicographic order                    *)
(*   at     RetrievedAt                                                    *)
(***************************************************************************)
EXTENDS Integers, Sequences, SequencesExt

(* dedupDocs: one pass with the set of keys already seen.                  *)
DedupStep_LastWins(acc, d) ==
    IF d.key \in acc.seen
    THEN [acc EXCEPT !.dropped = @ + 1,
                     !.out = Append(SelectSeq(@, LAMBDA e : e.key # d.key), d)]
    ELSE [acc EXCEPT !.seen = @ \cup {d.key}, !.out = Append(@, d)]

DedupStep(acc, d) ==
    IF d.key \in acc.seen
    THEN [acc EXCEPT !.dropped = @ + 1]
    ELSE [seen |-> acc.seen \cup {d.key}, out |-> Append(acc.out, d), dropped |-> acc.dropped]

DedupDocs(ds) ==
    FoldLeft(DedupStep, [seen |-> {}, out |-> <<>>, dropped |-> 0], ds)

(* The three-key comparison handed to sort.SliceStable.                    *)
DocLess(a, b) ==
    \/ a.score > b.score
    \/ a.score = b.score /\ a.src < b.src
    \/ a.score = b.score /\ a.src = b.src /\ a.at > b.at

(* sortDocs: a stable sort. Documents are placed one after the other, each *)
(* behind those that do not come after it.                                 *)
PlaceDoc(sorted, d) ==
    LET k == Cardinality({i \in DOMAIN sorted : ~DocLess(d, sorted[i])})
    IN  SubSeq(sorted, 1, k) \o <<d>> \o SubSeq(sorted, k + 1, Len(sorted))
SortDocs(ds) == FoldLeft(PlaceDoc, <<>>, ds)

-----------------------------------------------------------------------------
(* Reference definitions.                                                  *)

(* Positions whose key does not occur earlier.                             *)
FirstOccurrences(ds) ==
    {i \in DOMAIN ds : \A j \in 1..(i - 1) : ds[j].key # ds[i].key}

(* t holds the documents of s at the positions I, each once, in an order   *)
(* that respects DocLess and, between equals, the order of s.              *)
IsStableArrangement(t, s, I) ==
    \E f \in Bijection(DOMAIN t, I) :
        /\ \A p \in DOMAIN t : t[p] = s[f[p]]
        /\ \A p, q \in DOMAIN t : p < q =>
              /\ ~DocLess(t[q], t[p])
              /\ ~DocLess(t[p], t[q]) => f[p] < f[q]
=============================================================================
