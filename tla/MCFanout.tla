------------------------------ MODULE MCFanout ------------------------------
(* Instances of Fanout for TLC.                                            *)
EXTENDS Fanout

CONSTANTS a1, a2, a3, ghost

MCAdapterSet == <<a1, ghost, a2, a3>>

Doc(k, s, r, t) == [key |-> k, score |-> s, src |-> r, at |-> t]

(* Each reply overlaps with the others in a key; ties in the score are     *)
(* broken by the source and the time of retrieval.                         *)
MCReplies == { <<Doc("u1", 1, 1, 0), Doc("u2", 2, 2, 0)>>,
               <<Doc("u1", 2, 1, 1)>> }

MCDeadlines == {NoDeadline, 1, 3}
=============================================================================
