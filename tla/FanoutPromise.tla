--------------------------- MODULE FanoutPromise ----------------------------
(***************************************************************************)
(* What a caller of Fanout.Dispatch is promised, with the pool, the        *)
(* contexts and the clock left out: the fate of every adapter is settled   *)
(* exactly once, in any order, and the call returns once, after the last   *)
(* of them, naming exactly the adapters that answered and those that       *)
(* failed.                                                                 *)
(***************************************************************************)
CONSTANT Index      \* positions of the adapter set

VARIABLES fate,     \* what became of the adapter at each position
          reply     \* NoReply, then [ok |-> positions, failed |-> positions]

pvars == <<fate, reply>>

NoReply == [ok |-> {}, failed |-> {}]

Init == /\ fate = [i \in Index |-> "pending"]
        /\ reply = NoReply

Settle(i) ==
    /\ fate[i] = "pending"
    /\ fate' \in {[fate EXCEPT ![i] = "answered"], [fate EXCEPT ![i] = "failed"]}
    /\ UNCHANGED reply

Return ==
    /\ reply = NoReply
    /\ \A i \in Index : fate[i] # "pending"
    /\ reply' = [ok     |-> {i \in Index : fate[i] = "answered"},
                 failed |-> {i \in Index : fate[i] = "failed"}]
    /\ UNCHANGED fate

Next == Return \/ \E i \in Index : Settle(i)

Spec == Init /\ [][Next]_pvars

FairSpec == Spec /\ WF_pvars(Next)
=============================================================================
