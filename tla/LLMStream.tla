----------------------------- MODULE LLMStream ------------------------------
(***************************************************************************)
(* One streamed completion (internal/llm/stream.go runStream and the part  *)
(* of client.go Stream that starts it): a producer goroutine reads chunks  *)
(* from the provider and sends them on a bounded channel; the caller reads *)
(* them, stops reading, or cancels its context.                            *)
(***************************************************************************)
EXTENDS Integers, Sequences, SequencesExt

CONSTANTS Cap,        \* streamChannelCap
          MaxChunks   \* bound: chunks the provider sends

ASSUME StreamAssumption == Cap \in Nat \ {0} /\ MaxChunks \in Nat

(* A delta is the number of its chunk, or one of two errors.               *)
Failure == 0     \* the provider's error
Stalled == -1    \* ErrStreamBackpressureTimeout

VARIABLES pc,         \* producer: next, send, stalled, fail, closed
          read,       \* chunks the producer has read
          ch,         \* the channel's buffer
          received,   \* what the caller has received
          cancelled,  \* the caller's context has ended
          stalledOnce \* history: a send waited for the whole timeout

streamVars == <<pc, read, ch, received, cancelled, stalledOnce>>

Delivered == received \o ch

StreamInit ==
    /\ pc = "next" /\ read = 0 /\ ch = <<>> /\ received = <<>>
    /\ cancelled = FALSE /\ stalledOnce = FALSE

Room == Len(ch) < Cap
Close == pc' = "closed"

(* stream.Next yields a chunk (those without choices are skipped) ...      *)
NextChunk ==
    /\ pc = "next" /\ read < MaxChunks
    /\ read' = read + 1
    /\ pc' = "send"
    /\ UNCHANGED <<ch, received, cancelled, stalledOnce>>

(* ... or ends; an error, the cancellation included, is still to be sent.  *)
EndOfStream ==
    /\ pc = "next"
    /\ Close
    /\ UNCHANGED <<read, ch, received, cancelled, stalledOnce>>

StreamError ==
    /\ pc = "next"
    /\ pc' = "fail"
    /\ UNCHANGED <<read, ch, received, cancelled, stalledOnce>>

Send_DropsWhenFull ==
    /\ pc = "send"
    /\ ch' = IF Room THEN Append(ch, read) ELSE ch
    /\ pc' = "next"
    /\ UNCHANGED <<read, received, cancelled, stalledOnce>>
Send ==
    /\ pc = "send" /\ Room
    /\ ch' = Append(ch, read)
    /\ pc' = "next"
    /\ UNCHANGED <<read, received, cancelled, stalledOnce>>

(* The context ends while the send waits, or wins the select.              *)
SendCancelled ==
    /\ pc = "send" /\ cancelled
    /\ Close
    /\ UNCHANGED <<read, ch, received, cancelled, stalledOnce>>

(* The timeout wakes a send that has waited on a full channel.             *)
Timeout ==
    /\ pc = "send" /\ ~Room
    /\ pc' = "stalled"
    /\ stalledOnce' = TRUE
    /\ UNCHANGED <<read, ch, received, cancelled>>

(* The error is offered without waiting, then the stream is given up.      *)
ReportStall ==
    /\ pc = "stalled"
    /\ ch' = IF Room THEN Append(ch, Stalled) ELSE ch
    /\ Close
    /\ UNCHANGED <<read, received, cancelled, stalledOnce>>

(* The provider's error is sent without a timeout.                         *)
SendError ==
    /\ pc = "fail" /\ Room
    /\ ch' = Append(ch, Failure)
    /\ Close
    /\ UNCHANGED <<read, received, cancelled, stalledOnce>>

SendErrorCancelled ==
    /\ pc = "fail" /\ cancelled
    /\ Close
    /\ UNCHANGED <<read, ch, received, cancelled, stalledOnce>>

(* The caller: reads at its own pace, or ends its context.                 *)
Receive ==
    /\ ch # <<>>
    /\ received' = Append(received, Head(ch))
    /\ ch' = Tail(ch)
    /\ UNCHANGED <<pc, read, cancelled, stalledOnce>>

Cancel ==
    /\ ~cancelled
    /\ cancelled' = TRUE
    /\ UNCHANGED <<pc, read, ch, received, stalledOnce>>

Finished == pc = "closed" /\ ch = <<>> /\ cancelled /\ UNCHANGED streamVars

Producer == NextChunk \/ EndOfStream \/ StreamError \/ Send \/ SendCancelled
            \/ Timeout \/ ReportStall \/ SendError \/ SendErrorCancelled
StreamNext == Producer \/ Receive \/ Cancel \/ Finished

StreamSpec == StreamInit /\ [][StreamNext]_streamVars

(* The goroutine runs, the provider answers or its connection times out    *)
(* (http.Client.Timeout), and time passes. The caller owes nothing.        *)
StreamFairSpec == StreamSpec /\ WF_streamVars(Producer)

-----------------------------------------------------------------------------
StreamTypeOK ==
    /\ pc \in {"next", "send", "stalled", "fail", "closed"}
    /\ read \in 0..MaxChunks
    /\ Len(ch) <= Cap
    /\ cancelled \in BOOLEAN /\ stalledOnce \in BOOLEAN

(* REQ-LLM-008: what the caller gets is the provider's chunks in order,    *)
(* without a gap, and nothing follows an error delta, whichever of the     *)
(* send, the timeout and the cancellation wins each select.                *)
NoGap ==
    /\ \A i \in DOMAIN Delivered :
          Delivered[i] \in {Failure, Stalled} => i = Len(Delivered) /\ pc = "closed"
    /\ \A i \in DOMAIN Delivered :
          Delivered[i] \notin {Failure, Stalled} => Delivered[i] = i

(* A chunk that was read is lost only if the caller cancelled or stalled.  *)
NothingLost ==
    pc \in {"next", "fail", "closed"} /\ ~cancelled /\ ~stalledOnce =>
       1..read \subseteq ToSet(Delivered)

(* Once the caller's context ends the goroutine closes the channel.        *)
CancelCloses == cancelled ~> pc = "closed"

(* REQ-LLM-008: what runStream delivers is the provider's chunks in order, *)
(* without a gap, with nothing after an error delta; and a chunk it read   *)
(* is lost only to a cancellation or a stall.                              *)
StreamDelivers == StreamTypeOK /\ NoGap /\ NothingLost
=============================================================================
