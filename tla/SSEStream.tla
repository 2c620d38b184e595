----------------------------- MODULE SSEStream ------------------------------
(***************************************************************************)
(* One answer streamed as server-sent events (SynthesisHandler.ServeHTTP   *)
(* in cmd/usearch-api/handlers/synthesis.go, StreamSynthesize, and the     *)
(* Writer and RunHeartbeat of internal/sse): the goroutine of the request  *)
(* writes an event per sentence while the heartbeat goroutine writes       *)
(* comments on the same connection. Each Writer has a mutex of its own:    *)
(* the handler and the heartbeat share one, StreamSynthesize makes another *)
(* (streamsynth.go:95), which nobody else ever locks.                      *)
(***************************************************************************)
EXTENDS Integers, Sequences

CONSTANTS MaxSentences,   \* bound: cited sentences of the answer
          MaxPings        \* bound: heartbeats while the stream is open

VARIABLES wire,       \* what has been written, one element per Fprintf
          pc,         \* request: synthesizing, streaming, done, error, returned
          total,      \* cited sentences of the answer
          sent,       \* sentence events started
          lines,      \* what is left to write of the current event
          mu,         \* who holds the mutex of the handler's Writer
          heartbeat,  \* waiting, pinging or exited
          pings,
          ctxDone     \* the request's context has ended

vars == <<wire, pc, total, sent, lines, mu, heartbeat, pings, ctxDone>>

Event == <<"event", "data", "end">>
Ping == "ping"

Init ==
    /\ wire = <<>> /\ lines = <<>>
    /\ pc = "synthesizing" /\ total = 0 /\ sent = 0
    /\ mu = "free" /\ heartbeat = "waiting" /\ pings = 0
    /\ ctxDone = FALSE

Synthesized ==
    /\ pc = "synthesizing"
    /\ \E n \in 0..MaxSentences : total' = n
    /\ pc' = "streaming"
    /\ UNCHANGED <<wire, sent, lines, mu, heartbeat, pings, ctxDone>>

(* The error event goes through the handler's own Writer.                  *)
SynthesisFails ==
    /\ pc = "synthesizing" /\ mu = "free"
    /\ mu' = "request"
    /\ lines' = Event
    /\ pc' = "error"
    /\ UNCHANGED <<wire, total, sent, heartbeat, pings, ctxDone>>

NextSentence ==
    /\ pc = "streaming" /\ lines = <<>> /\ sent < total /\ ~ctxDone
    /\ lines' = Event
    /\ sent' = sent + 1
    /\ UNCHANGED <<wire, pc, total, mu, heartbeat, pings, ctxDone>>

LastSentence ==
    /\ pc = "streaming" /\ lines = <<>> /\ sent = total
    /\ lines' = Event
    /\ pc' = "done"
    /\ UNCHANGED <<wire, total, sent, mu, heartbeat, pings, ctxDone>>

(* The event is locked by its writer from its first line to its last.      *)
WriteLine ==
    /\ lines # <<>>
    /\ wire' = Append(wire, Head(lines))
    /\ lines' = Tail(lines)
    /\ mu' = IF mu = "request" /\ Tail(lines) = <<>> THEN "free" ELSE mu
    /\ UNCHANGED <<pc, total, sent, heartbeat, pings, ctxDone>>

(* The handler returns: the stream is complete, its context ended between  *)
(* two sentences, or the connection is gone and a write failed. net/http   *)
(* ends the request's context when it does.                                *)
Return ==
    /\ \/ pc \in {"done", "error"} /\ lines = <<>>
       \/ pc = "streaming" /\ lines = <<>> /\ sent < total /\ ctxDone
       \/ lines # <<>> /\ ctxDone
    /\ pc' = "returned" /\ lines' = <<>> /\ ctxDone' = TRUE
    /\ mu' = IF mu = "request" THEN "free" ELSE mu
    /\ UNCHANGED <<wire, total, sent, heartbeat, pings>>

Disconnect ==
    /\ ~ctxDone
    /\ ctxDone' = TRUE
    /\ UNCHANGED <<wire, pc, total, sent, lines, mu, heartbeat, pings>>

(* The heartbeat: WriteComment locks, writes its line at once, unlocks;    *)
(* once the handler has returned nobody reads what it writes.              *)
StartPing ==
    /\ heartbeat = "waiting" /\ pings < MaxPings /\ mu = "free"
    /\ mu' = "heartbeat" /\ heartbeat' = "pinging" /\ pings' = pings + 1
    /\ UNCHANGED <<wire, pc, total, sent, lines, ctxDone>>

WritePing ==
    /\ heartbeat = "pinging"
    /\ wire' = IF pc = "returned" THEN wire ELSE Append(wire, Ping)
    /\ mu' = "free" /\ heartbeat' = "waiting"
    /\ UNCHANGED <<pc, total, sent, lines, pings, ctxDone>>

StopHeartbeat ==
    /\ heartbeat = "waiting" /\ ctxDone
    /\ heartbeat' = "exited"
    /\ UNCHANGED <<wire, pc, total, sent, lines, mu, pings, ctxDone>>

Ended == pc = "returned" /\ heartbeat = "exited" /\ UNCHANGED vars

Next == \/ Synthesized \/ SynthesisFails \/ NextSentence \/ LastSentence
        \/ WriteLine \/ Return \/ Disconnect
        \/ StartPing \/ WritePing \/ StopHeartbeat \/ Ended

Spec == Init /\ [][Next]_vars

-----------------------------------------------------------------------------
(* REQ-SYN4-003: "heartbeat goroutine and main writer share writer mutex,  *)
(* no torn writes": a comment, whose blank line ends whatever event it     *)
(* falls into, is written between two events only.                         *)
NoTornEvent ==
    \A i \in DOMAIN wire : wire[i] = Ping => i = 1 \/ wire[i - 1] \in {"end", Ping}
=============================================================================
