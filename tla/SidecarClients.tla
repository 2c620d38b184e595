--------------------------- MODULE SidecarClients ---------------------------
(***************************************************************************)
(* The HTTP clients of the Python sidecars: the synthesiser (researcher),  *)
(* the embedder, the long-form reporter (STORM), the Korean tokenizer and  *)
(* the faithfulness gate. Each makes a call in up to three attempts, with  *)
(* a pause between two of them, under the caller's context; they differ in *)
(* which failures they retry and which error they make of them. The        *)
(* sidecars and net/http are external: an attempt ends in an answer, a     *)
(* connection that fails, or the end of the context.                       *)
(***************************************************************************)
EXTENDS Integers, FiniteSets

CONSTANTS SidecarKinds,         \* the clients called
          SidecarRetries,    \* retries after the first attempt
          MaxSidecarCalls\* bound: calls made

ASSUME SidecarAssumption ==
    /\ SidecarKinds \subseteq {"synthesis", "embedder", "deepreport", "tokenizer", "faithfulness"}
    /\ SidecarRetries \in Nat /\ MaxSidecarCalls \in Nat

VARIABLES
    ended,      \* the caller's context: "no", "deadline" or "cancelled"
    sidecarCall,       \* [kind, at, attempt, event, result]
    calls,      \* calls made so far
    sent        \* history: how each attempt of the call ended, oldest first
sidecarVars == <<ended, sidecarCall, calls, sent>>

Resting == [kind |-> "none", at |-> "resting", attempt |-> 0, event |-> "none", result |-> "none"]
SidecarInit == ended = "no" /\ sidecarCall = Resting /\ calls = 0 /\ sent = {}

-----------------------------------------------------------------------------
(* Do failed ("refused", "aborted" by the context, "timeout" of the HTTP   *)
(* client alone), the body could not be decoded ("garbled") or was cut off *)
(* by the context ("cut"), or the sidecar answered.                        *)
HTTPStatuses == {"200", "400", "402", "422", "500", "oom", "503", "loading", "504"}
Events ==
    HTTPStatuses \cup {"garbled", "refused"}
      \cup (IF ended # "no" THEN {"aborted", "cut"} ELSE {})
      \cup (IF sidecarCall.kind \in {"deepreport", "tokenizer"} THEN {"timeout"} ELSE {})

(* What each doOnce makes of it; "context" is an error that wraps the      *)
(* context's own, "connection" one that only the retry loop looks at.      *)
SynthesisError(e) ==
    CASE e = "200" -> "ok"
      [] e \in {"400", "402", "422"} -> "invalid"
      [] e = "cut" -> "context"
      [] e = "garbled" -> "plain"
      [] OTHER -> "unreachable"
EmbedderError(e) ==
    CASE e = "200" -> "ok"
      [] e \in {"400", "402", "422"} -> "invalid"
      [] e = "loading" -> "loading"
      [] e = "oom" -> "oom"
      [] e = "refused" -> "connection"
      [] e = "aborted" -> "aborted"
      [] e = "cut" -> "context"
      [] OTHER -> "plain"
DeepReportError(e) ==
    CASE e = "200" -> "ok"
      [] e = "422" -> "invalid"
      [] e = "504" -> "deadline_exceeded"
      [] e = "402" -> "budget_exceeded"
      [] e = "cut" -> "context"
      [] e = "garbled" -> "plain"
      [] OTHER -> "unreachable"
TokenizerError(e) == CASE e = "200" -> "ok" [] e = "400" -> "invalid" [] OTHER -> "plain"
FaithfulnessError(e) == IF e = "200" THEN "ok" ELSE "plain"
ErrorOf(kind, e) ==
    CASE kind = "synthesis" -> SynthesisError(e)
      [] kind = "embedder" -> EmbedderError(e)
      [] kind = "deepreport" -> DeepReportError(e)
      [] kind = "tokenizer" -> TokenizerError(e)
      [] kind = "faithfulness" -> FaithfulnessError(e)

Retried(kind, error) ==
    CASE kind = "synthesis" -> error \in {"unreachable", "plain"} \/ (error = "context" /\ ended = "cancelled")
      [] kind = "embedder" -> error \in {"connection", "aborted"}
      [] kind = "deepreport" -> error \in {"unreachable", "plain"}
      [] kind = "tokenizer" -> error = "plain"
      [] kind = "faithfulness" -> FALSE

(* What the caller gets of the loop's last error, and of a context that    *)
(* ended between two attempts.                                             *)
EndOfContext(kind) ==
    IF kind \in {"deepreport", "tokenizer"} \/ ended = "deadline" THEN "timeout" ELSE "cancelled"
Result(kind, error) ==
    CASE error \in {"context", "aborted"} -> EndOfContext(kind)
      [] error = "connection" -> "plain"
      [] kind = "tokenizer" /\ error = "plain" -> "unreachable"
      [] OTHER -> error

LastAttempt(kind, attempt) == attempt > SidecarRetries

Return(result) == sidecarCall' = [sidecarCall EXCEPT !.at = "returned", !.result = result]

StartCall(kind) ==
    /\ sidecarCall.at \in {"resting", "returned"} /\ calls < MaxSidecarCalls /\ calls' = calls + 1
    /\ sidecarCall' = [Resting EXCEPT !.kind = kind, !.at = "attempt", !.attempt = 1]
    /\ ended' = "no" /\ sent' = {}

(* The two loops that ask the context before they try.                     *)
AsksFirst(kind) == kind \in {"synthesis", "deepreport"}
ContextFirst ==
    /\ sidecarCall.at = "attempt" /\ AsksFirst(sidecarCall.kind) /\ ended # "no"
    /\ Return(EndOfContext(sidecarCall.kind)) /\ UNCHANGED <<ended, calls, sent>>
DoOnce ==
    /\ sidecarCall.at = "attempt"
    /\ \E e \in Events : LET error == ErrorOf(sidecarCall.kind, e) IN
          /\ sent' = sent \cup {<<sidecarCall.attempt, e>>}
          /\ IF Retried(sidecarCall.kind, error) /\ ~LastAttempt(sidecarCall.kind, sidecarCall.attempt)
             THEN sidecarCall' = [sidecarCall EXCEPT !.at = "backoff", !.event = e]
             ELSE sidecarCall' = [sidecarCall EXCEPT !.at = "returned", !.event = e,
                                       !.result = Result(sidecarCall.kind, error)]
    /\ UNCHANGED <<ended, calls>>

(* The select of the pause: its timer, or the end of the context; either   *)
(* when both are there.                                                    *)
PauseOver ==
    /\ sidecarCall.at = "backoff"
    /\ sidecarCall' = [sidecarCall EXCEPT !.at = "attempt", !.attempt = @ + 1] /\ UNCHANGED <<ended, calls, sent>>
PauseCut ==
    /\ sidecarCall.at = "backoff" /\ ended # "no" /\ Return(EndOfContext(sidecarCall.kind))
    /\ UNCHANGED <<ended, calls, sent>>
CallContextEnds ==
    /\ sidecarCall.at \in {"attempt", "backoff"} /\ ended = "no" /\ ended' \in {"deadline", "cancelled"}
    /\ UNCHANGED <<sidecarCall, calls, sent>>

SidecarNext ==
    \/ \E kind \in SidecarKinds : StartCall(kind)
    \/ ContextFirst \/ DoOnce \/ PauseOver \/ PauseCut \/ CallContextEnds
SidecarSpec == SidecarInit /\ [][SidecarNext]_sidecarVars

-----------------------------------------------------------------------------
SidecarTypeOK ==
    /\ ended \in {"no", "deadline", "cancelled"} /\ calls \in 0..MaxSidecarCalls
    /\ sidecarCall.kind \in SidecarKinds \cup {"none"} /\ sidecarCall.at \in {"resting", "attempt", "backoff", "returned"}
    /\ sidecarCall.attempt \in 0..(SidecarRetries + 1)

(* A call's error tells what happened (Synthesize, Embed, GenerateReport,  *)
(* Tokenize): a timeout only when the context ended, a verdict of the      *)
(* sidecar only when it is what the last attempt brought and no attempt    *)
(* before had brought it, and giving up on a failure that the comments of  *)
(* the client promise to retry only after every attempt, unless the        *)
(* context ended. Those failures are the ones of the connection, a 503 to  *)
(* the reporter and every server error to the tokenizer. (doOnce's comment *)
(* has no other 5xx retried; the reporter's client retries them all.)      *)
Verdicts == {"ok", "invalid", "loading", "oom", "budget_exceeded", "deadline_exceeded"}
ServerErrors == {"500", "oom", "503", "loading", "504"}
PromisedRetry(kind) ==
    CASE kind \in {"synthesis", "embedder"} -> {"refused"}
      [] kind = "deepreport" -> {"refused", "timeout", "503", "loading"}
      [] kind = "tokenizer" -> {"refused", "timeout"} \cup ServerErrors
      [] OTHER -> {}
SidecarTruthful ==
    sidecarCall.at = "returned" =>
       /\ sidecarCall.result \in {"timeout", "cancelled"} => ended # "no"
       /\ sidecarCall.result \in Verdicts =>
             {p[1] : p \in {q \in sent : ErrorOf(sidecarCall.kind, q[2]) = sidecarCall.result}} = {sidecarCall.attempt}
       /\ (ended = "no" /\ sidecarCall.event \in PromisedRetry(sidecarCall.kind))
                => Cardinality(sent) = SidecarRetries + 1
=============================================================================
