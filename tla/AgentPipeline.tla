---------------------------- MODULE AgentPipeline ----------------------------
(***************************************************************************)
(* The deep pipeline of one request: Researcher, Reviewer, then Writer and *)
(* Verifier in turn until a draft passes. Which error leaves which part of *)
(* the result, what the LLM's unreadable answers turn into, and how often  *)
(* the expensive Writer runs. The fanout, the LLM and the faithfulness     *)
(* check are external; the context can end at any moment.                  *)
(***************************************************************************)
EXTENDS Integers, Sequences, FiniteSets, SequencesExt

CONSTANTS RetrySettings,  \* values of Config.MaxRetries; the environment may give any number
          Evidence        \* documents the fanout may find

ASSUME PipelineAssumption == RetrySettings \subseteq Int

VARIABLES
    maxRetries, \* Config.MaxRetries of this request
    checked,    \* whether a checkFn was given: RunPipeline passes none
    ctxEnded,
    stage,      \* the agent that runs next, "done" in the end
    research,   \* ResearcherOutput: [docs, claims]
    notes,      \* ReviewerCritique: "some" or "none"
    attempt, draft, hint,   \* of the loop: draft is the attempt that wrote it, with what it had
    agentLog,        \* AgentLog: [agent, outcome]
    result      \* [draft, empty, err]

agentVars == <<maxRetries, checked, ctxEnded, stage, research, notes, attempt, draft, hint, agentLog, result>>

NoDraft == [attempt |-> -1, hint |-> -1, verdict |-> "none", sections |-> FALSE]
NoResult == [draft |-> NoDraft, empty |-> FALSE, err |-> "none"]

AgentInit ==
    /\ maxRetries \in RetrySettings /\ checked \in BOOLEAN
    /\ ctxEnded = FALSE /\ stage = "researcher"
    /\ research = [docs |-> {}, claims |-> "none"] /\ notes = "none"
    /\ attempt = 0 /\ draft = NoDraft /\ hint = -1
    /\ agentLog = <<>> /\ result = NoResult

-----------------------------------------------------------------------------
Entry(agent, outcome) == [agent |-> agent, outcome |-> outcome]
Logged(agent, outcome) == agentLog' = Append(agentLog, Entry(agent, outcome))
Fails(err) == stage' = "done" /\ result' = [result EXCEPT !.err = err]
MaxAttempts == maxRetries + 1

ContextEnds ==
    /\ ~ctxEnded /\ stage # "done" /\ ctxEnded' = TRUE
    /\ UNCHANGED <<maxRetries, checked, stage, research, notes, attempt, draft, hint, agentLog, result>>

(* Between two agents the context is looked at; nothing is logged.         *)
Cancelled ==
    /\ ctxEnded /\ stage \in {"researcher", "reviewer", "writer", "verifier"}
    /\ stage = "writer" => attempt < MaxAttempts
    /\ Fails("cancelled")
    /\ UNCHANGED <<maxRetries, checked, ctxEnded, research, notes, attempt, draft, hint, agentLog>>

(* No documents: an empty result, not an error. An answer of the LLM that  *)
(* is not JSON becomes the one claim, with no sources.                     *)
Researcher ==
    /\ stage = "researcher" /\ ~ctxEnded
    /\ \/ /\ Logged("researcher", "error") /\ Fails("researcher")
          /\ UNCHANGED research
       \/ /\ Logged("researcher", "empty_corpus")
          /\ result' = [result EXCEPT !.empty = TRUE] /\ stage' = "done"
          /\ UNCHANGED research
       \/ /\ Logged("researcher", "success") /\ stage' = "reviewer"
          /\ \E docs \in SUBSET Evidence \ {{}}, claims \in {"cited", "whole answer"} :
                research' = [docs |-> docs, claims |-> claims]
          /\ UNCHANGED result
    /\ UNCHANGED <<maxRetries, checked, ctxEnded, notes, attempt, draft, hint>>

(* An unreadable critique is no critique.                                  *)
Reviewer ==
    /\ stage = "reviewer" /\ ~ctxEnded
    /\ \/ /\ Logged("reviewer", "error") /\ Fails("reviewer") /\ UNCHANGED notes
       \/ /\ Logged("reviewer", "success") /\ stage' = "writer"
          /\ notes' \in {"some", "none"} /\ UNCHANGED result
    /\ UNCHANGED <<maxRetries, checked, ctxEnded, research, attempt, draft, hint>>

(* The Writer sees the last rejection's feedback. A draft that cannot be   *)
(* read has no sections, and goes to the Verifier like any other. Without  *)
(* a check the first draft is the result.                                  *)
Writer ==
    /\ stage = "writer" /\ attempt < MaxAttempts /\ ~ctxEnded
    /\ \/ /\ Logged("writer", "error") /\ Fails("writer") /\ UNCHANGED draft
       \/ /\ Logged("writer", "success")
          /\ \E sections \in BOOLEAN : draft' =
                [attempt |-> attempt, hint |-> hint, verdict |-> "none", sections |-> sections]
          /\ IF checked THEN stage' = "verifier" /\ UNCHANGED result
             ELSE stage' = "done" /\ result' = [result EXCEPT !.draft = draft']
    /\ UNCHANGED <<maxRetries, checked, ctxEnded, research, notes, attempt, hint>>

(* Only a rejection is tried again, the last one ends the request.         *)
LastDraft_Late == attempt >= MaxAttempts
LastDraft == attempt + 1 >= MaxAttempts
Verifier ==
    /\ stage = "verifier" /\ ~ctxEnded
    /\ \/ /\ Logged("verifier", "error") /\ Fails("verifier")
          /\ UNCHANGED <<draft, attempt, hint>>
       \/ /\ draft' = [draft EXCEPT !.verdict = "pass"]
          /\ Logged("verifier", "success")
          /\ result' = [result EXCEPT !.draft = draft'] /\ stage' = "done"
          /\ UNCHANGED <<attempt, hint>>
       \/ /\ draft' = [draft EXCEPT !.verdict = "rejected"]
          /\ Logged("verifier", "error")
          /\ hint' = attempt /\ attempt' = attempt + 1
          /\ IF LastDraft THEN Fails("exhausted") ELSE stage' = "writer" /\ UNCHANGED result
    /\ UNCHANGED <<maxRetries, checked, ctxEnded, research, notes>>

(* A negative setting leaves no attempt: the loop is over before it began. *)
NoAttempt ==
    /\ stage = "writer" /\ attempt >= MaxAttempts
    /\ stage' = "done"
    /\ UNCHANGED <<maxRetries, checked, ctxEnded, research, notes, attempt, draft, hint, agentLog, result>>

AgentNext == ContextEnds \/ Cancelled \/ Researcher \/ Reviewer \/ Writer \/ Verifier \/ NoAttempt

AgentSpec == AgentInit /\ [][AgentNext]_agentVars

-----------------------------------------------------------------------------
(* The pipeline is at one agent, its result of one kind.                   *)
AgentTypeOK ==
    /\ stage \in {"researcher", "reviewer", "writer", "verifier", "done"}
    /\ research.docs \subseteq Evidence /\ attempt \in Nat
    /\ result.err \in {"none", "cancelled", "researcher", "reviewer", "writer", "verifier", "exhausted"}

(* A caller never gets a draft that was not accepted: with a check, the    *)
(* draft it gets is the last one written and that one passed; an error     *)
(* comes without a draft. The Writer, whose calls are the cost ceiling of  *)
(* a request, runs once more than MaxRetries at most, again only after a   *)
(* rejection, and each time with the feedback of the draft before. Each    *)
(* agent that answered is in the log, in the order they ran.               *)
Times(agent) == Cardinality({i \in DOMAIN agentLog : agentLog[i].agent = agent})
DraftAccepted ==
    /\ result.draft # NoDraft =>
          /\ result.err = "none" /\ ~result.empty
          /\ result.draft.attempt = Times("writer") - 1
          /\ checked => result.draft.verdict = "pass" /\ agentLog[Len(agentLog)] = Entry("verifier", "success")
    /\ stage = "done" /\ result.err = "none" /\ maxRetries >= 0 =>
          (result.draft # NoDraft) = ~result.empty
    /\ Times("writer") <= IF maxRetries < 0 THEN 0 ELSE maxRetries + 1
    /\ draft # NoDraft => draft.hint = draft.attempt - 1
    /\ \A i \in DOMAIN agentLog : agentLog[i].agent = "writer" /\ i > 3 =>
          agentLog[i - 1] = Entry("verifier", "error")
=============================================================================
