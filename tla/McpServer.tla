------------------------------ MODULE McpServer ------------------------------
(***************************************************************************)
(* The MCP server: the sessions of its HTTP transport (built by            *)
(* httpHandler, which Start does not serve yet) under concurrent requests, *)
(* and the deep_research tool, which spends the shared daily cap, runs the *)
(* deep pipeline, notifies its stages and writes one audit line. The cap   *)
(* check is one atomic step here: CostGuard models its inside. The search  *)
(* tool is in SearchPipeline.                                              *)
(***************************************************************************)
EXTENDS Integers, Sequences, FiniteSets, SequencesExt

CONSTANTS Clients,        \* concurrent HTTP requests
          Users,          \* identities the trusted headers may carry
          MaxSessions,    \* bound: session ids issued
          DeepCalls,      \* concurrent deep_research calls
          CallCap         \* the calls the cap leaves today

ASSUME McpAssumption == MaxSessions \in Nat /\ CallCap \in Nat

VARIABLES
    sessions,   \* httpTransport.sessions: id -> the user it was opened for
    sessionID,  \* the counter
    http,       \* Clients -> [at, user, id]: a request in the transport
    deleted,    \* history: ids a DELETE named while they existed
    deep,       \* DeepCalls -> [at, notes, lines, outcome]
    spent,      \* deep_research calls the cap has let through
    serving     \* "tools" until a signal, then "grace", "stopped"

mcpVars == <<sessions, sessionID, http, deleted, deep, spent, serving>>
httpVars == <<sessions, sessionID, http, deleted>>
deepVars == <<deep, spent>>

NoHTTP == [at |-> "none", user |-> "", id |-> 0]
NoDeep == [at |-> "none", notes |-> <<>>, lines |-> <<>>, outcome |-> "none"]

McpInit ==
    /\ sessions = <<>> /\ sessionID = 0 /\ deleted = {}
    /\ http = [c \in Clients |-> NoHTTP]
    /\ deep = [d \in DeepCalls |-> NoDeep] /\ spent = 0
    /\ serving = "tools"

-----------------------------------------------------------------------------
Step(c, at) == http' = [http EXCEPT ![c].at = at]

(* Protocol version and origin are checked first, then the method; a       *)
(* request names a session that exists, one that does not, or none (0).    *)
HandleHTTP(c) ==
    /\ http[c].at = "none"
    /\ \E method \in {"refused", "post", "get", "delete"}, user \in Users, id \in 0..MaxSessions :
          http' = [http EXCEPT ![c] = [at |-> method, user |-> user, id |-> id]]
    /\ UNCHANGED <<sessions, sessionID, deleted, deepVars, serving>>

(* handlePost looks the session up under the lock, takes a number, then    *)
(* enters the new session under the lock again. A session there was is     *)
(* used as it is, whoever asks.                                            *)
LookUpSession(c) ==
    /\ http[c].at = "post"
    /\ Step(c, IF http[c].id \in DOMAIN sessions THEN "process" ELSE "number")
    /\ UNCHANGED <<sessions, sessionID, deleted, deepVars, serving>>

NextSessionID_FromSize == Cardinality(DOMAIN sessions) + 1
NextSessionID == sessionID + 1
NumberSession(c) ==
    /\ http[c].at = "number" /\ sessionID < MaxSessions
    /\ sessionID' = sessionID + 1
    /\ http' = [http EXCEPT ![c].at = "enter", ![c].id = NextSessionID]
    /\ UNCHANGED <<sessions, deleted, deepVars, serving>>

EnterSession(c) == LET r == http[c] IN
    /\ r.at = "enter"
    /\ sessions' = [i \in DOMAIN sessions \cup {r.id} |-> IF i = r.id THEN r.user ELSE sessions[i]]
    /\ Step(c, "process")
    /\ UNCHANGED <<sessionID, deleted, deepVars, serving>>

(* initialize and tools/list answer, everything else is an unknown method: *)
(* no tool is called over HTTP. The answer names the session.              *)
ProcessRequest(c) ==
    /\ http[c].at = "process"
    /\ http' = [http EXCEPT ![c].at = "answered"]
    /\ UNCHANGED <<sessions, sessionID, deleted, deepVars, serving>>

(* A stream stays open until its client leaves, its session deleted or not.*)
HandleGet(c) ==
    /\ http[c].at = "get"
    /\ Step(c, CASE http[c].id = 0 -> "refused"
                 [] http[c].id \in DOMAIN sessions -> "streaming"
                 [] OTHER -> "unknown")
    /\ UNCHANGED <<sessions, sessionID, deleted, deepVars, serving>>

HandleDelete(c) == LET id == http[c].id IN
    /\ http[c].at = "delete"
    /\ sessions' = [i \in DOMAIN sessions \ {id} |-> sessions[i]]
    /\ deleted' = deleted \cup ({id} \cap DOMAIN sessions)
    /\ Step(c, "deleted")
    /\ UNCHANGED <<sessionID, deepVars, serving>>

ClientLeaves(c) ==
    /\ http[c].at \in {"answered", "streaming", "refused", "unknown", "deleted"}
    /\ http' = [http EXCEPT ![c] = NoHTTP]
    /\ UNCHANGED <<sessions, sessionID, deleted, deepVars, serving>>

SessionNext == \E c \in Clients :
    \/ HandleHTTP(c) \/ LookUpSession(c) \/ NumberSession(c) \/ EnterSession(c)
    \/ ProcessRequest(c) \/ HandleGet(c) \/ HandleDelete(c) \/ ClientLeaves(c)

-----------------------------------------------------------------------------
Notify(d, stage) == [d EXCEPT !.notes = Append(@, stage)]
Audit(d, outcome) == [d EXCEPT !.lines = Append(@, outcome)]
Finish(d, outcome) == [d EXCEPT !.at = "done", !.outcome = outcome]

(* An empty query is audited and refused before the cap is looked at.      *)
CallDeep(k) ==
    /\ deep[k].at = "none" /\ serving = "tools"
    /\ \/ deep' = [deep EXCEPT ![k] = Finish(Audit(NoDeep, "error_invalid"), "invalid")]
       \/ deep' = [deep EXCEPT ![k] = [Notify(NoDeep, "validation_complete") EXCEPT !.at = "cap"]]
    /\ UNCHANGED <<httpVars, spent, serving>>

(* Everybody shares one cap: the handler asks for the tenant "default". A  *)
(* cap store that fails ends the call with no audit line, whether it was   *)
(* never reached or charged the call and its reply was lost.               *)
CapChecked(k) == LET d == deep[k] IN
    /\ d.at = "cap"
    /\ \/ /\ spent < CallCap
          /\ spent' = spent + 1
          /\ deep' = [deep EXCEPT ![k] =
                [Notify(Notify(d, "cap_check_passed"), "pipeline_started") EXCEPT !.at = "pipeline"]]
       \/ /\ spent >= CallCap
          /\ deep' = [deep EXCEPT ![k] = Finish(Audit(d, "capped"), "cap_exceeded")]
          /\ UNCHANGED spent
       \/ /\ deep' = [deep EXCEPT ![k] = Finish(d, "internal")]
          /\ \/ UNCHANGED spent
             \/ spent < CallCap /\ spent' = spent + 1
    /\ UNCHANGED <<httpVars, serving>>

(* What the cap has counted stays counted when the pipeline fails.         *)
PipelineReturns(k) == LET d == deep[k] IN
    /\ d.at = "pipeline"
    /\ \/ deep' = [deep EXCEPT ![k] = Finish(Audit(d, "error_pipeline_failed"), "internal")]
       \/ \E line \in {"success", "empty_corpus"} : deep' = [deep EXCEPT ![k] =
             Finish(Audit(Notify(Notify(d, "pipeline_complete"), "synthesis_complete"), line), "ok")]
    /\ UNCHANGED <<httpVars, spent, serving>>

(* The transport ends by a signal or by the end of its input. After a      *)
(* signal the context has ended and the wait is over at once; otherwise it *)
(* lasts the whole grace period: nothing in flight is counted.             *)
TransportEnds ==
    /\ serving = "tools"
    /\ serving' \in {"grace", "stopped"}
    /\ UNCHANGED <<httpVars, deepVars>>
GracePeriodEnds ==
    /\ serving = "grace" /\ serving' = "stopped"
    /\ UNCHANGED <<httpVars, deepVars>>

DeepNext ==
    \/ \E k \in DeepCalls : CallDeep(k) \/ CapChecked(k) \/ PipelineReturns(k)
    \/ TransportEnds \/ GracePeriodEnds

McpSpec == McpInit /\ [][SessionNext \/ DeepNext]_mcpVars

-----------------------------------------------------------------------------
(* Sessions are numbered from one and calls are at a stage of their own.   *)
McpTypeOK ==
    /\ DOMAIN sessions \subseteq 1..MaxSessions /\ sessionID \in 0..MaxSessions
    /\ spent \in 0..CallCap
    /\ \A k \in DeepCalls : deep[k].at \in {"none", "cap", "pipeline", "done"}

(* A session number means one session: two requests that open a session at *)
(* the same time get two, none is overwritten by another user's, and one   *)
(* that was deleted never comes back.                                      *)
SessionsDistinct == [][
    /\ \A id \in DOMAIN sessions \cap DOMAIN sessions' : sessions'[id] = sessions[id]
    /\ DOMAIN sessions' \cap deleted = {} ]_mcpVars

(* The day's cap bounds the pipelines that ran, whatever happened to them: *)
(* each was charged, and a call that did not run was charged only if the   *)
(* cap store failed it. Every other call that ended left one audit line;   *)
(* a call the cap store failed leaves none, charged or not.                *)
Ran(k) == "pipeline_started" \in ToSet(deep[k].notes)
CapFailed(k) == deep[k].at = "done" /\ deep[k].outcome = "internal" /\ ~Ran(k)
DeepAccounted ==
    LET ran == {k \in DeepCalls : Ran(k)}
        failed == {k \in DeepCalls : CapFailed(k)}
    IN  /\ spent \in Cardinality(ran)..Cardinality(ran \cup failed)
        /\ \A k \in DeepCalls :
              /\ deep[k].at = "done" => Len(deep[k].lines) = IF CapFailed(k) THEN 0 ELSE 1
              /\ deep[k].outcome = "ok" => Ran(k)
=============================================================================
