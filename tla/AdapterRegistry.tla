--------------------------- MODULE AdapterRegistry ---------------------------
(***************************************************************************)
(* The adapter registry with what reads and changes it while searches run: *)
(* the loopback-only admin API (list, health, re-sync, toggle, audit) and  *)
(* the sources command, which probes every adapter in parallel. Adapters,  *)
(* the Prometheus counters and the environment are external.               *)
(***************************************************************************)
EXTENDS Integers, FiniteSets, FiniteSetsExt

CONSTANTS ProbedSources,        \* adapter names
          NeedsKey,       \* those that require an environment variable
          KeysSet,        \* those whose variable is set
          Admins,         \* concurrent admin requests
          MaxCalls        \* bound: the searches per adapter, the requests per admin

ASSUME RegistryAssumption ==
    /\ NeedsKey \subseteq ProbedSources /\ KeysSet \subseteq NeedsKey /\ MaxCalls \in Nat

VARIABLES
    registered, disabled,   \* Registry: the adapters' names, those toggled off
    calls,      \* usearch_adapter_calls_total: name -> [ok, failed]
    req,        \* admin -> the request being served: [kind, id, seen, code, view]
    asked,      \* admin -> requests made
    health,     \* external: what a probe of the adapter would meet
    probe,      \* the sources command: "none", "run" or "done"
    report,     \* name -> its status, "pending" while it is being probed
    report0     \* history: what was disabled when the command looked

registryVars == <<registered, disabled, calls, req, asked, health, probe, report, report0>>
adminVars == <<req, asked>>
probeVars == <<health, probe, report, report0>>

Handlers == {"adapters", "health", "resync", "toggle", "audit"}
Healths == {"healthy", "failing", "panics", "hangs"}
Kinds == {"none", "rejected"} \cup Handlers
None == "none"
NoRequest == [kind |-> None, id |-> None, seen |-> {}, code |-> 0, view |-> None]
ZeroCalls == [n \in ProbedSources |-> [ok |-> 0, failed |-> 0]]

RegistryInit ==
    /\ registered = {} /\ disabled = {}
    /\ calls = ZeroCalls
    /\ req = [a \in Admins |-> NoRequest] /\ asked = [a \in Admins |-> 0]
    /\ health \in [ProbedSources -> Healths]
    /\ probe = "none" /\ report = [n \in {} |-> None] /\ report0 = {}

-----------------------------------------------------------------------------
KeySet(n) == n \in NeedsKey => n \in KeysSet

(* A duplicate, or a name whose key is missing, is refused.                *)
Register(n, skipAuthCheck) ==
    /\ n \notin registered /\ (skipAuthCheck \/ KeySet(n))
    /\ registered' = registered \cup {n}
    /\ UNCHANGED <<disabled, calls, adminVars, probeVars>>

(* Get finds any registered adapter, a disabled one too; the wrapper       *)
(* counts the outcome of every search, everything but a success as failed. *)
RegistrySearch(n) ==
    /\ n \in registered /\ calls[n].ok + calls[n].failed < MaxCalls
    /\ \E o \in {"ok", "failed"} : calls' = [calls EXCEPT ![n][o] = @ + 1]
    /\ UNCHANGED <<registered, disabled, adminVars, probeVars>>

-----------------------------------------------------------------------------
(* The rates are compared as fractions: 0.95 and 0.85.                     *)
RateAtLeast(c, percent) == 100 * c.ok >= percent * (c.ok + c.failed)
ClassifyHealth(c) ==
    IF c.ok + c.failed = 0 \/ RateAtLeast(c, 95) THEN "healthy"
    ELSE IF RateAtLeast(c, 85) THEN "degraded" ELSE "unhealthy"

(* LoopbackOnly and the handlers' own checks come before the registry.     *)
RequestArrives(a) ==
    /\ req[a].kind = None /\ asked[a] < MaxCalls
    /\ asked' = [asked EXCEPT ![a] = @ + 1]
    /\ \E k \in Handlers, id \in ProbedSources \cup {""},
          loopback \in BOOLEAN, method \in BOOLEAN, wellFormed \in BOOLEAN :
          LET refusal == IF ~loopback THEN 403
                         ELSE IF ~method THEN 405
                         ELSE IF k \in {"resync", "toggle"} /\ id = "" THEN 400
                         ELSE IF k = "audit" /\ ~wellFormed THEN 400
                         ELSE IF k \in {"resync", "toggle"} /\ id \notin registered THEN 404
                         ELSE 0
          IN  req' = [req EXCEPT ![a] =
                        [kind |-> IF refusal = 0 THEN k ELSE "rejected", id |-> id, code |-> refusal, view |-> None,
                         seen |-> IF k \in {"adapters", "health"} THEN {n \in ProbedSources : ClassifyHealth(calls[n]) = "unhealthy"} ELSE {}]]
    /\ UNCHANGED <<registered, disabled, calls, probeVars>>

Reply(a, code, view) == req' = [req EXCEPT ![a].code = code, ![a].view = view]
StatusNow(n) == IF n \in disabled THEN "disabled" ELSE "connected"

(* The counters were gathered before the registry is read.                 *)
ListReplies(a) ==
    /\ req[a].kind = "adapters" /\ req[a].code = 0 /\ Reply(a, 200, None)
    /\ UNCHANGED <<registered, disabled, calls, asked, probeVars>>
HealthReplies(a) ==
    /\ req[a].kind = "health" /\ req[a].code = 0
    /\ Reply(a, IF req[a].seen \cap registered # {} THEN 503 ELSE 200, None)
    /\ UNCHANGED <<registered, disabled, calls, asked, probeVars>>
(* Re-sync probes outside the lock and reads the state afterwards. A probe *)
(* that panics ends the request without a reply; one that hangs, when the  *)
(* request's context does.                                                 *)
ResyncReplies(a) ==
    /\ req[a].kind = "resync" /\ req[a].code = 0
    /\ CASE health[req[a].id] = "healthy" -> Reply(a, 200, StatusNow(req[a].id))
         [] health[req[a].id] = "panics" -> Reply(a, -1, None)
         [] OTHER -> Reply(a, 502, None)
    /\ UNCHANGED <<registered, disabled, calls, asked, probeVars>>
(* Toggle flips under the lock, releases it, and reads again for its reply.*)
ToggleFlips(a) ==
    /\ req[a].kind = "toggle" /\ req[a].code = 0 /\ req[a].view = None
    /\ disabled' = IF req[a].id \in disabled THEN disabled \ {req[a].id} ELSE disabled \cup {req[a].id}
    /\ req' = [req EXCEPT ![a].view = "flipped"]
    /\ UNCHANGED <<registered, calls, asked, probeVars>>
ToggleReplies(a) ==
    /\ req[a].kind = "toggle" /\ req[a].view = "flipped"
    /\ Reply(a, 200, StatusNow(req[a].id))
    /\ UNCHANGED <<registered, disabled, calls, asked, probeVars>>
(* registerAdminRoutes builds the audit handler over a nil querier: the    *)
(* call panics, and the server drops the connection.                       *)
AuditReplies(a) ==
    /\ req[a].kind = "audit" /\ req[a].code = 0 /\ Reply(a, -1, None)
    /\ UNCHANGED <<registered, disabled, calls, asked, probeVars>>
RequestEnds(a) ==
    /\ req[a].code # 0 /\ req' = [req EXCEPT ![a] = NoRequest]
    /\ UNCHANGED <<registered, disabled, calls, asked, probeVars>>

-----------------------------------------------------------------------------
(* classifyAdapters: the disabled and the ones without a key are not       *)
(* probed; every other gets a goroutine, a context and a slot of its own.  *)
StartProbes ==
    /\ probe = "none" /\ registered # {} /\ probe' = "run" /\ report0' = disabled
    /\ report' = [n \in registered |-> IF n \in disabled THEN "disabled"
                                       ELSE IF ~KeySet(n) THEN "not-configured" ELSE "pending"]
    /\ UNCHANGED <<registered, disabled, calls, adminVars, health>>
ProbeEnds_CancelsSiblings(n) ==
    /\ probe = "run" /\ n \in DOMAIN report /\ report[n] = "pending"
    /\ report' = [m \in DOMAIN report |->
                    IF m = n THEN IF health[n] = "healthy" THEN "connected" ELSE "unhealthy"
                    ELSE IF report[m] = "pending" /\ health[n] # "healthy" THEN "unhealthy" ELSE report[m]]
    /\ UNCHANGED <<registered, disabled, calls, adminVars, health, probe, report0>>
(* A panic is recovered, a probe that hangs times out.                     *)
ProbeEnds(n) ==
    /\ probe = "run" /\ n \in DOMAIN report /\ report[n] = "pending"
    /\ report' = [report EXCEPT ![n] = IF health[n] = "healthy" THEN "connected" ELSE "unhealthy"]
    /\ UNCHANGED <<registered, disabled, calls, adminVars, health, probe, report0>>
ProbesJoined ==
    /\ probe = "run" /\ \A n \in DOMAIN report : report[n] # "pending"
    /\ probe' = "done"
    /\ UNCHANGED <<registered, disabled, calls, adminVars, health, report, report0>>

RegistryNext ==
    \/ \E n \in ProbedSources : \/ \E skip \in BOOLEAN : Register(n, skip)
                          \/ RegistrySearch(n) \/ ProbeEnds(n)
    \/ \E a \in Admins : \/ RequestArrives(a) \/ ListReplies(a) \/ HealthReplies(a) \/ ResyncReplies(a)
                         \/ ToggleFlips(a) \/ ToggleReplies(a) \/ AuditReplies(a) \/ RequestEnds(a)
    \/ StartProbes \/ ProbesJoined
RegistrySpec == RegistryInit /\ [][RegistryNext]_registryVars

-----------------------------------------------------------------------------
RegistryTypeOK ==
    /\ registered \subseteq ProbedSources /\ disabled \subseteq registered
    /\ \A n \in ProbedSources : calls[n].ok + calls[n].failed <= MaxCalls
    /\ \A a \in Admins : req[a].kind \in Kinds /\ req[a].code \in {-1, 0, 200, 400, 403, 404, 405, 502, 503}
    /\ DOMAIN report \subseteq registered

(* classifyAdapters (sources_cmd.go): what the command reports of an       *)
(* adapter depends on that adapter alone, whatever happened to the probes  *)
(* beside it and whatever the admin toggled meanwhile.                     *)
SiblingsIndependent ==
    probe = "done" => \A n \in DOMAIN report :
        report[n] = IF n \in report0 THEN "disabled"
                    ELSE IF ~KeySet(n) THEN "not-configured"
                    ELSE IF health[n] = "healthy" THEN "connected" ELSE "unhealthy"
=============================================================================
