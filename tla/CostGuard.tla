----------------------------- MODULE CostGuard ------------------------------
(***************************************************************************)
(* The quota guard in front of /deep (internal/deepagent/costguard):       *)
(* concurrent requests are evaluated one at a time by a script that Redis  *)
(* runs atomically on the counters of the request's tenant and, when user  *)
(* caps are on, of its user; the middleware acts on the reply, or on its   *)
(* absence. The counters expire TTL after they were last refreshed.        *)
(***************************************************************************)
EXTENDS Integers, FiniteSets

CONSTANTS Requests,
          Tenants, Users,
          Anonymous,       \* the identity of requests that name no user
          TenantOf, UserOf,
          DegradeAllowed,  \* requests with X-Allow-Degrade: 1
          Cost,            \* the middleware's estimate, in cents
          TTL,             \* lifetime of an untouched counter
          TenantLimit,     \* [calls, usd]; 0 is unlimited
          UserEnabled, UserLimit,
          FailOpen         \* RedisFailureMode = "fail-open"

Limits == [calls : Nat, usd : Nat]
Keys == Tenants \cup Users

ASSUME CostGuardAssumption ==
    /\ IsFiniteSet(Requests)
    /\ Tenants \cap Users = {} /\ Anonymous \notin Keys
    /\ TenantOf \in [Requests -> Tenants]
    /\ UserOf \in [Requests -> Users \cup {Anonymous}]
    /\ DegradeAllowed \subseteq Requests
    /\ Cost \in Nat \ {0} /\ TTL \in Nat \ {0}
    /\ TenantLimit \in Limits /\ UserLimit \in Limits
    /\ UserEnabled \in BOOLEAN /\ FailOpen \in BOOLEAN

VARIABLES counter,   \* Redis: calls and usd of each key
          idle,      \* time since a key's counters were last refreshed
          reply,     \* what each request's evaluation came back with
          status,    \* what became of each request
          age,       \* history: time since a request was evaluated
          counted    \* history: requests a key's counters stand for

vars == <<counter, idle, reply, status, age, counted>>

Zero == [calls |-> 0, usd |-> 0]

Init ==
    /\ counter = [k \in Keys |-> Zero]
    /\ idle = [k \in Keys |-> 0]
    /\ reply = [r \in Requests |-> "none"]
    /\ status = [r \in Requests |-> "new"]
    /\ age = [r \in Requests |-> 0]
    /\ counted = [k \in Keys |-> {}]

-----------------------------------------------------------------------------
(* cap_check.lua: evaluate_cap's two tests before it increments.           *)
Exceeds_Strict(k, limit) ==
    \/ limit.calls > 0 /\ counter[k].calls > limit.calls
    \/ limit.usd > 0 /\ counter[k].usd + Cost > limit.usd
Exceeds(k, limit) ==
    \/ limit.calls > 0 /\ counter[k].calls >= limit.calls
    \/ limit.usd > 0 /\ counter[k].usd + Cost > limit.usd

(* The user's counters take part only when buildKeys names them and the    *)
(* limit on calls, not that on usd, is positive.                           *)
UserCapped(r) == UserEnabled /\ UserOf[r] # Anonymous /\ UserLimit.calls > 0
KeysOf(r) == {TenantOf[r]} \cup (IF UserCapped(r) THEN {UserOf[r]} ELSE {})

TenantExceeded(r) == Exceeds(TenantOf[r], TenantLimit)
UserExceeded(r) == UserCapped(r) /\ Exceeds(UserOf[r], UserLimit)
Admits(r) == ~TenantExceeded(r) /\ ~UserExceeded(r)

(* The keys the script increments: the tenant's before it looks at the     *)
(* user's, so a refusal of the user has already been counted there.        *)
Charged(r) ==
    IF TenantExceeded(r) THEN {}
    ELSE {TenantOf[r]} \cup
         (IF UserCapped(r) /\ ~UserExceeded(r) THEN {UserOf[r]} ELSE {})

(* INCR, INCRBYFLOAT and EXPIRE on every charged key, in one step.         *)
Charge(r, keys, refreshed) ==
    /\ counter' = [k \in Keys |->
          IF k \in keys
          THEN [calls |-> counter[k].calls + 1, usd |-> counter[k].usd + Cost]
          ELSE counter[k]]
    /\ idle' = [k \in Keys |-> IF k \in refreshed THEN 0 ELSE idle[k]]
    /\ counted' = [k \in Keys |-> IF k \in keys THEN counted[k] \cup {r} ELSE counted[k]]

RunScript_FirstOnly(r) ==
    Charge(r, Charged(r), {k \in Charged(r) : counter[k].calls = 0})
RunScript(r) == Charge(r, Charged(r), Charged(r))

(* EvaluateAtomic: the script runs; its answer may be lost on the way.     *)
Evaluate(r) ==
    /\ status[r] = "new" /\ reply[r] = "none"
    /\ RunScript(r)
    /\ \E lost \in BOOLEAN :
          reply' = [reply EXCEPT ![r] =
             IF lost THEN "error" ELSE IF Admits(r) THEN "allowed" ELSE "exceeded"]
    /\ age' = [age EXCEPT ![r] = 0]
    /\ UNCHANGED status

(* Redis is not reached.                                                   *)
EvaluateFails(r) ==
    /\ status[r] = "new" /\ reply[r] = "none"
    /\ reply' = [reply EXCEPT ![r] = "error"]
    /\ UNCHANGED <<counter, idle, status, age, counted>>

(* CapCheckMiddleware acts on the reply.                                   *)
Verdict(r) ==
    CASE reply[r] = "allowed" -> "served"
      [] reply[r] = "exceeded" -> IF r \in DegradeAllowed THEN "degraded" ELSE "refused"
      [] reply[r] = "error" -> IF FailOpen THEN "served" ELSE "unavailable"

Respond(r) ==
    /\ status[r] = "new" /\ reply[r] # "none"
    /\ status' = [status EXCEPT ![r] = Verdict(r)]
    /\ UNCHANGED <<counter, idle, reply, age, counted>>

(* A caller that was turned away tries again. (A request the counters      *)
(* stand for keeps its identity while they do.)                            *)
TryAgain(r) ==
    /\ status[r] \in {"degraded", "refused", "unavailable"}
    /\ \A k \in Keys : r \notin counted[k]
    /\ status' = [status EXCEPT ![r] = "new"]
    /\ reply' = [reply EXCEPT ![r] = "none"]
    /\ UNCHANGED <<counter, idle, age, counted>>

(* Time passes; a key untouched for TTL is deleted.                        *)
Expires(k) == idle[k] + 1 >= TTL

Tick ==
    /\ idle' = [k \in Keys |-> IF Expires(k) THEN 0 ELSE idle[k] + 1]
    /\ counter' = [k \in Keys |-> IF Expires(k) THEN Zero ELSE counter[k]]
    /\ counted' = [k \in Keys |-> IF Expires(k) THEN {} ELSE counted[k]]
    /\ age' = [r \in Requests |-> IF age[r] < TTL THEN age[r] + 1 ELSE TTL]
    /\ UNCHANGED <<reply, status>>

Next == Tick \/ \E r \in Requests : Evaluate(r) \/ EvaluateFails(r) \/ Respond(r)
                                       \/ TryAgain(r)

Spec == Init /\ [][Next]_vars

(* Time passes; nothing is assumed of the callers or of Redis.             *)
FairSpec == Spec /\ WF_vars(Tick)

-----------------------------------------------------------------------------
TypeOK ==
    /\ counter \in [Keys -> [calls : Nat, usd : Nat]]
    /\ idle \in [Keys -> 0..(TTL - 1)]
    /\ reply \in [Requests -> {"none", "allowed", "exceeded", "error"}]
    /\ status \in [Requests -> {"new", "served", "degraded", "refused", "unavailable"}]
    /\ age \in [Requests -> 0..TTL]
    /\ counted \in [Keys -> SUBSET Requests]

(* Requests admitted or served against a key less than TTL ago.            *)
Admitted(r) == reply[r] = "allowed" \/ status[r] = "served"
Recent(k) == {r \in Requests : Admitted(r) /\ age[r] < TTL /\ k \in KeysOf(r)}

Within(n, limit) == /\ limit.calls > 0 => n <= limit.calls
                    /\ limit.usd > 0 => n * Cost <= limit.usd

(* REQ-DEEP4-009, NFR-DEEP4-004: while Redis failures close the guard, in  *)
(* no window of 24 hours are more calls admitted than the tenant's or the  *)
(* user's caps allow, whatever the order of concurrent evaluations,        *)
(* expiries, lost replies and repeated attempts.                           *)
CapHolds ==
    ~FailOpen =>
       /\ \A t \in Tenants : Within(Cardinality(Recent(t)), TenantLimit)
       /\ \A u \in Users : Within(Cardinality(Recent(u)), UserLimit)

(* A ban ends, however insistently the banned callers keep trying: a       *)
(* refusal does not renew the counters that caused it.                     *)
BanEnds ==
    /\ \A t \in Tenants : Exceeds(t, TenantLimit) ~> ~Exceeds(t, TenantLimit)
    /\ \A u \in Users : Exceeds(u, UserLimit) ~> ~Exceeds(u, UserLimit)

(* spec.md:220 (REQ-DEEP4-009) compares the calls of the "24h sliding      *)
(* window": a request is refused for its tenant only if the requests       *)
(* counted for it in the last 24 hours reach a cap.                        *)
RefusedOnlyAtCap ==
    [][\A r \in Requests : reply[r] = "none" /\ reply'[r] = "exceeded" =>
          LET recent == {q \in counted[TenantOf[r]] : age[q] < TTL}
          IN  ~Within(Cardinality(recent) + 1, TenantLimit)]_vars

(* The inductive invariant: a key's counters stand for exactly the         *)
(* requests counted since they were created, and every recent admission    *)
(* is one of them.                                                         *)
CountersExact ==
    \A k \in Keys : /\ IsFiniteSet(counted[k])
                    /\ counter[k].calls = Cardinality(counted[k])
                    /\ counter[k].usd = Cost * Cardinality(counted[k])
RecentCounted == ~FailOpen => \A k \in Keys : Recent(k) \subseteq counted[k]
CountedEvaluated ==
    \A k \in Keys : \A r \in counted[k] : reply[r] # "none" /\ idle[k] <= age[r]
Bounded(c, limit) == /\ limit.calls > 0 => c.calls <= limit.calls
                     /\ limit.usd > 0 => c.usd <= limit.usd
CountersBounded == /\ \A t \in Tenants : Bounded(counter[t], TenantLimit)
                   /\ \A u \in Users : Bounded(counter[u], UserLimit)
IInv == TypeOK /\ CountersExact /\ RecentCounted /\ CountedEvaluated /\ CountersBounded
=============================================================================
