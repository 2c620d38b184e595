----------------------------- MODULE LLMRouter ------------------------------
(***************************************************************************)
(* The LLM client's provider selection (internal/llm/router.go, client.go, *)
(* retry.go): a circuit breaker per provider, shared by concurrent calls   *)
(* that first list the providers their breakers allow and then try them in *)
(* order, with retries, reporting outcomes back to the breakers.           *)
(*                                                                         *)
(* Times are kept as ages, which Tick lets grow: an age past the window or *)
(* the open timeout makes no further difference, so the clock itself is    *)
(* unbounded.                                                              *)
(***************************************************************************)
EXTENDS Integers, FiniteSets, Sequences

CONSTANTS Callers,
          Providers,
          Classes,
          Priorities,    \* class -> sequence of providers
          Kinds,         \* kinds of calls made, a subset of AllKinds
          Outcomes,      \* outcomes of one attempt, a subset of AllOutcomes
          Window,        \* rolling window
          OpenTimeout,   \* time a breaker stays open
          MinSamples,    \* observations needed to open
          MaxRetries,    \* attempts per provider
          MaxObs         \* bound: outcomes one provider collects per window

AllKinds == {"complete", "stream", "embed"}
(* ok; ok but over the request's budget; a status that must not be         *)
(* retried; any other error; the caller's context ended.                   *)
AllOutcomes == {"ok", "budget", "fatal", "retry", "cancel"}

ASSUME RouterAssumption ==
    /\ Classes # {} /\ Priorities \in [Classes -> Seq(Providers)]
    /\ \A cl \in Classes : /\ Priorities[cl] # <<>>
                           /\ \A i, j \in DOMAIN Priorities[cl] :
                                 Priorities[cl][i] = Priorities[cl][j] => i = j
    /\ Kinds \subseteq AllKinds /\ Outcomes \subseteq AllOutcomes
    /\ Window \in Nat /\ OpenTimeout \in Nat
    /\ MinSamples \in Nat \ {0} /\ MaxRetries \in Nat \ {0} /\ MaxObs \in Nat

VARIABLES state,      \* breaker state of each provider
          obs,        \* observations: sequence of [age, ok]
          openAge,    \* time since openedAt
          call        \* each caller's call in progress

vars == <<state, obs, openAge, call>>

Idle == [pc |-> "idle"]
RoutingCall(kind, class, i, avail) ==
    [pc |-> "routing", kind |-> kind, class |-> class, i |-> i, avail |-> avail]
ActiveCall(kind, avail, k, attempt, ctxDone) ==
    [pc |-> "calling", kind |-> kind, avail |-> avail, k |-> k,
     attempt |-> attempt, ctxDone |-> ctxDone]

CapAge(a) == IF a > Window THEN Window + 1 ELSE a
Unexpired(p) == {i \in DOMAIN obs[p] : obs[p][i].age <= Window}
InFlight == {c \in Callers : call[c].pc # "idle"}

-----------------------------------------------------------------------------
(* breaker.Allow                                                           *)
Allows(p) ==
    \/ state[p] = "closed"
    \/ state[p] = "open" /\ openAge[p] >= OpenTimeout

Allow_StaysOpen(p) == UNCHANGED state
Allow(p) ==
    IF state[p] = "open" /\ openAge[p] >= OpenTimeout
    THEN state' = [state EXCEPT ![p] = "halfopen"]
    ELSE UNCHANGED state

(* breaker.Record: the observations after pruning the expired prefix.      *)
Pruned(s) ==
    LET live == {i \in DOMAIN s : \A j \in 1..i : s[j].age > Window}
    IN  SubSeq(s, Cardinality(live) + 1, Len(s))

Failures(s) == Cardinality({i \in DOMAIN s : ~s[i].ok})
(* ratio >= 0.50 over at least MinSamples observations                     *)
ShouldOpen_Strict(s) == Len(s) >= MinSamples /\ 2 * Failures(s) > Len(s)
ShouldOpen(s) == Len(s) >= MinSamples /\ 2 * Failures(s) >= Len(s)

(* An outcome reported while the breaker is half-open decides its state.   *)
RecordHalfOpen(p, ok) ==
    /\ state[p] = "halfopen"
    /\ IF ok
       THEN /\ state' = [state EXCEPT ![p] = "closed"]
            /\ obs' = [obs EXCEPT ![p] = <<>>]
            /\ UNCHANGED openAge
       ELSE /\ state' = [state EXCEPT ![p] = "open"]
            /\ openAge' = [openAge EXCEPT ![p] = 0]
            /\ UNCHANGED obs

(* Otherwise it is appended; only a closed breaker may open on it.         *)
RecordObservation(p, ok) ==
    /\ state[p] # "halfopen"
    /\ LET s == Pruned(Append(obs[p], [age |-> 0, ok |-> ok]))
       IN  IF state[p] = "closed" /\ ShouldOpen(s)
           THEN /\ state' = [state EXCEPT ![p] = "open"]
                /\ openAge' = [openAge EXCEPT ![p] = 0]
                /\ obs' = [obs EXCEPT ![p] = <<>>]
           ELSE /\ obs' = [obs EXCEPT ![p] = s]
                /\ UNCHANGED <<state, openAge>>

Record_AnyState(p, ok) ==
    /\ state' = [state EXCEPT ![p] = IF ok THEN "closed" ELSE "open"]
    /\ openAge' = [openAge EXCEPT ![p] = IF ok THEN @ ELSE 0]
    /\ obs' = [obs EXCEPT ![p] = <<>>]
Record(p, ok) == RecordHalfOpen(p, ok) \/ RecordObservation(p, ok)

-----------------------------------------------------------------------------
Init ==
    /\ state = [p \in Providers |-> "closed"]
    /\ obs = [p \in Providers |-> <<>>]
    /\ openAge = [p \in Providers |-> 0]
    /\ call = [c \in Callers |-> Idle]

(* A call enters Complete, Stream or Embed. MaxObs bounds the traffic.     *)
Start(c, kind, class) ==
    /\ call[c] = Idle
    /\ \A p \in Providers : Cardinality(Unexpired(p)) + Cardinality(InFlight) < MaxObs
    /\ call' = [call EXCEPT ![c] = RoutingCall(kind, class, 1, <<>>)]
    /\ UNCHANGED <<state, obs, openAge>>

(* Route asks one breaker after the other, each under its own lock.        *)
RouteNext(c) ==
    /\ call[c].pc = "routing"
    /\ LET r == call[c]
           refs == Priorities[r.class]
       IN  /\ r.i <= Len(refs)
           /\ Allow(refs[r.i])
           /\ call' = [call EXCEPT ![c].i = r.i + 1,
                                   ![c].avail = IF Allows(refs[r.i])
                                                THEN Append(@, refs[r.i]) ELSE @]
    /\ UNCHANGED <<obs, openAge>>

(* Route returns the list, or ErrAllProvidersFailed when it is empty.      *)
RouteDone(c) ==
    /\ call[c].pc = "routing"
    /\ call[c].i > Len(Priorities[call[c].class])
    /\ call' = [call EXCEPT ![c] =
                   IF call[c].avail = <<>> THEN Idle
                   ELSE ActiveCall(call[c].kind, call[c].avail, 1, 1, FALSE)]
    /\ UNCHANGED <<state, obs, openAge>>

Completing(c) == call[c].pc = "calling" /\ call[c].kind = "complete"
Provider(c) == call[c].avail[call[c].k]

(* Complete's loop moves on to the next provider, or gives up.             *)
NextProvider_Stuck(c, ctxDone) == ActiveCall("complete", call[c].avail, call[c].k, 1, ctxDone)
NextProvider(c, ctxDone) ==
    IF call[c].k < Len(call[c].avail)
    THEN ActiveCall("complete", call[c].avail, call[c].k + 1, 1, ctxDone)
    ELSE Idle

(* A response, within budget or not, ends the call as a success.           *)
Succeed(c) ==
    /\ Completing(c) /\ ~call[c].ctxDone
    /\ Outcomes \cap {"ok", "budget"} # {}
    /\ Record(Provider(c), TRUE)
    /\ call' = [call EXCEPT ![c] = Idle]

(* A non-retryable status is returned at once; no breaker hears of it.     *)
FailFatally(c) ==
    /\ Completing(c) /\ ~call[c].ctxDone
    /\ "fatal" \in Outcomes
    /\ call' = [call EXCEPT ![c] = Idle]
    /\ UNCHANGED <<state, obs, openAge>>

RetriesLeft_OffByOne(c) == call[c].attempt <= MaxRetries
RetriesLeft(c) == call[c].attempt < MaxRetries

(* withRetry: another attempt after the backoff ...                        *)
Retry(c) ==
    /\ Completing(c) /\ ~call[c].ctxDone
    /\ "retry" \in Outcomes
    /\ RetriesLeft(c)
    /\ call' = [call EXCEPT ![c].attempt = @ + 1]
    /\ UNCHANGED <<state, obs, openAge>>

(* ... or the provider has failed and the next one is tried.               *)
Exhaust(c) ==
    /\ Completing(c) /\ ~call[c].ctxDone
    /\ "retry" \in Outcomes
    /\ ~RetriesLeft(c)
    /\ Record(Provider(c), FALSE)
    /\ call' = [call EXCEPT ![c] = NextProvider(c, FALSE)]

(* The caller's context ends: the attempt fails, the backoff returns       *)
(* ctx.Err(), and this and every later provider is recorded as failed.     *)
Cancelled(c) ==
    /\ Completing(c)
    /\ call[c].ctxDone \/ "cancel" \in Outcomes
    /\ Record(Provider(c), FALSE)
    /\ call' = [call EXCEPT ![c] = NextProvider(c, TRUE)]

(* Stream and Embed use the first listed provider and report nothing.      *)
EndUnrecorded(c) ==
    /\ call[c].pc = "calling" /\ call[c].kind # "complete"
    /\ call' = [call EXCEPT ![c] = Idle]
    /\ UNCHANGED <<state, obs, openAge>>

AgeAll(s) == [i \in DOMAIN s |-> [s[i] EXCEPT !.age = CapAge(@ + 1)]]

Tick ==
    /\ obs' = [p \in Providers |-> AgeAll(obs[p])]
    /\ openAge' = [p \in Providers |-> IF openAge[p] < OpenTimeout
                                       THEN openAge[p] + 1 ELSE openAge[p]]
    /\ UNCHANGED <<state, call>>

Finish(c) == \/ Succeed(c) \/ FailFatally(c) \/ Retry(c) \/ Exhaust(c)
             \/ Cancelled(c) \/ EndUnrecorded(c)

StartAny(c) == \E kind \in Kinds, class \in Classes : Start(c, kind, class)

Next == \/ Tick
        \/ \E c \in Callers : StartAny(c) \/ RouteNext(c) \/ RouteDone(c) \/ Finish(c)

Spec == Init /\ [][Next]_vars

(* Time passes, goroutines run, HTTP requests end (client timeout), and    *)
(* idle callers come back with requests of every class.                    *)
Fairness ==
    /\ WF_vars(Tick)
    /\ \A c \in Callers :
          /\ WF_vars(RouteNext(c)) /\ WF_vars(RouteDone(c)) /\ WF_vars(Finish(c))
          /\ \A class \in Classes : SF_vars(\E kind \in Kinds : Start(c, kind, class))

FairSpec == Spec /\ Fairness

-----------------------------------------------------------------------------
TypeOK ==
    /\ state \in [Providers -> {"closed", "open", "halfopen"}]
    /\ \A p \in Providers : \A i \in DOMAIN obs[p] :
          obs[p][i].age \in 0..(Window + 1) /\ obs[p][i].ok \in BOOLEAN
    /\ openAge \in [Providers -> 0..OpenTimeout]
    /\ \A c \in Callers :
          /\ call[c].pc \in {"idle", "routing", "calling"}
          /\ call[c].pc = "calling" =>
                /\ call[c].k \in DOMAIN call[c].avail
                /\ call[c].attempt \in 1..MaxRetries

(* NFR-LLM-002: a closed breaker never sits on evidence that should have   *)
(* opened it, and that evidence spans no more than the window before the   *)
(* latest outcome (Record prunes, then checks the ratio).                  *)
TrippedWhenDue ==
    \A p \in Providers :
        LET s == obs[p] IN
        /\ state[p] = "closed" => ~(Len(s) >= MinSamples /\ 2 * Failures(s) >= Len(s))
        /\ \A i \in DOMAIN s : s[i].age <= Window \/ s[Len(s)].age > 0

(* NFR-LLM-002: an open breaker holds for OpenTimeout and is then left     *)
(* through half-open only, whatever late outcomes of calls that started    *)
(* before it opened are still reported.                                    *)
OpenHolds ==
    [][\A p \in Providers : state[p] = "open" /\ state'[p] # "open" =>
          state'[p] = "halfopen" /\ openAge[p] >= OpenTimeout]_vars

(* Every call returns.                                                     *)
CallsReturn == \A c \in Callers : call[c] # Idle ~> call[c] = Idle

(* A provider whose breaker opened is offered traffic again.               *)
OpenIsProbed == \A p \in Providers : state[p] = "open" ~> state[p] # "open"

(* NFR-LLM-002: a half-open breaker closes or re-opens on its probe.       *)
HalfOpenResolves == \A p \in Providers : state[p] = "halfopen" ~> state[p] # "halfopen"
=============================================================================
