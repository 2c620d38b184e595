------------------------------ MODULE LLMProofs ------------------------------
(***************************************************************************)
(* Proofs about the LLM client: LLMRouter's breakers, for any callers,     *)
(* providers, windows, timeouts and number of samples, and LLMStream, for  *)
(* every capacity of the channel and any number of chunks.                 *)
(***************************************************************************)
EXTENDS LLMRouter, LLMStream, FiniteSetTheorems, SequenceTheorems, TLAPS


States == {"closed", "open", "halfopen"}
Observation == [age : 0..(Window + 1), ok : BOOLEAN]

(* Observations are in the order they were made, the oldest first.         *)
Sorted(s) == \A i, j \in 1..Len(s) : i <= j => s[i].age >= s[j].age
Recent(s) == \A i \in 1..Len(s) : s[i].age <= Window \/ s[Len(s)].age > 0

Observed(s) == s \in Seq(Observation) /\ Sorted(s) /\ Recent(s)

BreakerInv ==
    /\ state \in [Providers -> States]
    /\ obs \in [Providers -> Seq(Observation)]
    /\ \A p \in Providers : Observed(obs[p])
    /\ \A p \in Providers : state[p] = "closed" => ~ShouldOpen(obs[p])

-----------------------------------------------------------------------------
(* A breaker without observations is not due to open.                      *)
LEMMA NoneObserved == Observed(<<>>) /\ ~ShouldOpen(<<>>)
<1>1. <<>> \in Seq(Observation) /\ Len(<<>>) = 0
  BY EmptySeq
<1> QED
  BY <1>1, RouterAssumption DEF Observed, Sorted, Recent, ShouldOpen

(* Pruning leaves observations of the window only, in order.               *)
LEMMA PruneRecent ==
    ASSUME NEW s \in Seq(Observation), Sorted(s)
    PROVE  Observed(Pruned(s))
<1> DEFINE live == {i \in DOMAIN s : \A j \in 1..i : s[j].age > Window}
           k == Cardinality(live)
           n == Len(s)
           t == SubSeq(s, k + 1, n)
<1>1. n \in Nat /\ DOMAIN s = 1..n /\ (\A i \in 1..n : s[i] \in Observation)
  BY LenProperties, ElementOfSeq
<1>2. Pruned(s) = t
  BY DEF Pruned
<1>3. IsFiniteSet(1..n) /\ live \subseteq 1..n
  BY <1>1, FS_Interval
<1>4. IsFiniteSet(live) /\ k \in Nat
  BY <1>3, FS_Subset, FS_CardinalityType
<1>5. \A i \in 1..n : i > k => s[i].age <= Window
  <2> SUFFICES ASSUME NEW i \in 1..n, i > k, ~(s[i].age <= Window) PROVE FALSE
    OBVIOUS
  <2>1. \A j \in 1..i : j \in 1..n /\ s[j].age >= s[i].age /\ s[j].age \in Nat
    BY <1>1 DEF Sorted, Observation
  <2>2. s[i].age \in Nat /\ s[i].age > Window
    BY <1>1, RouterAssumption DEF Observation
  <2>3. \A j \in 1..i : s[j].age > Window
    BY <2>1, <2>2, RouterAssumption
  <2>4. 1..i \subseteq live
    <3> SUFFICES ASSUME NEW m \in 1..i PROVE m \in live
      OBVIOUS
    <3>1. m \in DOMAIN s
      BY <1>1, <2>1
    <3>2. \A j \in 1..m : s[j].age > Window
      BY <2>3
    <3> QED
      BY <3>1, <3>2
  <2>5. Cardinality(1..i) = i
    BY FS_Interval
  <2> HIDE DEF live
  <2>6. Cardinality(1..i) <= Cardinality(live)
    BY <1>4, <2>4, FS_Subset
  <2> QED
    BY <1>4, <2>5, <2>6
<1> HIDE DEF k, live
<1>6. \A i \in (k + 1)..n : s[i] \in Observation
  BY <1>1, <1>4
<1>7. /\ t \in Seq(Observation)
      /\ Len(t) = IF k + 1 <= n THEN n - (k + 1) + 1 ELSE 0
      /\ \A i \in 1..(n - (k + 1) + 1) : t[i] = s[(k + 1) + i - 1]
  BY <1>1, <1>4, <1>6, SubSeqProperties
<1> HIDE DEF t
<1>8. Len(t) \in Nat /\ \A i \in 1..Len(t) : k + i \in 1..n /\ t[i] = s[k + i]
  <2>1. \A i \in 1..Len(t) : (k + 1) + i - 1 = k + i /\ i \in 1..(n - (k + 1) + 1)
                             /\ k + i \in 1..n
    <3> SUFFICES ASSUME NEW i \in 1..Len(t)
                 PROVE  (k + 1) + i - 1 = k + i /\ i \in 1..(n - (k + 1) + 1) /\ k + i \in 1..n
      OBVIOUS
    <3> DEFINE m == Len(t)
    <3>1. m = IF k + 1 <= n THEN n - (k + 1) + 1 ELSE 0
      BY <1>7
    <3>2. i \in 1..m
      OBVIOUS
    <3> HIDE DEF m, n
    <3> QED
      BY <1>1, <1>4, <3>1, <3>2
  <2>2. Len(t) \in Nat
    BY <1>7, LenProperties
  <2> QED
    BY <1>7, <2>1, <2>2
<1>9. Sorted(t)
  <2> SUFFICES ASSUME NEW i \in 1..Len(t), NEW j \in 1..Len(t), i <= j
               PROVE  t[i].age >= t[j].age
    BY DEF Sorted
  <2>1. k + i \in 1..n /\ k + j \in 1..n /\ k + i <= k + j
    BY <1>4, <1>8
  <2>2. s[k + i].age >= s[k + j].age
    BY <2>1 DEF Sorted
  <2> QED
    BY <1>8, <2>2
<1>10. Recent(t)
  <2> SUFFICES ASSUME NEW i \in 1..Len(t) PROVE t[i].age <= Window
    BY DEF Recent
  <2>1. k + i \in 1..n /\ k + i > k /\ t[i] = s[k + i]
    BY <1>4, <1>8
  <2> QED
    BY <1>5, <2>1
<1> QED
  BY <1>2, <1>7, <1>9, <1>10 DEF Observed

(* Recording keeps the order, and what it leaves with a closed breaker is  *)
(* not enough to open it.                                                  *)
LEMMA RecordKeeps ==
    ASSUME BreakerInv, NEW p \in Providers, NEW ok \in BOOLEAN, Record(p, ok)
    PROVE  BreakerInv'
<1> DEFINE s == Append(obs[p], [age |-> 0, ok |-> ok])
<1>1. /\ state \in [Providers -> States] /\ obs \in [Providers -> Seq(Observation)]
      /\ \A q \in Providers : Observed(obs[q])
      /\ \A q \in Providers : state[q] = "closed" => ~ShouldOpen(obs[q])
  BY DEF BreakerInv
<1>2. CASE RecordHalfOpen(p, ok)
  <2>1. CASE ok
    <3>1. state' = [state EXCEPT ![p] = "closed"] /\ obs' = [obs EXCEPT ![p] = <<>>]
      BY <1>2, <2>1 DEF RecordHalfOpen
    <3>2. <<>> \in Seq(Observation)
      BY EmptySeq
    <3> QED
      BY <1>1, <3>1, <3>2, NoneObserved DEF BreakerInv, States
  <2>2. CASE ~ok
    <3>1. state' = [state EXCEPT ![p] = "open"] /\ obs' = obs
      BY <1>2, <2>2 DEF RecordHalfOpen
    <3> QED
      BY <1>1, <3>1 DEF BreakerInv, States
  <2> QED
    BY <2>1, <2>2
<1>3. CASE RecordObservation(p, ok)
  <2>1. s \in Seq(Observation) /\ Sorted(s)
    <3> DEFINE n == Len(obs[p])
    <3>0. [age |-> 0, ok |-> ok] \in Observation
      BY RouterAssumption DEF Observation
    <3>1. /\ s \in Seq(Observation) /\ Len(s) = n + 1 /\ n \in Nat
          /\ \A i \in 1..n : s[i] = obs[p][i]
          /\ s[n + 1] = [age |-> 0, ok |-> ok]
      BY <1>1, <3>0, AppendProperties, LenProperties
    <3>2. \A i \in 1..(n + 1) : s[i].age \in Nat
      <4>1. \A i \in 1..Len(s) : s[i] \in Observation
        BY <3>1, ElementOfSeq
      <4> QED
        BY <3>1, <4>1 DEF Observation
    <3>3. \A i, j \in 1..n : i <= j => s[i].age >= s[j].age
      BY <1>1, <3>1 DEF Observed, Sorted
    <3>4. s[n + 1].age = 0
      BY <3>1
    <3> HIDE DEF n, s
    <3>5. \A i, j \in 1..(n + 1) : i <= j => s[i].age >= s[j].age
      <4> SUFFICES ASSUME NEW i \in 1..(n + 1), NEW j \in 1..(n + 1), i <= j
                   PROVE  s[i].age >= s[j].age
        OBVIOUS
      <4>1. CASE j = n + 1
        BY <3>1, <3>2, <3>4, <4>1
      <4>2. CASE j # n + 1
        BY <3>1, <3>3, <4>2
      <4> QED
        BY <4>1, <4>2
    <3> QED
      BY <3>1, <3>5 DEF Sorted
  <2> HIDE DEF s
  <2>2. Observed(Pruned(s))
    BY <2>1, PruneRecent
  <2>3. CASE /\ state' = [state EXCEPT ![p] = "open"] /\ obs' = [obs EXCEPT ![p] = <<>>]
    <3>1. <<>> \in Seq(Observation)
      BY EmptySeq
    <3> QED
      BY <1>1, <2>3, <3>1, NoneObserved DEF BreakerInv, States
  <2>4. CASE /\ ~(state[p] = "closed" /\ ShouldOpen(Pruned(s))) /\ state' = state
             /\ obs' = [obs EXCEPT ![p] = Pruned(s)]
    <3>1. Pruned(s) \in Seq(Observation)
      BY <2>2 DEF Observed
    <3> QED
      BY <1>1, <2>2, <2>4, <3>1 DEF BreakerInv
  <2> QED
    BY <1>3, <2>3, <2>4 DEF RecordObservation, s
<1> QED
  BY <1>2, <1>3 DEF Record

(* Time makes every observation older, and none of them better or worse.   *)
LEMMA TickKeeps == BreakerInv /\ Tick => BreakerInv'
<1> SUFFICES ASSUME BreakerInv, Tick, NEW p \in Providers
             PROVE  /\ AgeAll(obs[p]) \in Seq(Observation) /\ Observed(AgeAll(obs[p]))
                    /\ ShouldOpen(AgeAll(obs[p])) => ShouldOpen(obs[p])
  BY DEF BreakerInv, Tick
<1> DEFINE s == obs[p]
           t == AgeAll(s)
           n == Len(s)
<1>1. /\ s \in Seq(Observation) /\ Sorted(s) /\ n \in Nat /\ DOMAIN s = 1..n
      /\ \A i \in 1..n : s[i] \in Observation
  BY LenProperties, ElementOfSeq DEF BreakerInv, Observed
<1>2. /\ DOMAIN t = 1..n
      /\ \A i \in 1..n : t[i] = [s[i] EXCEPT !.age = CapAge(@ + 1)]
  BY <1>1 DEF AgeAll
<1>3. \A i \in 1..n : /\ t[i] \in Observation /\ t[i].ok = s[i].ok
                      /\ t[i].age = CapAge(s[i].age + 1) /\ t[i].age > 0
  <2> SUFFICES ASSUME NEW i \in 1..n
               PROVE  /\ t[i] \in Observation /\ t[i].ok = s[i].ok
                      /\ t[i].age = CapAge(s[i].age + 1) /\ t[i].age > 0
    OBVIOUS
  <2> DEFINE a == CapAge(s[i].age + 1)
  <2>1. s[i] \in Observation
    BY <1>1
  <2>2. a \in 0..(Window + 1) /\ a > 0
    BY <2>1, RouterAssumption DEF Observation, CapAge
  <2>3. t[i] = [s[i] EXCEPT !.age = a]
    BY <1>2
  <2> HIDE DEF a, t, s
  <2>4. t[i].age = a /\ t[i].ok = s[i].ok /\ t[i] \in Observation
    BY <2>1, <2>2, <2>3 DEF Observation
  <2> QED
    BY <2>2, <2>4 DEF a
<1>4. t = [i \in 1..n |-> t[i]]
  BY <1>1 DEF AgeAll
<1>5. t \in Seq(Observation) /\ Len(t) = n
  <2>1. t \in [1..n -> Observation]
    BY <1>3, <1>4
  <2> HIDE DEF t, n
  <2>2. t \in Seq(Observation)
    BY <1>1, <2>1
  <2> QED
    BY <1>1, <1>2, <2>2, LenProperties
<1> HIDE DEF t
<1>6. Sorted(t)
  <2> SUFFICES ASSUME NEW i \in 1..n, NEW j \in 1..n, i <= j
               PROVE  t[i].age >= t[j].age
    BY <1>5 DEF Sorted
  <2>1. s[i].age \in Nat /\ s[j].age \in Nat /\ s[i].age >= s[j].age
    BY <1>1 DEF Observation, Sorted
  <2>2. CapAge(s[i].age + 1) >= CapAge(s[j].age + 1)
    BY <2>1, RouterAssumption DEF CapAge
  <2> QED
    BY <1>3, <2>2
<1>7. Recent(t)
  BY <1>1, <1>3, <1>5 DEF Recent
<1>8. Failures(t) = Failures(s)
  <2>1. {i \in DOMAIN t : ~t[i].ok} = {i \in DOMAIN s : ~s[i].ok}
    BY <1>1, <1>2, <1>3
  <2> QED
    BY <2>1 DEF Failures
<1> QED
  BY <1>5, <1>6, <1>7, <1>8 DEF Observed, ShouldOpen, t

(* Route's question opens nothing: an expired breaker becomes half-open.   *)
LEMMA AllowKeeps ==
    ASSUME BreakerInv, NEW p, Allow(p), obs' = obs
    PROVE  BreakerInv'
<1>1. CASE state' = [state EXCEPT ![p] = "halfopen"]
  BY <1>1 DEF BreakerInv, States
<1>2. CASE state' = state
  BY <1>2 DEF BreakerInv
<1> QED
  BY <1>1, <1>2 DEF Allow

-----------------------------------------------------------------------------
(* What a call in progress holds: a position in its class's list, or in    *)
(* the list of the providers it was given.                                 *)
Routing == [pc : {"routing"}, kind : Kinds, class : Classes, i : Nat \ {0},
            avail : Seq(Providers)]
Calling == {r \in [pc : {"calling"}, kind : Kinds, avail : Seq(Providers), k : Nat \ {0},
                   attempt : 1..MaxRetries, ctxDone : BOOLEAN] : r.k <= Len(r.avail)}
Calls == {Idle} \cup Routing \cup Calling

CallInv == call \in [Callers -> Calls]

(* A call's states by what is defined in them.                             *)
LEMMA CallKinds ==
    ASSUME CallInv, NEW c \in Callers
    PROVE  /\ call[c].pc = "routing" => call[c] \in Routing
           /\ call[c].pc = "calling" => call[c] \in Calling
<1>1. Idle.pc = "idle" /\ (\A r \in Routing : r.pc = "routing")
      /\ (\A r \in Calling : r.pc = "calling")
  BY DEF Idle, Routing, Calling
<1>2. call[c] \in {Idle} \cup Routing \cup Calling
  BY DEF CallInv, Calls
<1> QED
  BY <1>1, <1>2

(* An attempt at a provider that was available is a call.                  *)
LEMMA ActiveCalls ==
    ASSUME NEW kind \in Kinds, NEW avail \in Seq(Providers), NEW k \in Nat \ {0},
           k <= Len(avail), NEW attempt \in 1..MaxRetries, NEW done \in BOOLEAN
    PROVE  ActiveCall(kind, avail, k, attempt, done) \in Calls
BY DEF ActiveCall, Calls, Calling

(* The provider at hand is one, and so is the next one tried.              *)
LEMMA ProviderAtHand ==
    ASSUME CallInv, NEW c \in Callers, Completing(c)
    PROVE  /\ Provider(c) \in Providers
           /\ \A done \in BOOLEAN : NextProvider(c, done) \in Calls
<1> DEFINE r == call[c]
           n == Len(r.avail)
<1>1. r \in Calling /\ r.kind = "complete"
  BY CallKinds DEF Completing
<1>2. /\ r.avail \in Seq(Providers) /\ n \in Nat /\ r.k \in Nat \ {0} /\ r.k <= n
      /\ r.kind \in Kinds /\ "complete" \in Kinds
  BY <1>1, LenProperties DEF Calling
<1>3. Provider(c) \in Providers
  BY <1>2, ElementOfSeq DEF Provider
<1>4. ASSUME NEW done \in BOOLEAN PROVE NextProvider(c, done) \in Calls
  <2>1. 1 \in 1..MaxRetries
    BY RouterAssumption
  <2>2. CASE r.k < n
    <3>1. r.k + 1 \in Nat \ {0} /\ r.k + 1 <= n
      <4> DEFINE k == r.k
      <4>1. k \in Nat /\ k < n
        BY <1>2, <2>2
      <4> HIDE DEF k, n
      <4>2. k + 1 \in Nat \ {0} /\ k + 1 <= n
        BY <1>2, <4>1
      <4> QED
        BY <4>2 DEF k
    <3>2. NextProvider(c, done) = ActiveCall("complete", r.avail, r.k + 1, 1, done)
      BY <2>2 DEF NextProvider
    <3> QED
      BY <1>2, <2>1, <3>1, <3>2, ActiveCalls
  <2>3. CASE ~(r.k < n)
    BY <2>3 DEF NextProvider, Calls
  <2> QED
    BY <2>2, <2>3
<1> QED
  BY <1>3, <1>4

(* A call that asks the next breaker is still routing.                     *)
LEMMA MovedOn ==
    ASSUME NEW r \in Routing, NEW j \in Nat \ {0}, NEW avail \in Seq(Providers)
    PROVE  [r EXCEPT !.i = j, !.avail = avail] \in Routing
BY DEF Routing

(* Routing, attempts and ends keep the calls typed.                        *)
LEMMA CallStep ==
    ASSUME CallInv, NEW c \in Callers, StartAny(c) \/ RouteNext(c) \/ RouteDone(c) \/ Finish(c)
    PROVE  CallInv'
<1>1. SUFFICES \E r \in Calls : call' = [call EXCEPT ![c] = r]
  BY DEF CallInv
<1>2. Idle \in Calls
  BY DEF Calls
<1>3. CASE StartAny(c)
  <2>1. PICK kind \in Kinds, class \in Classes : Start(c, kind, class)
    BY <1>3 DEF StartAny
  <2>2. RoutingCall(kind, class, 1, <<>>) \in Calls
    BY EmptySeq DEF RoutingCall, Calls, Routing
  <2> QED
    BY <2>1, <2>2 DEF Start
<1>4. CASE RouteNext(c)
  <2> DEFINE r == call[c]
             refs == Priorities[r.class]
             avail == IF Allows(refs[r.i]) THEN Append(r.avail, refs[r.i]) ELSE r.avail
  <2>1. r \in Routing /\ r.i <= Len(refs)
    BY <1>4, CallKinds DEF RouteNext
  <2>2. refs \in Seq(Providers) /\ r.i \in Nat \ {0} /\ r.avail \in Seq(Providers)
    BY <2>1, RouterAssumption DEF Routing
  <2>3. refs[r.i] \in Providers
    BY <2>1, <2>2, ElementOfSeq, LenProperties
  <2>4. avail \in Seq(Providers)
    BY <2>2, <2>3, AppendProperties
  <2>5. call' = [call EXCEPT ![c] = [r EXCEPT !.i = r.i + 1, !.avail = avail]]
    BY <1>4 DEF RouteNext, CallInv
  <2> HIDE DEF avail
  <2>6. [r EXCEPT !.i = r.i + 1, !.avail = avail] \in Routing
    <3>1. r.i + 1 \in Nat \ {0}
      BY <2>2
    <3> QED
      BY <2>1, <2>4, <3>1, MovedOn
  <2> QED
    BY <2>5, <2>6 DEF Calls
<1>5. CASE RouteDone(c)
  <2> DEFINE r == call[c]
  <2>1. r \in Routing
    BY <1>5, CallKinds DEF RouteDone
  <2>2. r.avail \in Seq(Providers) /\ r.kind \in Kinds
    BY <2>1 DEF Routing
  <2>3. CASE r.avail = <<>>
    BY <1>2, <1>5, <2>3 DEF RouteDone
  <2>4. CASE r.avail # <<>>
    <3>1. 1 <= Len(r.avail)
      BY <2>2, <2>4, EmptySeq, LenProperties
    <3>2. 1 \in 1..MaxRetries /\ 1 \in Nat \ {0}
      BY RouterAssumption
    <3>3. ActiveCall(r.kind, r.avail, 1, 1, FALSE) \in Calls
      BY <2>2, <3>1, <3>2, ActiveCalls
    <3> QED
      BY <1>5, <2>4, <3>3 DEF RouteDone
  <2> QED
    BY <2>3, <2>4
<1>6. CASE Retry(c)
  <2> DEFINE r == call[c]
  <2>1. r \in Calling /\ r.attempt < MaxRetries
    BY <1>6, CallKinds DEF Retry, Completing, RetriesLeft
  <2>2. r.attempt + 1 \in 1..MaxRetries
    BY <2>1, RouterAssumption DEF Calling
  <2>3. [r EXCEPT !.attempt = r.attempt + 1] \in Calling
    BY <2>1, <2>2 DEF Calling
  <2>4. call' = [call EXCEPT ![c] = [r EXCEPT !.attempt = r.attempt + 1]]
    BY <1>6 DEF Retry
  <2> QED
    BY <2>3, <2>4 DEF Calls
<1>7. CASE Exhaust(c) \/ Cancelled(c)
  <2>1. Completing(c)
    BY <1>7 DEF Exhaust, Cancelled
  <2>2. NextProvider(c, TRUE) \in Calls /\ NextProvider(c, FALSE) \in Calls
    BY <2>1, ProviderAtHand
  <2> QED
    BY <1>7, <2>2 DEF Exhaust, Cancelled
<1>8. CASE Succeed(c) \/ FailFatally(c) \/ EndUnrecorded(c)
  BY <1>2, <1>8 DEF Succeed, FailFatally, EndUnrecorded
<1> QED
  BY <1>3, <1>4, <1>5, <1>6, <1>7, <1>8 DEF Finish

-----------------------------------------------------------------------------
OpenAges == openAge \in [Providers -> 0..OpenTimeout]
RouterInv == BreakerInv /\ CallInv /\ OpenAges

(* An open breaker's age restarts at zero and stops at the timeout.        *)
LEMMA AgesKept ==
    ASSUME OpenAges, [Next]_vars PROVE OpenAges'
<1>1. ASSUME NEW p, NEW ok, Record(p, ok) PROVE OpenAges'
  <2>1. openAge' = openAge \/ openAge' = [openAge EXCEPT ![p] = 0]
    BY <1>1 DEF Record, RecordHalfOpen, RecordObservation
  <2> QED
    BY <2>1, RouterAssumption DEF OpenAges
<1>2. CASE openAge' = openAge
  BY <1>2 DEF OpenAges
<1>3. CASE Tick
  BY <1>3, RouterAssumption DEF Tick, OpenAges
<1>4. ASSUME NEW c \in Callers, StartAny(c) \/ RouteNext(c) \/ RouteDone(c) \/ Finish(c)
      PROVE  OpenAges'
  BY <1>1, <1>2, <1>4 DEF StartAny, Start, RouteNext, RouteDone, Finish, FailFatally, Retry,
                          EndUnrecorded, Succeed, Exhaust, Cancelled
<1> QED
  BY <1>2, <1>3, <1>4 DEF Next, vars

(* At first breakers are closed and nobody calls.                          *)
LEMMA InitRouter == Init => RouterInv
<1> SUFFICES ASSUME Init PROVE RouterInv
  OBVIOUS
<1>1. CallInv
  BY DEF Init, CallInv, Calls
<1>2. <<>> \in Seq(Observation)
  BY EmptySeq
<1>3. BreakerInv
  BY <1>2, NoneObserved DEF Init, BreakerInv, States
<1>4. OpenAges
  BY RouterAssumption DEF Init, OpenAges
<1> QED
  BY <1>1, <1>3, <1>4 DEF RouterInv

(* Calls, reports and the clock keep the evidence in order.                *)
LEMMA RouterStep == RouterInv /\ [Next]_vars => RouterInv'
<1> SUFFICES ASSUME RouterInv, [Next]_vars PROVE RouterInv'
  OBVIOUS
<1>1. BreakerInv /\ CallInv /\ OpenAges'
  BY AgesKept DEF RouterInv
<1>2. CASE Tick
  BY <1>1, <1>2, TickKeeps DEF Tick, CallInv, RouterInv
<1>3. ASSUME NEW c \in Callers, StartAny(c) \/ RouteNext(c) \/ RouteDone(c) \/ Finish(c)
      PROVE  RouterInv'
  <2>1. CallInv'
    BY <1>1, <1>3, CallStep
  <2>2. CASE UNCHANGED <<state, obs>>
    BY <1>1, <2>1, <2>2 DEF RouterInv, BreakerInv
  <2>3. CASE RouteNext(c)
    <3>1. obs' = obs /\ Allow(Priorities[call[c].class][call[c].i])
      BY <2>3 DEF RouteNext
    <3> QED
      BY <1>1, <2>1, <3>1, AllowKeeps DEF RouterInv
  <2>4. CASE Succeed(c) \/ Exhaust(c) \/ Cancelled(c)
    <3>1. Completing(c) /\ (Record(Provider(c), TRUE) \/ Record(Provider(c), FALSE))
      BY <2>4 DEF Succeed, Exhaust, Cancelled
    <3>2. Provider(c) \in Providers
      BY <1>1, <3>1, ProviderAtHand
    <3> QED
      BY <1>1, <2>1, <3>1, <3>2, RecordKeeps DEF RouterInv
  <2> QED
    BY <1>3, <2>2, <2>3, <2>4 DEF StartAny, Start, RouteDone, Finish, FailFatally, Retry,
                                   EndUnrecorded
<1>4. CASE UNCHANGED vars
  BY <1>1, <1>4 DEF vars, RouterInv, BreakerInv, CallInv
<1> QED
  BY <1>2, <1>3, <1>4 DEF Next

(* Whatever callers report, in whatever order and however late, a closed   *)
(* breaker never sits on evidence that should have opened it, and its      *)
(* evidence spans no more than the window (router.go: Record).             *)
THEOREM Tripped == Spec => []TrippedWhenDue
<1>1. RouterInv => TrippedWhenDue
  <2> SUFFICES ASSUME RouterInv, NEW p \in Providers
               PROVE  /\ state[p] = "closed" => ~ShouldOpen(obs[p])
                      /\ \A i \in DOMAIN obs[p] :
                            obs[p][i].age <= Window \/ obs[p][Len(obs[p])].age > 0
    BY DEF TrippedWhenDue, ShouldOpen
  <2>1. Observed(obs[p]) /\ (state[p] = "closed" => ~ShouldOpen(obs[p]))
    BY DEF RouterInv, BreakerInv
  <2>2. DOMAIN obs[p] = 1..Len(obs[p])
    BY <2>1, LenProperties DEF Observed
  <2> QED
    BY <2>1, <2>2 DEF Observed, Recent
<1> QED
  BY InitRouter, RouterStep, <1>1, PTL DEF Spec

(* An open breaker holds for its timeout, and is left through half-open    *)
(* only, by the question of a router (router.go: Allow).                   *)
THEOREM HeldOpen == Spec => OpenHolds
<1> DEFINE Holds == \A p \in Providers : state[p] = "open" /\ state'[p] # "open" =>
                        state'[p] = "halfopen" /\ openAge[p] >= OpenTimeout
<1>1. RouterInv /\ [Next]_vars => Holds
  <2> SUFFICES ASSUME RouterInv, Next, NEW p \in Providers,
                      state[p] = "open", state'[p] # "open"
               PROVE  state'[p] = "halfopen" /\ openAge[p] >= OpenTimeout
    BY DEF vars
  <2>1. state \in [Providers -> States] /\ CallInv
    BY DEF RouterInv, BreakerInv
  <2>2. ASSUME NEW q, Allow(q)
        PROVE  state'[p] = "halfopen" /\ openAge[p] >= OpenTimeout
    BY <2>1, <2>2 DEF Allow
  <2>3. ASSUME NEW q, NEW ok, Record(q, ok) PROVE FALSE
    BY <2>1, <2>3 DEF Record, RecordHalfOpen, RecordObservation
  <2>4. ASSUME state' = state PROVE FALSE
    BY <2>4
  <2>5. CASE Tick
    BY <2>4, <2>5 DEF Tick
  <2>6. ASSUME NEW c \in Callers, StartAny(c) \/ RouteNext(c) \/ RouteDone(c) \/ Finish(c)
        PROVE  state'[p] = "halfopen" /\ openAge[p] >= OpenTimeout
    <3>1. CASE RouteNext(c)
      BY <2>2, <3>1 DEF RouteNext
    <3>2. CASE Succeed(c) \/ Exhaust(c) \/ Cancelled(c)
      BY <2>3, <3>2 DEF Succeed, Exhaust, Cancelled
    <3>3. CASE StartAny(c) \/ RouteDone(c) \/ FailFatally(c) \/ Retry(c) \/ EndUnrecorded(c)
      BY <2>4, <3>3 DEF StartAny, Start, RouteDone, FailFatally, Retry, EndUnrecorded
    <3> QED
      BY <2>6, <3>1, <3>2, <3>3 DEF Finish
  <2> QED
    BY <2>5, <2>6 DEF Next
<1>2. Spec => [][Holds]_vars
  BY InitRouter, RouterStep, <1>1, PTL DEF Spec
<1> QED
  BY <1>2 DEF OpenHolds
(* TypeOK: an observation's age stops one past the window and an open      *)
(* breaker's at its timeout (router.go: prune, Allow); a call that tries a *)
(* provider is at a position of the list Route gave it and within its      *)
(* attempts (client.go: Complete, retry.go: withRetry).                    *)
THEOREM RouterTyped == Spec => []TypeOK
<1>1. RouterInv => TypeOK
  <2> SUFFICES ASSUME RouterInv PROVE TypeOK
    OBVIOUS
  <2>1. BreakerInv /\ CallInv /\ OpenAges
    BY DEF RouterInv
  <2>2. ASSUME NEW p \in Providers, NEW i \in DOMAIN obs[p]
        PROVE  obs[p][i].age \in 0..(Window + 1) /\ obs[p][i].ok \in BOOLEAN
    <3>1. obs[p] \in Seq(Observation) /\ DOMAIN obs[p] = 1..Len(obs[p])
      BY <2>1, LenProperties DEF BreakerInv
    <3>2. obs[p][i] \in Observation
      BY <3>1, ElementOfSeq
    <3> QED
      BY <3>2 DEF Observation
  <2>3. ASSUME NEW c \in Callers
        PROVE  /\ call[c].pc \in {"idle", "routing", "calling"}
               /\ call[c].pc = "calling" => /\ call[c].k \in DOMAIN call[c].avail
                                           /\ call[c].attempt \in 1..MaxRetries
    <3>1. call[c].pc \in {"idle", "routing", "calling"}
      BY <2>1 DEF CallInv, Calls, Idle, Routing, Calling
    <3>2. call[c].pc = "calling" => call[c] \in Calling
      BY <2>1, CallKinds
    <3>3. ASSUME NEW r \in Calling PROVE r.k \in DOMAIN r.avail /\ r.attempt \in 1..MaxRetries
      <4>1. /\ r.avail \in Seq(Providers) /\ r.k \in Nat \ {0} /\ r.k <= Len(r.avail)
            /\ r.attempt \in 1..MaxRetries
        BY DEF Calling
      <4>2. DOMAIN r.avail = 1..Len(r.avail) /\ Len(r.avail) \in Nat
        BY <4>1, LenProperties
      <4> DEFINE n == Len(r.avail)
                 k == r.k
      <4>3. k \in 1..n
        BY <4>1, <4>2
      <4> QED
        BY <4>1, <4>2, <4>3
    <3> QED
      BY <3>1, <3>2, <3>3
  <2> QED
    BY <2>1, <2>2, <2>3 DEF TypeOK, BreakerInv, States, OpenAges
<1> QED
  BY InitRouter, RouterStep, <1>1, PTL DEF Spec

-----------------------------------------------------------------------------
(* The stream.                                                             *)

(* Everything read has been sent, except what the producer still holds in  *)
(* its hand; an error delta comes last and after it the channel is closed; *)
(* and a close that loses a chunk is owed to a cancellation or a stall.    *)
Errors == {Failure, Stalled}
Types ==
    /\ StreamTypeOK
    /\ ch \in Seq(Int) /\ received \in Seq(Int)
InHand ==
    /\ pc \in {"next", "fail"} => Len(Delivered) = read
    /\ pc \in {"send", "stalled"} => Len(Delivered) = read - 1
    /\ pc = "stalled" => stalledOnce
InOrder ==
    \A i \in 1..Len(Delivered) :
       Delivered[i] = i \/ (pc = "closed" /\ i = Len(Delivered) /\ Delivered[i] \in Errors)
LostForAReason ==
    pc = "closed" /\ ~cancelled /\ ~stalledOnce =>
       \A i \in 1..read : i <= Len(Delivered) /\ Delivered[i] = i
SInv == Types /\ InHand /\ InOrder /\ LostForAReason

-----------------------------------------------------------------------------
(* Delivered is what was received, then what is in the channel.            *)
LEMMA DeliveredIs ==
    ASSUME Types
    PROVE  /\ Delivered \in Seq(Int)
           /\ Len(Delivered) = Len(received) + Len(ch)
           /\ \A i \in 1..Len(Delivered) : Delivered[i] =
                 IF i <= Len(received) THEN received[i] ELSE ch[i - Len(received)]
BY ConcatProperties DEF Types, Delivered

(* A send adds one delta at the end of what was delivered.                 *)
LEMMA Sending ==
    ASSUME Types, NEW e \in Int, ch' = Append(ch, e), received' = received
    PROVE  /\ ch' \in Seq(Int) /\ Len(ch') = Len(ch) + 1
           /\ Delivered' \in Seq(Int)
           /\ Len(Delivered') = Len(Delivered) + 1
           /\ \A i \in 1..Len(Delivered) : Delivered'[i] = Delivered[i]
           /\ Delivered'[Len(Delivered) + 1] = e
<1>1. Delivered' = Append(Delivered, e)
  <2>1. /\ Append(ch, e) = ch \o <<e>>
        /\ Append(Delivered, e) = Delivered \o <<e>>
    BY DeliveredIs, AppendIsConcat DEF Types
  <2>2. received \o (ch \o <<e>>) = (received \o ch) \o <<e>>
    BY ConcatAssociative DEF Types
  <2> QED
    BY <2>1, <2>2 DEF Delivered
<1>2. ch' \in Seq(Int) /\ Len(ch') = Len(ch) + 1
  BY AppendProperties DEF Types
<1> QED
  BY <1>1, <1>2, DeliveredIs, AppendProperties

(* The caller takes over what the channel holds: nothing else changes.     *)
LEMMA Receiving ==
    ASSUME Types, Receive
    PROVE  /\ ch' \in Seq(Int) /\ Len(ch') = Len(ch) - 1
           /\ received' \in Seq(Int)
           /\ Delivered' = Delivered
<1>1. /\ Head(ch) \in Int /\ Tail(ch) \in Seq(Int) /\ Len(Tail(ch)) = Len(ch) - 1
      /\ ch = <<Head(ch)>> \o Tail(ch)
  <2>1. ch \in Seq(Int) /\ ch # <<>>
    BY DEF Types, Receive
  <2>2. Head(ch) \in Int /\ Tail(ch) \in Seq(Int) /\ Len(Tail(ch)) = Len(ch) - 1
    BY <2>1, HeadTailProperties
  <2>3. /\ <<Head(ch)>> \o Tail(ch) \in Seq(Int)
        /\ Len(<<Head(ch)>> \o Tail(ch)) = Len(ch)
        /\ \A i \in 1..Len(ch) : (<<Head(ch)>> \o Tail(ch))[i] = ch[i]
    BY <2>1, <2>2, ConcatProperties, HeadTailProperties
  <2> QED
    BY <2>1, <2>2, <2>3, SeqEqual
<1>2. Append(received, Head(ch)) = received \o <<Head(ch)>>
  BY <1>1, AppendIsConcat DEF Types
<1>3. (received \o <<Head(ch)>>) \o Tail(ch) = received \o (<<Head(ch)>> \o Tail(ch))
  BY <1>1, ConcatAssociative DEF Types
<1>4. received' \in Seq(Int)
  BY <1>1, AppendProperties DEF Types, Receive
<1> QED
  BY <1>1, <1>2, <1>3, <1>4 DEF Receive, Delivered

-----------------------------------------------------------------------------
(* One lemma for each way a step can disturb the invariant: it moves the   *)
(* producer alone, it sends, or it receives.                               *)
LEMMA ProducerMoves ==
    ASSUME SInv,
           NextChunk \/ EndOfStream \/ StreamError \/ SendCancelled \/ Timeout
             \/ SendErrorCancelled \/ (ReportStall /\ ~Room) \/ Cancel
    PROVE  SInv'
<1> USE StreamAssumption DEF SInv, Types, StreamTypeOK, Errors, Close, Room
<1>1. Delivered' = Delivered
  BY DEF Delivered, NextChunk, EndOfStream, StreamError, SendCancelled, Timeout,
         SendErrorCancelled, ReportStall, Cancel
<1>2. Len(Delivered) \in Nat
  BY DeliveredIs, LenProperties
<1>3. Types'
  <2>1. ch' = ch /\ received' = received
    BY DEF NextChunk, EndOfStream, StreamError, SendCancelled, Timeout, SendErrorCancelled,
           ReportStall, Cancel
  <2>2. read' \in 0..MaxChunks
    BY DEF NextChunk, EndOfStream, StreamError, SendCancelled, Timeout, SendErrorCancelled,
           ReportStall, Cancel
  <2>3. pc' \in {"next", "send", "stalled", "fail", "closed"}
    BY DEF NextChunk, EndOfStream, StreamError, SendCancelled, Timeout, SendErrorCancelled,
           ReportStall, Cancel
  <2>4. cancelled' \in BOOLEAN /\ stalledOnce' \in BOOLEAN
    BY DEF NextChunk, EndOfStream, StreamError, SendCancelled, Timeout, SendErrorCancelled,
           ReportStall, Cancel
  <2> QED
    BY <2>1, <2>2, <2>3, <2>4
<1>4. InHand'
  BY <1>1, <1>2 DEF InHand, NextChunk, EndOfStream, StreamError, SendCancelled, Timeout,
                    SendErrorCancelled, ReportStall, Cancel
<1>5. InOrder'
  BY <1>1, <1>2 DEF InOrder, NextChunk, EndOfStream, StreamError, SendCancelled, Timeout,
                    SendErrorCancelled, ReportStall, Cancel
<1>6. LostForAReason'
  BY <1>1, <1>2 DEF LostForAReason, InHand, InOrder, NextChunk, EndOfStream, StreamError,
                    SendCancelled, Timeout, SendErrorCancelled, ReportStall, Cancel
<1> QED
  BY <1>3, <1>4, <1>5, <1>6

(* A chunk, an error or a stall that is sent comes last.                   *)
LEMMA ProducerSends ==
    ASSUME SInv, Send \/ SendError \/ (ReportStall /\ Room)
    PROVE  SInv'
<1> USE StreamAssumption DEF SInv, Types, StreamTypeOK, Errors, Close, Room, Failure, Stalled
<1> DEFINE delta == IF pc = "send" THEN read ELSE IF pc = "fail" THEN Failure ELSE Stalled
<1>1. delta \in Int /\ ch' = Append(ch, delta) /\ received' = received
  BY DEF Send, SendError, ReportStall
<1> HIDE DEF delta
<1>2. /\ ch' \in Seq(Int) /\ Len(ch') = Len(ch) + 1
      /\ Len(Delivered') = Len(Delivered) + 1
      /\ \A i \in 1..Len(Delivered) : Delivered'[i] = Delivered[i]
      /\ Delivered'[Len(Delivered) + 1] = delta
  BY <1>1, Sending
<1>3. Len(Delivered) \in Nat /\ Len(ch) \in Nat
  BY DeliveredIs, LenProperties
<1>4. Types'
  BY <1>1, <1>2, <1>3 DEF Send, SendError, ReportStall
<1>5. InHand'
  BY <1>2, <1>3 DEF InHand, Send, SendError, ReportStall
<1>6. \A i \in 1..Len(Delivered) : Delivered[i] = i
  BY DEF InOrder, Send, SendError, ReportStall
<1>7. InOrder'
  <2> SUFFICES ASSUME NEW i \in 1..Len(Delivered')
               PROVE  \/ Delivered'[i] = i
                      \/ pc' = "closed" /\ i = Len(Delivered') /\ Delivered'[i] \in Errors
    BY DEF InOrder
  <2>1. CASE i <= Len(Delivered)
    <3>1. i \in 1..Len(Delivered)
      BY <1>2, <1>3, <2>1
    <3> QED
      BY <1>2, <1>6, <3>1
  <2>2. CASE i = Len(Delivered) + 1
    <3>1. CASE pc = "send"
      BY <1>2, <1>3, <2>2, <3>1 DEF InHand, delta
    <3>2. CASE pc # "send"
      <4>1. pc' = "closed" /\ delta \in Errors
        BY <3>2 DEF delta, Send, SendError, ReportStall
      <4> QED
        BY <1>2, <1>3, <2>2, <4>1
    <3> QED
      BY <3>1, <3>2
  <2> QED
    BY <1>2, <1>3, <2>1, <2>2
<1>8. LostForAReason'
  <2> SUFFICES ASSUME pc' = "closed", ~stalledOnce', NEW i \in 1..read'
               PROVE  i <= Len(Delivered') /\ Delivered'[i] = i
    BY DEF LostForAReason
  <2>1. pc = "fail" /\ read' = read
    BY DEF InHand, Send, SendError, ReportStall
  <2>2. i \in 1..Len(Delivered)
    BY <1>3, <2>1 DEF InHand
  <2>3. Delivered'[i] = Delivered[i] /\ Delivered[i] = i
    BY <1>2, <1>6, <2>2
  <2>4. i <= Len(Delivered')
    BY <1>2, <1>3, <2>2
  <2> QED
    BY <2>3, <2>4
<1> QED
  BY <1>4, <1>5, <1>7, <1>8

(* A receive moves the channel's head to the caller.                       *)
LEMMA CallerReceives ==
    ASSUME SInv, Receive
    PROVE  SInv'
<1> USE DEF SInv, Types, StreamTypeOK
<1>1. /\ ch' \in Seq(Int) /\ Len(ch') = Len(ch) - 1
      /\ received' \in Seq(Int) /\ Delivered' = Delivered
  BY Receiving
<1>2. Len(ch) \in Nat
  BY LenProperties
<1>3. Types'
  BY <1>1, <1>2, StreamAssumption DEF Receive
<1>4. InHand' /\ InOrder' /\ LostForAReason'
  BY <1>1 DEF InHand, InOrder, LostForAReason, Receive
<1> QED
  BY <1>3, <1>4

(* At first nothing is read.                                               *)
LEMMA StreamInductive == StreamInit => SInv
<1> SUFFICES ASSUME StreamInit PROVE SInv
  OBVIOUS
<1>1. Types
  <2>1. ch \in Seq(Int) /\ received \in Seq(Int) /\ Len(ch) = 0
    BY EmptySeq DEF StreamInit
  <2>2. read \in 0..MaxChunks /\ Len(ch) <= Cap
    BY <2>1, StreamAssumption DEF StreamInit
  <2> QED
    BY <2>1, <2>2 DEF StreamInit, Types, StreamTypeOK
<1>2. Len(Delivered) = 0
  BY <1>1, DeliveredIs, EmptySeq DEF StreamInit
<1> QED
  BY <1>1, <1>2 DEF SInv, InHand, InOrder, LostForAReason, StreamInit

(* The producer and the caller keep chunks in order.                       *)
LEMMA StreamStep == SInv /\ [StreamNext]_streamVars => SInv'
<1> SUFFICES ASSUME SInv, [StreamNext]_streamVars PROVE SInv'
  OBVIOUS
<1>1. CASE Producer
  BY <1>1, ProducerMoves, ProducerSends DEF Producer
<1>2. CASE Receive
  BY <1>2, CallerReceives
<1>3. CASE Cancel
  BY <1>3, ProducerMoves
<1>4. CASE UNCHANGED streamVars
  BY <1>4 DEF SInv, Types, StreamTypeOK, InHand, InOrder, LostForAReason, Delivered, Errors, streamVars
<1> QED
  BY <1>1, <1>2, <1>3, <1>4 DEF StreamNext, Finished

(* The invariant says what StreamDelivers promises.                        *)
LEMMA InvariantDelivers == SInv => StreamDelivers
<1> SUFFICES ASSUME SInv PROVE StreamDelivers
  OBVIOUS
<1>1. DOMAIN Delivered = 1..Len(Delivered) /\ Len(Delivered) \in Nat
  BY DeliveredIs, LenProperties DEF SInv
<1>2. NoGap
  <2>1. ASSUME NEW i \in DOMAIN Delivered
        PROVE  /\ Delivered[i] \in Errors => i = Len(Delivered) /\ pc = "closed"
               /\ Delivered[i] \notin Errors => Delivered[i] = i
    <3>1. i \in Nat \ {0} /\ i \notin Errors
      BY <1>1 DEF Errors, Failure, Stalled
    <3> QED
      BY <1>1, <3>1 DEF SInv, InOrder
  <2> QED
    BY <2>1 DEF NoGap, Errors
<1>3. NothingLost
  <2> SUFFICES ASSUME pc \in {"next", "fail", "closed"}, ~cancelled, ~stalledOnce,
                      NEW i \in 1..read
               PROVE  i \in ToSet(Delivered)
    BY DEF NothingLost
  <2>1. read \in Nat
    BY StreamAssumption DEF SInv, Types, StreamTypeOK
  <2>2. i \in 1..Len(Delivered) /\ Delivered[i] = i
    <3>1. CASE pc = "closed"
      BY <1>1, <2>1, <3>1 DEF SInv, LostForAReason
    <3>2. CASE pc # "closed"
      <4>1. i \in 1..Len(Delivered)
        BY <1>1, <2>1, <3>2 DEF SInv, InHand
      <4> QED
        BY <3>2, <4>1 DEF SInv, InOrder
    <3> QED
      BY <3>1, <3>2
  <2> QED
    BY <1>1, <2>2 DEF ToSet
<1> QED
  BY <1>2, <1>3 DEF StreamDelivers, SInv, Types

(* runStream (stream.go): for every capacity, chunk count, reading pace,   *)
(* cancellation and stall, the caller gets the provider's chunks in order  *)
(* and without a gap, nothing after an error, and loses a chunk only to a  *)
(* cancellation or a stall.                                                *)
THEOREM Delivers == StreamSpec => []StreamDelivers
<1>1. StreamSpec => []SInv
  BY StreamInductive, StreamStep, PTL DEF StreamSpec
<1> QED
  BY <1>1, InvariantDelivers, PTL
=============================================================================
