---------------------------- MODULE FanoutProofs ----------------------------
(***************************************************************************)
(* Proofs about Fanout for every adapter set, pool limit and timeout.      *)
(***************************************************************************)
EXTENDS Fanout, SubsequenceLemmas, FiniteSetTheorems, SequenceTheorems,
        WellFoundedInduction, TLAPS

(* How slots, history and goroutines hang together: an index is settled    *)
(* exactly when its worker has returned or the supervisor has skipped it.  *)
SlotMatchesFate ==
    \A i \in Index :
        /\ fate[i] = "failed" <=> errs[i] # NoErr
        /\ worker[i] \in {"spawned", "searching"} => fate[i] = "pending"
        /\ worker[i] \in {"returning", "exited"} => fate[i] # "pending"
        /\ worker[i] = "none" /\ i < next => fate[i] # "pending"
        /\ i >= next => worker[i] = "none" /\ fate[i] = "pending"

Progress ==
    /\ pc = "go" => next <= N
    /\ pc # "done" => result = NoResult
    /\ pc = "done" => next > N /\ AllJoined /\ result = Assembled

IInv == TypeOK /\ SlotMatchesFate /\ Progress

(* There is an adapter, so indices run from 1.                             *)
LEMMA NIsPositive == N \in Nat \ {0} /\ Index = 1..N
BY FanoutAssumption DEF Index

(* DerivedDeadline is a time whenever the context is consulted.            *)
LEMMA DerivedDeadlineType ==
    ASSUME TypeOK
    PROVE  DerivedDeadline \in Nat
BY FanoutAssumption DEF TypeOK, DerivedDeadline

(* Every variable keeps its type.                                          *)
LEMMA TypeStep == TypeOK /\ Progress /\ [Next]_vars => TypeOK'
<1> SUFFICES ASSUME TypeOK, Progress, [Next]_vars PROVE TypeOK'
  OBVIOUS
<1> USE NIsPositive, FanoutAssumption
        DEF TypeOK, WorkerStates, ErrKinds, NoErr, clock, slots
<1>1. CASE Skip
  BY <1>1 DEF Skip, SkippedErrs
<1>2. CASE EnterGo
  BY <1>2 DEF EnterGo
<1>3. CASE Spawn
  <2>1. next' \in 1..(N + 1)
    BY <1>3 DEF Spawn, Progress
  <2> QED
    BY <1>3, <2>1 DEF Spawn
<1>4. CASE Return
  BY <1>4 DEF Return
<1>5. ASSUME NEW i \in Index, StartSearch(i) PROVE TypeOK'
  <2>1. DerivedDeadline \in Nat
    BY DerivedDeadlineType
  <2>2. CASE AdapterSet[i] \in Registered
    <3>1. /\ worker' \in [Index -> WorkerStates]
          /\ adapterDeadline' \in [Index -> Nat]
      <4>1. /\ worker' = [worker EXCEPT ![i] = "searching"]
            /\ adapterDeadline' = [adapterDeadline EXCEPT ![i] = DerivedDeadline]
        BY <1>5, <2>2 DEF StartSearch
      <4> QED
        BY <2>1, <4>1
    <3> QED
      BY <1>5, <2>2, <3>1 DEF StartSearch
  <2>3. CASE AdapterSet[i] \notin Registered
    <3>1. errs' \in [Index -> ErrKinds \cup {NoErr}] /\ worker' \in [Index -> WorkerStates]
      BY <1>5, <2>3 DEF StartSearch
    <3>2. fate' \in [Index -> {"pending", "answered", "failed"}]
      BY <1>5, <2>3 DEF StartSearch
    <3> QED
      BY <1>5, <2>3, <3>1, <3>2 DEF StartSearch
  <2> QED
    BY <2>2, <2>3
<1>6. ASSUME NEW i \in Index, SearchOK(i) PROVE TypeOK'
  BY <1>6 DEF SearchOK
<1>7. ASSUME NEW i \in Index, NEW kind \in {"search", "panic", "ctx"},
             SearchFailed(i, kind)
      PROVE  TypeOK'
  BY <1>7 DEF SearchFailed
<1>8. ASSUME NEW i \in Index, Exit(i) PROVE TypeOK'
  BY <1>8 DEF Exit, WorkerReturn
<1>9. CASE Cancel
  BY <1>9 DEF Cancel
<1>10. CASE Tick
  BY <1>10 DEF Tick
<1>11. CASE UNCHANGED vars
  BY <1>11 DEF vars
<1> QED
  BY <1>1, <1>2, <1>3, <1>4, <1>5, <1>6, <1>7, <1>8, <1>9, <1>10, <1>11
     DEF Next, Supervisor, Worker

(* Slots, history and goroutines stay in step.                             *)
LEMMA SlotStep == IInv /\ [Next]_vars => SlotMatchesFate'
<1> SUFFICES ASSUME IInv, [Next]_vars PROVE SlotMatchesFate'
  OBVIOUS
<1> USE NIsPositive DEF IInv, TypeOK, SlotMatchesFate, Progress, NoErr, clock, slots
<1>1. CASE Skip
  BY <1>1 DEF Skip, SkippedErrs
<1>2. CASE EnterGo
  BY <1>2 DEF EnterGo
<1>3. CASE Spawn
  BY <1>3 DEF Spawn
<1>4. CASE Return
  BY <1>4 DEF Return
<1>5. ASSUME NEW i \in Index, StartSearch(i) PROVE SlotMatchesFate'
  <2>1. worker[i] = "spawned" /\ next' = next /\ fate[i] = "pending" /\ i < next
    BY <1>5 DEF StartSearch
  <2>2. CASE worker' = [worker EXCEPT ![i] = "searching"] /\ UNCHANGED <<errs, fate>>
    BY <2>1, <2>2
  <2>3. CASE /\ worker' = [worker EXCEPT ![i] = "returning"]
             /\ errs' = [errs EXCEPT ![i] = "notfound"]
             /\ fate' = [fate EXCEPT ![i] = "failed"]
    BY <2>1, <2>3
  <2> QED
    BY <1>5, <2>2, <2>3 DEF StartSearch
<1>6. ASSUME NEW i \in Index, SearchOK(i) PROVE SlotMatchesFate'
  BY <1>6 DEF SearchOK
<1>7. ASSUME NEW i \in Index, NEW kind \in {"search", "panic", "ctx"},
             SearchFailed(i, kind)
      PROVE  SlotMatchesFate'
  BY <1>7 DEF SearchFailed
<1>8. ASSUME NEW i \in Index, Exit(i) PROVE SlotMatchesFate'
  BY <1>8 DEF Exit
<1>9. CASE Cancel
  BY <1>9 DEF Cancel
<1>10. CASE Tick
  BY <1>10 DEF Tick
<1>11. CASE UNCHANGED vars
  BY <1>11 DEF vars
<1> QED
  BY <1>1, <1>2, <1>3, <1>4, <1>5, <1>6, <1>7, <1>8, <1>9, <1>10, <1>11
     DEF Next, Supervisor, Worker

(* The result is absent until the last step and then never changes: once   *)
(* the supervisor is done no goroutine is left that could write a slot.    *)
LEMMA ProgressStep == IInv /\ [Next]_vars => Progress'
<1> SUFFICES ASSUME IInv, [Next]_vars PROVE Progress'
  OBVIOUS
<1> USE NIsPositive DEF IInv, TypeOK, SlotMatchesFate, Progress, clock, slots
<1> DEFINE Frame == errs' = errs /\ docs' = docs
<1>a. ASSUME Frame PROVE Assembled' = Assembled
  BY <1>a DEF Assembled, MergedDocs, Failed
<1>b. ASSUME pc = "done", NEW i \in Index PROVE worker[i] \notin {"spawned", "searching", "returning"}
  BY <1>b DEF AllJoined, Live
<1>1. CASE Skip
  BY <1>1 DEF Skip
<1>2. CASE EnterGo
  BY <1>2 DEF EnterGo
<1>3. CASE Spawn
  BY <1>3 DEF Spawn
<1>4. CASE Return
  BY <1>4, <1>a DEF Return, AllJoined, Live
<1>5. ASSUME NEW i \in Index, StartSearch(i) PROVE Progress'
  BY <1>5, <1>b DEF StartSearch
<1>6. ASSUME NEW i \in Index, SearchOK(i) PROVE Progress'
  BY <1>6, <1>b DEF SearchOK
<1>7. ASSUME NEW i \in Index, NEW kind \in {"search", "panic", "ctx"},
             SearchFailed(i, kind)
      PROVE  Progress'
  BY <1>7, <1>b DEF SearchFailed
<1>8. ASSUME NEW i \in Index, Exit(i) PROVE Progress'
  BY <1>8, <1>b DEF Exit
<1>9. CASE Cancel
  BY <1>9, <1>a DEF Cancel
<1>10. CASE Tick
  BY <1>10, <1>a DEF Tick
<1>11. CASE UNCHANGED vars
  BY <1>11, <1>a DEF vars, AllJoined, Live
<1> QED
  BY <1>1, <1>2, <1>3, <1>4, <1>5, <1>6, <1>7, <1>8, <1>9, <1>10, <1>11
     DEF Next, Supervisor, Worker

(* Before the first launch every slot is untouched.                        *)
LEMMA InitIInv == Init => IInv
<1> SUFFICES ASSUME Init PROVE IInv
  OBVIOUS
<1> USE NIsPositive, FanoutAssumption DEF Init
<1>1. TypeOK
  <2>1. now \in 0..MaxNow /\ next \in 1..(N + 1) /\ inflight \in Int
    OBVIOUS
  <2>2. /\ worker \in [Index -> WorkerStates]
        /\ adapterDeadline \in [Index -> Nat]
        /\ docs \in [Index -> Replies \cup {<<>>}]
    BY DEF WorkerStates
  <2>3. /\ errs \in [Index -> ErrKinds \cup {NoErr}]
        /\ fate \in [Index -> {"pending", "answered", "failed"}]
    BY DEF NoErr, ErrKinds
  <2> QED
    BY <2>1, <2>2, <2>3 DEF TypeOK
<1>2. SlotMatchesFate
  BY DEF SlotMatchesFate, NoErr
<1>3. Progress
  BY DEF Progress
<1> QED
  BY <1>1, <1>2, <1>3 DEF IInv

(* Types, slots and progress of one Dispatch hold in every state           *)
(* (dispatch.go), whatever the workers' order.                             *)
THEOREM Inductive == Spec => []IInv
<1>1. IInv /\ [Next]_vars => IInv'
  BY TypeStep, SlotStep, ProgressStep DEF IInv
<1> QED
  BY InitIInv, <1>1, PTL DEF Spec

(* Type correctness of the dispatcher.                                     *)
THEOREM TypeCorrect == Spec => []TypeOK
<1>1. IInv => TypeOK
  BY DEF IInv
<1> QED
  BY Inductive, <1>1, PTL

(* The result counts as successes exactly the adapters whose Search        *)
(* returned, and names all the others.                                     *)
THEOREM Truthful == Spec => []ResultIsTruthful
<1>1. IInv => ResultIsTruthful
  <2> SUFFICES ASSUME IInv, result # NoResult PROVE ResultIsTruthful
    BY DEF ResultIsTruthful
  <2> USE NIsPositive
  <2>1. pc = "done" /\ result = Assembled /\ next = N + 1 /\ Live = {}
    BY DEF IInv, TypeOK, Progress, AllJoined
  <2>2. \A i \in Index : fate[i] # "pending"
    <3> SUFFICES ASSUME NEW i \in Index PROVE fate[i] # "pending"
      OBVIOUS
    <3>1. worker[i] \in {"none", "exited"}
      BY <2>1 DEF IInv, TypeOK, WorkerStates, Live
    <3> QED
      BY <2>1, <3>1 DEF IInv, SlotMatchesFate
  <2>3. Failed = {i \in Index : fate[i] = "failed"}
    BY DEF Failed, IInv, SlotMatchesFate
  <2>4. Index \ Failed = {i \in Index : fate[i] = "answered"}
    BY <2>2, <2>3 DEF IInv, TypeOK
  <2>5. IsFiniteSet(Index) /\ Cardinality(Index) = N
    BY FS_Interval
  <2>6. /\ Cardinality(Index \ Failed) = Cardinality(Index) - Cardinality(Index \cap Failed)
        /\ Cardinality(Failed) \in Nat
        /\ Index \cap Failed = Failed
    <3>1. Failed \subseteq Index /\ Index \cap Failed = Failed
      BY DEF Failed
    <3>2. IsFiniteSet(Failed)
      BY <2>5, <3>1, FS_Subset
    <3> QED
      BY <2>5, <3>1, <3>2, FS_Difference, FS_CardinalityType
  <2>7. /\ result.successCount = Cardinality(Index \ Failed)
        /\ result.errorCount = Cardinality(Failed)
        /\ result.adapterCount = N
        /\ DOMAIN result.adapterErrors = {AdapterSet[i] : i \in Failed}
    BY <2>1 DEF Assembled
  <2>8. DOMAIN result.adapterErrors
            = {AdapterSet[i] : i \in {j \in Index : fate[j] = "failed"}}
    BY <2>3, <2>7
  <2>9. result.successCount = Cardinality({i \in Index : fate[i] = "answered"})
    BY <2>4, <2>7
  <2>10. result.successCount + result.errorCount = result.adapterCount
    <3>1. Cardinality(Failed) \in Nat /\ N \in Nat
      BY <2>6
    <3>2. result.successCount = N - Cardinality(Failed)
      BY <2>5, <2>6, <2>7
    <3> QED
      BY <2>7, <3>1, <3>2
  <2> QED
    BY <2>8, <2>9, <2>10 DEF ResultIsTruthful
<1> QED
  BY Inductive, <1>1, PTL

-----------------------------------------------------------------------------
(* The pool and its gauge.                                                 *)

Gauge == inflight = Cardinality(Busy) /\ Cardinality(Live) <= MaxParallel

(* No more workers than adapters.                                          *)
LEMMA WorkersAreFinite == IsFiniteSet(Live) /\ IsFiniteSet(Busy)
<1>1. IsFiniteSet(Index)
  BY NIsPositive, FS_Interval
<1>2. Live \subseteq Index /\ Busy \subseteq Index
  BY DEF Live, Busy
<1> QED
  BY <1>1, <1>2, FS_Subset

(* Launch and exit move the gauge with the set of busy workers.            *)
LEMMA GaugeStep == IInv /\ Gauge /\ [Next]_vars => Gauge'
<1> SUFFICES ASSUME IInv, Gauge, [Next]_vars PROVE Gauge'
  OBVIOUS
<1> USE NIsPositive
<1>a. Cardinality(Live) \in Nat /\ Cardinality(Busy) \in Nat
  BY WorkersAreFinite, FS_CardinalityType
<1>b. ASSUME inflight' = inflight, worker' = worker PROVE Gauge'
  BY <1>b DEF Gauge, Live, Busy
<1>1. CASE Skip
  BY <1>1, <1>b DEF Skip
<1>2. CASE EnterGo
  BY <1>2, <1>b DEF EnterGo
<1>3. CASE Spawn
  <2>1. next \in Index /\ worker[next] = "none" /\ worker \in [Index -> WorkerStates]
    BY <1>3 DEF Spawn, IInv, TypeOK, SlotMatchesFate, Progress
  <2>2. Live' = Live \cup {next} /\ next \notin Live /\ Busy' = Busy
    BY <1>3, <2>1 DEF Spawn, Live, Busy
  <2>3. Cardinality(Live') = Cardinality(Live) + 1
    BY <2>2, WorkersAreFinite, FS_AddElement
  <2>4. Cardinality(Live) + 1 <= MaxParallel /\ inflight' = inflight
    BY <1>3, <1>a, FanoutAssumption DEF Spawn, PoolHasRoom
  <2> QED
    BY <2>2, <2>3, <2>4 DEF Gauge
<1>4. CASE Return
  BY <1>4, <1>b DEF Return
<1>5. ASSUME NEW i \in Index, StartSearch(i) PROVE Gauge'
  <2>1. worker[i] = "spawned" /\ worker \in [Index -> WorkerStates]
    BY <1>5 DEF StartSearch, IInv, TypeOK
  <2>2. Live' = Live /\ Busy' = Busy \cup {i} /\ i \notin Busy
    BY <1>5, <2>1 DEF StartSearch, Live, Busy
  <2>3. Cardinality(Busy') = Cardinality(Busy) + 1
    BY <2>2, WorkersAreFinite, FS_AddElement
  <2> QED
    BY <1>5, <2>2, <2>3 DEF Gauge, StartSearch
<1>6. ASSUME NEW i \in Index, SearchOK(i) PROVE Gauge'
  <2>1. Live' = Live /\ Busy' = Busy
    BY <1>6 DEF SearchOK, Live, Busy, IInv, TypeOK
  <2> QED
    BY <1>6, <2>1 DEF Gauge, SearchOK
<1>7. ASSUME NEW i \in Index, NEW kind \in {"search", "panic", "ctx"},
             SearchFailed(i, kind)
      PROVE  Gauge'
  <2>1. Live' = Live /\ Busy' = Busy
    BY <1>7 DEF SearchFailed, Live, Busy, IInv, TypeOK
  <2> QED
    BY <1>7, <2>1 DEF Gauge, SearchFailed
<1>8. ASSUME NEW i \in Index, Exit(i) PROVE Gauge'
  <2>1. /\ Live' = Live \ {i} /\ i \in Live
        /\ Busy' = Busy \ {i} /\ i \in Busy
    BY <1>8 DEF Exit, Live, Busy, IInv, TypeOK
  <2>2. /\ Cardinality(Live') = Cardinality(Live) - 1
        /\ Cardinality(Busy') = Cardinality(Busy) - 1
    BY <2>1, WorkersAreFinite, FS_RemoveElement
  <2> QED
    BY <1>8, <1>a, <2>2, FanoutAssumption DEF Gauge, Exit
<1>9. CASE Cancel
  BY <1>9, <1>b DEF Cancel
<1>10. CASE Tick
  BY <1>10, <1>b DEF Tick
<1>11. CASE UNCHANGED vars
  BY <1>11, <1>b DEF vars
<1> QED
  BY <1>1, <1>2, <1>3, <1>4, <1>5, <1>6, <1>7, <1>8, <1>9, <1>10, <1>11
     DEF Next, Supervisor, Worker

(* The gauge equals the number of running workers, never passes the limit  *)
(* of the pool and is zero when Dispatch has returned.                     *)
THEOREM PoolIsBounded == Spec => []InflightBounded
<1>1. Init => Gauge
  <2> SUFFICES ASSUME Init PROVE Gauge
    OBVIOUS
  <2>1. Live = {} /\ Busy = {}
    BY DEF Init, Live, Busy
  <2> QED
    BY <2>1, FS_EmptySet, FanoutAssumption DEF Init, Gauge
<1>2. IInv /\ Gauge => InflightBounded
  <2> SUFFICES ASSUME IInv, Gauge PROVE InflightBounded
    OBVIOUS
  <2>1. ASSUME pc = "done" PROVE inflight = 0
    <3>1. Busy = {}
      BY <2>1 DEF IInv, Progress, AllJoined, Live, Busy
    <3> QED
      BY <3>1, FS_EmptySet DEF Gauge
  <2> QED
    BY <2>1 DEF Gauge, InflightBounded
<1> QED
  BY Inductive, <1>1, <1>2, GaugeStep, PTL DEF Spec

-----------------------------------------------------------------------------
(* A slot that was settled is not written again.                           *)
THEOREM WrittenOnce == Spec => SlotsWrittenOnce
<1>1. IInv /\ [Next]_vars =>
         [\A i \in Index : fate[i] # "pending" =>
              fate'[i] = fate[i] /\ errs'[i] = errs[i] /\ docs'[i] = docs[i]]_vars
  <2> SUFFICES ASSUME IInv, Next, NEW k \in Index, fate[k] # "pending"
               PROVE  fate'[k] = fate[k] /\ errs'[k] = errs[k] /\ docs'[k] = docs[k]
    BY DEF vars
  <2> USE NIsPositive DEF IInv, TypeOK, SlotMatchesFate, slots
  <2>1. CASE Skip
    BY <2>1 DEF Skip, SkippedErrs
  <2>2. CASE EnterGo \/ Spawn \/ Return \/ Cancel \/ Tick
    BY <2>2 DEF EnterGo, Spawn, Return, Cancel, Tick
  <2>3. ASSUME NEW i \in Index, Worker(i)
        PROVE  fate'[k] = fate[k] /\ errs'[k] = errs[k] /\ docs'[k] = docs[k]
    <3>1. CASE StartSearch(i)
      BY <3>1 DEF StartSearch
    <3>2. CASE SearchOK(i)
      BY <3>2 DEF SearchOK
    <3>3. ASSUME NEW kind \in {"search", "panic", "ctx"}, SearchFailed(i, kind)
          PROVE  fate'[k] = fate[k] /\ errs'[k] = errs[k] /\ docs'[k] = docs[k]
      BY <3>3 DEF SearchFailed
    <3>4. CASE Exit(i)
      BY <3>4 DEF Exit
    <3> QED
      BY <2>3, <3>1, <3>2, <3>3, <3>4 DEF Worker
  <2> QED
    BY <2>1, <2>2, <2>3 DEF Next, Supervisor
<1> QED
  BY Inductive, <1>1, PTL DEF Spec, SlotsWrittenOnce

-----------------------------------------------------------------------------
(* Dispatch implements its promise.                                        *)

(* The reply the caller reads off an assembled result.                     *)
LEMMA AssembledReply ==
    ASSUME IInv, AllJoined, next > N
    PROVE  /\ ReplyOf(Assembled) = [ok     |-> {i \in Index : fate[i] = "answered"},
                                    failed |-> {i \in Index : fate[i] = "failed"}]
           /\ \A i \in Index : fate[i] # "pending"
<1> USE NIsPositive
<1>1. \A i \in Index : fate[i] # "pending"
  <2> SUFFICES ASSUME NEW i \in Index PROVE fate[i] # "pending"
    OBVIOUS
  <2>1. worker[i] \in {"none", "exited"}
    BY DEF IInv, TypeOK, WorkerStates, AllJoined, Live
  <2>2. i < next
    BY DEF IInv, TypeOK
  <2> QED
    BY <2>1, <2>2 DEF IInv, SlotMatchesFate
<1>2. Assembled # NoResult
  <2>1. Assembled.adapterCount = N /\ NoResult.adapterCount = 0
    BY DEF Assembled, NoResult
  <2> QED
    BY <2>1
<1>3. DOMAIN Assembled.adapterErrors = {AdapterSet[j] : j \in Failed}
  BY DEF Assembled
<1>4. \A i \in Index : AdapterSet[i] \in DOMAIN Assembled.adapterErrors <=> i \in Failed
  <2> SUFFICES ASSUME NEW i \in Index
               PROVE  AdapterSet[i] \in {AdapterSet[j] : j \in Failed} <=> i \in Failed
    BY <1>3
  <2> QED
    BY FanoutAssumption DEF Failed
<1>5. \A i \in Index : (i \in Failed <=> fate[i] = "failed")
                       /\ (i \notin Failed <=> fate[i] = "answered")
  BY <1>1 DEF Failed, IInv, TypeOK, SlotMatchesFate
<1>6. {i \in Index : AdapterSet[i] \in DOMAIN Assembled.adapterErrors}
          = {i \in Index : fate[i] = "failed"}
  BY <1>4, <1>5
<1>7. {i \in Index : AdapterSet[i] \notin DOMAIN Assembled.adapterErrors}
          = {i \in Index : fate[i] = "answered"}
  BY <1>4, <1>5
<1> QED
  BY <1>1, <1>2, <1>6, <1>7 DEF ReplyOf

(* Dispatch keeps its abstract promise: each step settles one adapter or   *)
(* is invisible, and the return names each adapter's fate (dispatch.go,    *)
(* result.go).                                                             *)
THEOREM Refinement == Spec => ImplementsPromise
<1> USE NIsPositive
<1>1. Init => Promise!Init
  BY DEF Init, Promise!Init, Promise!NoReply, ReplyOf
<1>2. IInv /\ [Next]_vars => [Promise!Next]_(Promise!pvars)
  <2> SUFFICES ASSUME IInv, [Next]_vars PROVE [Promise!Next]_(Promise!pvars)
    OBVIOUS
  <2> USE DEF IInv, TypeOK, SlotMatchesFate
  <2>a. ASSUME UNCHANGED <<fate, result>> PROVE UNCHANGED Promise!pvars
    BY <2>a DEF Promise!pvars, ReplyOf
  <2>b. ASSUME NEW i \in Index, fate[i] = "pending", UNCHANGED result,
               \/ fate' = [fate EXCEPT ![i] = "answered"]
               \/ fate' = [fate EXCEPT ![i] = "failed"]
        PROVE  Promise!Next
    <3>1. ReplyOf(result)' = ReplyOf(result)
      BY <2>b DEF ReplyOf
    <3> QED
      BY <2>b, <3>1 DEF Promise!Next, Promise!Settle
  <2>1. CASE Skip
    <3>1. next \in Index /\ fate[next] = "pending"
      BY <2>1 DEF Skip
    <3> QED
      BY <2>1, <2>b, <3>1 DEF Skip
  <2>2. CASE EnterGo \/ Spawn
    BY <2>2, <2>a DEF EnterGo, Spawn, slots
  <2>3. CASE Return
    <3>1. result = NoResult /\ result' = Assembled /\ UNCHANGED fate
      BY <2>3 DEF Return, Progress, slots
    <3>2. ReplyOf(result) = Promise!NoReply
      BY <3>1 DEF ReplyOf, Promise!NoReply
    <3>3. ReplyOf(result)' = ReplyOf(Assembled)
      BY <3>1 DEF ReplyOf
    <3>4. AllJoined /\ next > N
      BY <2>3 DEF Return
    <3> QED
      BY <3>1, <3>2, <3>3, <3>4, AssembledReply DEF Promise!Next, Promise!Return
  <2>4. ASSUME NEW i \in Index, StartSearch(i) PROVE [Promise!Next]_(Promise!pvars)
    BY <2>4, <2>a, <2>b DEF StartSearch, slots
  <2>5. ASSUME NEW i \in Index, SearchOK(i) PROVE [Promise!Next]_(Promise!pvars)
    BY <2>5, <2>b DEF SearchOK
  <2>6. ASSUME NEW i \in Index, NEW kind \in {"search", "panic", "ctx"},
               SearchFailed(i, kind)
        PROVE  [Promise!Next]_(Promise!pvars)
    BY <2>6, <2>b DEF SearchFailed
  <2>7. ASSUME NEW i \in Index, Exit(i) PROVE [Promise!Next]_(Promise!pvars)
    BY <2>7, <2>a DEF Exit, slots
  <2>8. CASE Cancel \/ Tick \/ UNCHANGED vars
    BY <2>8, <2>a DEF Cancel, Tick, vars, slots
  <2> QED
    BY <2>1, <2>2, <2>3, <2>4, <2>5, <2>6, <2>7, <2>8 DEF Next, Supervisor, Worker
<1> QED
  BY Inductive, <1>1, <1>2, PTL DEF Spec, ImplementsPromise, Promise!Spec

-----------------------------------------------------------------------------
(* The merge of the documents: what the two folds over them compute.       *)

(* What it is, prefix by prefix, for each of the two steps of the merge.   *)
LEMMA SortRuns ==
    ASSUME NEW V, NEW s \in Seq(V)
    PROVE  \E h : /\ h[0] = <<>> /\ SortDocs(s) = h[Len(s)]
                  /\ \A k \in 1..Len(s) : h[k] = PlaceDoc(h[k - 1], s[k])
<1> DEFINE Solves(f) == f = [S \in SUBSET DOMAIN s |->
                               IF S = {} THEN <<>> ELSE PlaceDoc(f[S \ {Max(S)}], s[Max(S)])]
           it == CHOOSE f : Solves(f)
           Acc == Seq(V)
           G == [a \in Acc |-> [d \in V |-> PlaceDoc(a, d)]]
<1>0. Len(s) \in Nat /\ DOMAIN s = 1..Len(s) /\ \A i \in 1..Len(s) : s[i] \in V
  OBVIOUS
<1>1. ASSUME NEW a \in Acc, NEW d \in V PROVE PlaceDoc(a, d) \in Acc
  <2>1. PICK k : k = Cardinality({i \in DOMAIN a : ~DocLess(d, a[i])})
    OBVIOUS
  <2>2. k \in Nat /\ k <= Len(a)
    <3> DEFINE I == {i \in DOMAIN a : ~DocLess(d, a[i])}
    <3>1. I \subseteq 1..Len(a) /\ Len(a) \in Nat
      OBVIOUS
    <3> HIDE DEF I
    <3>2. IsFiniteSet(1..Len(a)) /\ Cardinality(1..Len(a)) = Len(a)
      BY <3>1, FirstNumbers
    <3> QED
      BY <2>1, <3>1, <3>2, FS_Subset, FS_CardinalityType DEF I
  <2>3. PlaceDoc(a, d) = SubSeq(a, 1, k) \o <<d>> \o SubSeq(a, k + 1, Len(a))
    BY <2>1 DEF PlaceDoc
  <2>4. SubSeq(a, 1, k) \in Seq(V) /\ SubSeq(a, k + 1, Len(a)) \in Seq(V) /\ <<d>> \in Seq(V)
    BY <2>2
  <2> QED
    BY <2>3, <2>4
<1>2. G \in [Acc -> [V -> Acc]] /\ <<>> \in Acc
  BY <1>1
<1>3. \E f : Solves(f)
  <2>1. PICK f \in [SUBSET DOMAIN s -> Acc] :
           \A S \in SUBSET DOMAIN s :
              f[S] = IF S = {} THEN <<>> ELSE G[f[S \ {Max(S)}]][s[Max(S)]]
    <3> HIDE DEF G, Acc
    <3>1. PICK base : base = <<>>
      OBVIOUS
    <3>2. base \in Acc
      BY <1>2, <3>1
    <3>3. \E f : Unwinds(f, Acc, G, base, s)
      BY <1>2, <3>2, FoldExists
    <3> QED
      BY <3>1, <3>3 DEF Unwinds
  <2>2. ASSUME NEW S \in SUBSET DOMAIN s, S # {}
        PROVE  G[f[S \ {Max(S)}]][s[Max(S)]] = PlaceDoc(f[S \ {Max(S)}], s[Max(S)])
    <3>1. Max(S) \in S
      BY <1>0, <2>2, MaxIs
    <3>2. f[S \ {Max(S)}] \in Acc /\ s[Max(S)] \in V
      BY <1>0, <3>1
    <3> HIDE DEF Acc
    <3> QED
      BY <3>2
  <2>3. Solves(f)
    <3> HIDE DEF G
    <3> QED
      BY <2>1, <2>2
  <2> QED
    BY <2>3
<1>4. Solves(it)
  <2> HIDE DEF Solves
  <2> QED
    BY <1>3
<1>5. SortDocs(s) = it[DOMAIN s]
  BY DEF SortDocs, FoldLeft, MapThenFoldSet
<1> HIDE DEF it
<1> DEFINE h == [k \in 0..Len(s) |-> it[1..k]]
<1>6. h[0] = <<>>
  <2>1. 1..0 = {}
    OBVIOUS
  <2> QED
    BY <1>0, <1>4, <2>1
<1>7. ASSUME NEW k \in 1..Len(s) PROVE h[k] = PlaceDoc(h[k - 1], s[k])
  <2>1. k \in Nat \ {0} /\ k - 1 \in 0..Len(s) /\ k \in 0..Len(s) /\ 1..k \in SUBSET DOMAIN s
    BY <1>0
  <2>2. Max(1..k) = k /\ (1..k) \ {k} = 1..k - 1 /\ 1..k # {}
    BY <2>1, MaxFirst
  <2>3. it[1..k] = PlaceDoc(it[1..k - 1], s[k])
    BY <1>4, <2>1, <2>2
  <2> QED
    BY <2>1, <2>3
<1>8. h[Len(s)] = it[DOMAIN s]
  BY <1>0
<1> HIDE DEF h
<1> QED
  BY <1>5, <1>6, <1>7, <1>8

(* The same for the pass with the keys already seen.                       *)
LEMMA DedupRuns ==
    ASSUME NEW V, NEW s \in Seq(V)
    PROVE  \E h : /\ h[0] = [seen |-> {}, out |-> <<>>, dropped |-> 0] /\ DedupDocs(s) = h[Len(s)]
                  /\ \A k \in 1..Len(s) : h[k] = DedupStep(h[k - 1], s[k])
<1> DEFINE none == [seen |-> {}, out |-> <<>>, dropped |-> 0]
           Solves(f) == f = [S \in SUBSET DOMAIN s |->
                               IF S = {} THEN none ELSE DedupStep(f[S \ {Max(S)}], s[Max(S)])]
           it == CHOOSE f : Solves(f)
           Keys == {d.key : d \in V}
           Acc == [seen : SUBSET Keys, out : Seq(V), dropped : Nat]
           G == [a \in Acc |-> [d \in V |-> DedupStep(a, d)]]
<1>0. Len(s) \in Nat /\ DOMAIN s = 1..Len(s) /\ \A i \in 1..Len(s) : s[i] \in V
  OBVIOUS
<1>1. ASSUME NEW a \in Acc, NEW d \in V PROVE DedupStep(a, d) \in Acc
  <2>1. d.key \in Keys /\ a.seen \cup {d.key} \in SUBSET Keys /\ Append(a.out, d) \in Seq(V)
        /\ a.dropped + 1 \in Nat
    OBVIOUS
  <2> HIDE DEF Keys
  <2>2. a = [seen |-> a.seen, out |-> a.out, dropped |-> a.dropped] /\ a.seen \in SUBSET Keys
        /\ a.out \in Seq(V) /\ a.dropped \in Nat
    OBVIOUS
  <2> QED
    BY <2>1, <2>2 DEF DedupStep
<1>2. G \in [Acc -> [V -> Acc]] /\ none \in Acc
  <2>1. none \in Acc
    OBVIOUS
  <2> HIDE DEF Acc, none
  <2> QED
    BY <1>1, <2>1
<1>3. \E f : Solves(f)
  <2>1. PICK f \in [SUBSET DOMAIN s -> Acc] :
           \A S \in SUBSET DOMAIN s :
              f[S] = IF S = {} THEN none ELSE G[f[S \ {Max(S)}]][s[Max(S)]]
    <3> HIDE DEF G, Acc, none
    <3>1. PICK base : base = none
      OBVIOUS
    <3>2. base \in Acc
      BY <1>2, <3>1
    <3>3. \E f : Unwinds(f, Acc, G, base, s)
      BY <1>2, <3>2, FoldExists
    <3> QED
      BY <3>1, <3>3 DEF Unwinds
  <2>2. ASSUME NEW S \in SUBSET DOMAIN s, S # {}
        PROVE  G[f[S \ {Max(S)}]][s[Max(S)]] = DedupStep(f[S \ {Max(S)}], s[Max(S)])
    <3>1. Max(S) \in S
      BY <1>0, <2>2, MaxIs
    <3>2. f[S \ {Max(S)}] \in Acc /\ s[Max(S)] \in V
      BY <1>0, <3>1
    <3> HIDE DEF Acc, none
    <3> QED
      BY <3>2
  <2>3. Solves(f)
    <3> HIDE DEF G, none
    <3> QED
      BY <2>1, <2>2
  <2> QED
    BY <2>3
<1>4. Solves(it)
  <2> HIDE DEF Solves
  <2> QED
    BY <1>3
<1>5. DedupDocs(s) = it[DOMAIN s]
  BY DEF DedupDocs, FoldLeft, MapThenFoldSet
<1> HIDE DEF it, none
<1> DEFINE h == [k \in 0..Len(s) |-> it[1..k]]
<1>6. h[0] = none
  <2>1. 1..0 = {}
    OBVIOUS
  <2> QED
    BY <1>0, <1>4, <2>1
<1>7. ASSUME NEW k \in 1..Len(s) PROVE h[k] = DedupStep(h[k - 1], s[k])
  <2>1. k \in Nat \ {0} /\ k - 1 \in 0..Len(s) /\ k \in 0..Len(s) /\ 1..k \in SUBSET DOMAIN s
    BY <1>0
  <2>2. Max(1..k) = k /\ (1..k) \ {k} = 1..k - 1 /\ 1..k # {}
    BY <2>1, MaxFirst
  <2>3. it[1..k] = DedupStep(it[1..k - 1], s[k])
    BY <1>4, <2>1, <2>2
  <2> QED
    BY <2>1, <2>3
<1>8. h[Len(s)] = it[DOMAIN s]
  BY <1>0
<1> HIDE DEF h
<1> QED
  BY <1>5, <1>6, <1>7, <1>8 DEF none

-----------------------------------------------------------------------------
(* Documents can be compared when their fields are numbers.                *)
Comparable(V) == \A d \in V : d.score \in Int /\ d.src \in Int /\ d.at \in Int

(* The comparison is a weak order.                                         *)
LEMMA DocOrder ==
    ASSUME NEW V, Comparable(V), NEW a \in V, NEW b \in V, NEW c \in V
    PROVE  /\ ~(DocLess(a, b) /\ DocLess(b, a))
           /\ DocLess(a, b) => DocLess(a, c) \/ DocLess(c, b)
BY DEF Comparable, DocLess

(* Numbers from 1 to n that hold with each all before it are the first.    *)
LEMMA FirstOnes ==
    ASSUME NEW n \in Nat, NEW I, I \subseteq 1..n, \A i \in I : \A j \in 1..i : j \in I
    PROVE  Cardinality(I) \in 0..n /\ I = 1..Cardinality(I)
<1> DEFINE U == {k \in Nat \ {0} : k \notin I}
<1>1. U \subseteq Nat /\ n + 1 \in U
  OBVIOUS
<1>2. PICK u \in U : \A v \in U : <<v, u>> \notin OpToRel(<, Nat)
  <2> HIDE DEF U
  <2> QED
    BY <1>1, NatLessThanWellFounded, WFMin
<1>3. \A v \in U : ~(v < u)
  BY <1>2 DEF OpToRel
<1>4. u \in Nat \ {0} /\ u \notin I /\ u <= n + 1
  BY <1>1, <1>3
<1>5. \A i \in 1..u - 1 : i \in I
  BY <1>3, <1>4
<1>6. \A i \in I : i \in 1..u - 1
  <2> TAKE i \in I
  <2>1. i \in Nat \ {0} /\ (u <= i => u \in 1..i)
    BY <1>4
  <2>2. ~(u <= i)
    BY <1>4, <2>1
  <2> QED
    BY <1>4, <2>1, <2>2
<1>7. PICK m : m = u - 1
  OBVIOUS
<1>8. m \in 0..n /\ (\A i \in 1..m : i \in I) /\ \A i \in I : i \in 1..m
  BY <1>4, <1>5, <1>6, <1>7
<1>9. I = 1..m
  BY <1>8
<1>10. Cardinality(I) = m
  BY <1>8, <1>9, FirstNumbers
<1> QED
  BY <1>8, <1>9, <1>10

(* One element between two sequences.                                      *)
LEMMA Between ==
    ASSUME NEW V, NEW a \in Seq(V), NEW b \in Seq(V), NEW d \in V, NEW u, u = a \o <<d>> \o b
    PROVE  /\ u \in Seq(V) /\ Len(u) = Len(a) + 1 + Len(b)
           /\ \A i \in 1..Len(a) : u[i] = a[i]
           /\ u[Len(a) + 1] = d
           /\ \A i \in 1..Len(b) : u[Len(a) + 1 + i] = b[i]
<1>1. PICK c : c = Append(a, d)
  OBVIOUS
<1>2. a \o <<d>> = Append(a, d)
  OBVIOUS
<1>3. c \in Seq(V) /\ Len(c) = Len(a) + 1 /\ c[Len(a) + 1] = d /\ \A i \in 1..Len(a) : c[i] = a[i]
  BY <1>1
<1>4. u = c \o b
  BY <1>1, <1>2
<1>5. u \in Seq(V) /\ Len(u) = Len(c) + Len(b)
  BY <1>3, <1>4
<1>6. \A i \in 1..Len(c) : u[i] = c[i]
  BY <1>3, <1>4
<1>7. \A i \in 1..Len(b) : u[Len(c) + i] = b[i]
  BY <1>3, <1>4
<1>8. Len(a) \in Nat
  OBVIOUS
<1>9. \A i \in 1..Len(a) : i \in 1..Len(c)
  BY <1>3, <1>8
<1>10. Len(a) + 1 \in 1..Len(c)
  BY <1>3, <1>8
<1> QED
  BY <1>3, <1>5, <1>6, <1>7, <1>9, <1>10

(* f puts the first n elements of s in order in t.                         *)
Arranged(f, t, s, n) ==
    /\ Len(t) = n /\ f \in [1..n -> 1..n] /\ \A i \in 1..n : \E p \in 1..n : f[p] = i
    /\ \A p \in 1..n : t[p] = s[f[p]]
    /\ \A p, q \in 1..n : p < q => /\ f[p] # f[q] /\ ~DocLess(t[q], t[p])
                                   /\ ~DocLess(t[p], t[q]) => f[p] < f[q]

(* One more document in its place.                                         *)
LEMMA PlacedInOrder ==
    ASSUME NEW V, Comparable(V), NEW s \in Seq(V), NEW n \in Nat, n + 1 \in DOMAIN s,
           NEW t \in Seq(V), NEW f, Arranged(f, t, s, n)
    PROVE  LET u == PlaceDoc(t, s[n + 1]) IN u \in Seq(V) /\ \E g : Arranged(g, u, s, n + 1)
<1> DEFINE d == s[n + 1]
           u == PlaceDoc(t, d)
           I == {i \in DOMAIN t : ~DocLess(d, t[i])}
           k == Cardinality(I)
<1>1. d \in V /\ DOMAIN t = 1..n /\ Len(t) = n /\ \A i \in 1..n : t[i] \in V
  BY DEF Arranged
<1> HIDE DEF d
<1>2. \A i \in I : \A j \in 1..i : j \in I
  <2> SUFFICES ASSUME NEW i \in I, NEW j \in 1..i, DocLess(d, t[j]) PROVE FALSE
    BY <1>1
  <2>1. i \in 1..n /\ j \in 1..n /\ ~DocLess(d, t[i]) /\ t[i] \in V /\ t[j] \in V
    BY <1>1
  <2>2. DocLess(t[i], t[j])
    BY <1>1, <2>1, DocOrder
  <2>3. j # i
    BY <2>1
  <2>4. j < i
    BY <2>1, <2>3
  <2> QED
    BY <2>1, <2>2, <2>4 DEF Arranged
<1>3. k \in 0..n /\ I = 1..k
  <2>1. I \subseteq 1..n
    BY <1>1
  <2> HIDE DEF I
  <2> QED
    BY <1>2, <2>1, FirstOnes
<1>4. u = SubSeq(t, 1, k) \o <<d>> \o SubSeq(t, k + 1, Len(t))
  BY DEF PlaceDoc
<1>5. \A i \in 1..n : i <= k <=> ~DocLess(d, t[i])
  BY <1>1, <1>3
<1> HIDE DEF k, u, I
<1>6. /\ u \in Seq(V) /\ Len(u) = n + 1
      /\ \A p \in 1..n + 1 : u[p] = IF p <= k THEN t[p] ELSE IF p = k + 1 THEN d ELSE t[p - 1]
  <2>1. PICK a : a = SubSeq(t, 1, k)
    OBVIOUS
  <2>2. PICK b : b = SubSeq(t, k + 1, Len(t))
    OBVIOUS
  <2>3. a \in Seq(V) /\ Len(a) = k /\ \A i \in 1..k : a[i] = t[i]
    BY <1>1, <1>3, <2>1
  <2>4. b \in Seq(V) /\ Len(b) = n - k /\ \A i \in 1..n - k : b[i] = t[k + i]
    BY <1>1, <1>3, <2>2
  <2>5. u = a \o <<d>> \o b
    BY <1>4, <2>1, <2>2
  <2>6. a \in Seq(V) /\ b \in Seq(V)
    BY <2>3, <2>4
  <2>7. PICK m : m = Len(a)
    OBVIOUS
  <2>8. /\ u \in Seq(V) /\ Len(u) = m + 1 + Len(b)
        /\ \A i \in 1..m : u[i] = a[i]
        /\ u[m + 1] = d
        /\ \A i \in 1..Len(b) : u[m + 1 + i] = b[i]
    BY <1>1, <2>5, <2>6, <2>7, Between
  <2>9. m = k /\ k \in 0..n
    BY <1>3, <2>3, <2>7
  <2>10. u \in Seq(V) /\ Len(u) = n + 1
    BY <2>4, <2>8, <2>9
  <2>11. ASSUME NEW p \in 1..n + 1
         PROVE  u[p] = IF p <= k THEN t[p] ELSE IF p = k + 1 THEN d ELSE t[p - 1]
    <3>1. CASE p <= k
      BY <2>3, <2>8, <2>9, <3>1
    <3>2. CASE p = k + 1
      BY <2>8, <2>9, <3>2
    <3>3. CASE p > k + 1
      <4>1. PICK i : i = p - (k + 1)
        OBVIOUS
      <4>2. i \in 1..n - k /\ k + i = p - 1 /\ k + 1 + i = p
        BY <2>9, <3>3, <4>1
      <4>3. u[p] = b[i] /\ b[i] = t[p - 1]
        BY <2>4, <2>8, <2>9, <4>2
      <4> QED
        BY <2>9, <3>3, <4>3
    <3> QED
      BY <2>9, <3>1, <3>2, <3>3
  <2> QED
    BY <2>10, <2>11
<1> DEFINE g == [p \in 1..n + 1 |-> IF p <= k THEN f[p] ELSE IF p = k + 1 THEN n + 1 ELSE f[p - 1]]
<1>7. \A p \in 1..n + 1 : \/ p <= k /\ p \in 1..n /\ g[p] = f[p] /\ u[p] = t[p]
                          \/ p = k + 1 /\ g[p] = n + 1 /\ u[p] = d
                          \/ p > k + 1 /\ p - 1 \in 1..n /\ p - 1 > k /\ g[p] = f[p - 1] /\ u[p] = t[p - 1]
  <2> TAKE p \in 1..n + 1
  <2>1. g[p] = IF p <= k THEN f[p] ELSE IF p = k + 1 THEN n + 1 ELSE f[p - 1]
    OBVIOUS
  <2>2. u[p] = IF p <= k THEN t[p] ELSE IF p = k + 1 THEN d ELSE t[p - 1]
    BY <1>6
  <2> HIDE DEF g
  <2>3. CASE p <= k
    BY <1>3, <2>1, <2>2, <2>3
  <2>4. CASE p = k + 1
    BY <1>3, <2>1, <2>2, <2>4
  <2>5. CASE p > k + 1
    BY <1>3, <2>1, <2>2, <2>5
  <2> QED
    BY <1>3, <2>3, <2>4, <2>5
<1>8. DOMAIN g = 1..n + 1 /\ g = [p \in 1..n + 1 |-> g[p]]
  OBVIOUS
<1> HIDE DEF g
<1>9. \A p \in 1..n : f[p] \in 1..n
  BY DEF Arranged
<1>10. g \in [1..n + 1 -> 1..n + 1]
  <2>1. \A p \in 1..n + 1 : g[p] \in 1..n + 1
    <3> TAKE p \in 1..n + 1
    <3>1. g[p] = n + 1 \/ \E x \in 1..n : g[p] = f[x]
      BY <1>7
    <3>2. g[p] = n + 1 \/ g[p] \in 1..n
      BY <1>9, <3>1
    <3> QED
      BY <3>2
  <2> QED
    BY <1>8, <2>1
<1>11. \A i \in 1..n + 1 : \E p \in 1..n + 1 : g[p] = i
  <2> TAKE i \in 1..n + 1
  <2>1. CASE i = n + 1
    <3>1. k + 1 \in 1..n + 1
      BY <1>3
    <3>2. g[k + 1] = n + 1
      BY <1>3, <1>7, <3>1
    <3> QED
      BY <2>1, <3>1, <3>2
  <2>2. CASE i # n + 1
    <3>1. i \in 1..n
      BY <2>2
    <3>2. PICK p \in 1..n : f[p] = i
      BY <3>1 DEF Arranged
    <3>3. CASE p <= k
      <4>1. p \in 1..n + 1
        OBVIOUS
      <4>2. g[p] = f[p]
        BY <1>3, <1>7, <3>3, <4>1
      <4> QED
        BY <3>2, <4>1, <4>2
    <3>4. CASE p > k
      <4>1. p + 1 \in 1..n + 1 /\ p + 1 > k + 1 /\ (p + 1) - 1 = p
        BY <1>3, <3>4
      <4>2. g[p + 1] = f[p]
        BY <1>3, <1>7, <4>1
      <4> QED
        BY <3>2, <4>1, <4>2
    <3> QED
      BY <1>3, <3>3, <3>4
  <2> QED
    BY <2>1, <2>2
<1>12. \A p \in 1..n + 1 : u[p] = s[g[p]]
  <2>1. \A p \in 1..n : t[p] = s[f[p]]
    BY DEF Arranged
  <2> QED
    BY <1>7, <2>1 DEF d
<1>13. ASSUME NEW p \in 1..n + 1, NEW q \in 1..n + 1, p < q
       PROVE  /\ g[p] # g[q] /\ ~DocLess(u[q], u[p])
              /\ ~DocLess(u[p], u[q]) => g[p] < g[q]
  <2>0. \A x, y \in 1..n : x < y => /\ f[x] # f[y] /\ ~DocLess(t[y], t[x])
                                    /\ ~DocLess(t[x], t[y]) => f[x] < f[y]
    BY DEF Arranged
  <2>1. CASE p <= k /\ q <= k
    BY <1>3, <1>7, <2>0, <1>13, <2>1
  <2>2. CASE p <= k /\ q = k + 1
    <3>1. p \in 1..n /\ g[p] = f[p] /\ u[p] = t[p] /\ g[q] = n + 1 /\ u[q] = d
      BY <1>3, <1>7, <2>2
    <3>2. ~DocLess(d, t[p]) /\ f[p] \in 1..n
      BY <1>5, <1>9, <2>2, <3>1
    <3> QED
      BY <3>1, <3>2
  <2>3. CASE p <= k /\ q > k + 1
    <3>1. /\ p \in 1..n /\ g[p] = f[p] /\ u[p] = t[p] /\ g[q] = f[q - 1] /\ u[q] = t[q - 1]
          /\ q - 1 \in 1..n /\ p < q - 1
      BY <1>3, <1>7, <2>3
    <3> QED
      BY <2>0, <3>1
  <2>4. CASE p = k + 1
    <3>1. /\ g[p] = n + 1 /\ u[p] = d /\ g[q] = f[q - 1] /\ u[q] = t[q - 1]
          /\ q - 1 \in 1..n /\ q - 1 > k
      BY <1>3, <1>7, <1>13, <2>4
    <3>2. DocLess(d, t[q - 1]) /\ f[q - 1] \in 1..n /\ t[q - 1] \in V
      BY <1>1, <1>3, <1>5, <1>9, <3>1
    <3>3. ~DocLess(t[q - 1], d)
      BY <1>1, <3>2, DocOrder
    <3> QED
      BY <3>1, <3>2, <3>3
  <2>5. CASE p > k + 1
    <3>1. /\ g[p] = f[p - 1] /\ u[p] = t[p - 1] /\ g[q] = f[q - 1] /\ u[q] = t[q - 1]
          /\ p - 1 \in 1..n /\ q - 1 \in 1..n /\ p - 1 < q - 1
      BY <1>3, <1>7, <1>13, <2>5
    <3> QED
      BY <2>0, <3>1
  <2> QED
    BY <1>3, <1>13, <2>1, <2>2, <2>3, <2>4, <2>5
<1>14. Arranged(g, u, s, n + 1)
  BY <1>6, <1>10, <1>11, <1>12, <1>13 DEF Arranged
<1> QED
  BY <1>6, <1>14 DEF u, d

(* sortDocs: everything once, in order, equals as they were.               *)
LEMMA SortedInOrder ==
    ASSUME NEW V, Comparable(V), NEW s \in Seq(V)
    PROVE  SortDocs(s) \in Seq(V) /\ \E f : Arranged(f, SortDocs(s), s, Len(s))
<1>1. PICK h : /\ h[0] = <<>> /\ SortDocs(s) = h[Len(s)]
               /\ \A k \in 1..Len(s) : h[k] = PlaceDoc(h[k - 1], s[k])
  BY SortRuns
<1>2. Len(s) \in Nat /\ DOMAIN s = 1..Len(s)
  OBVIOUS
<1> DEFINE Good(k) == h[k] \in Seq(V) /\ \E f : Arranged(f, h[k], s, k)
           T == {k \in Nat : k <= Len(s) => Good(k)}
<1>3. 0 \in T
  <2>1. Arranged(<<>>, <<>>, s, 0)
    BY DEF Arranged
  <2>2. Good(0)
    BY <1>1, <2>1
  <2> HIDE DEF Good
  <2> QED
    BY <2>2
<1>4. ASSUME NEW k \in Nat, k \in T PROVE k + 1 \in T
  <2> SUFFICES ASSUME k + 1 <= Len(s) PROVE Good(k + 1)
    <3> HIDE DEF Good
    <3> QED
      OBVIOUS
  <2>1. k <= Len(s) /\ k + 1 \in 1..Len(s) /\ (k + 1) - 1 = k
    BY <1>2
  <2>2. Good(k)
    <3> HIDE DEF Good
    <3> QED
      BY <1>4, <2>1
  <2>3. PICK f : Arranged(f, h[k], s, k)
    BY <2>2
  <2>4. PICK t : t = h[k]
    OBVIOUS
  <2>5. t \in Seq(V) /\ Arranged(f, t, s, k) /\ k + 1 \in DOMAIN s
    BY <1>2, <2>1, <2>2, <2>3, <2>4
  <2>6. PICK u : u = PlaceDoc(t, s[k + 1])
    OBVIOUS
  <2>7. u \in Seq(V) /\ \E g : Arranged(g, u, s, k + 1)
    BY <2>5, <2>6, PlacedInOrder
  <2>8. h[k + 1] = u
    BY <1>1, <2>1, <2>4, <2>6
  <2> QED
    BY <2>7, <2>8
<1>5. Len(s) \in T
  <2> HIDE DEF T
  <2> QED
    BY <1>2, <1>3, <1>4, EveryNumber
<1>6. Good(Len(s))
  <2> HIDE DEF Good
  <2> QED
    BY <1>2, <1>5
<1> QED
  BY <1>1, <1>6

(* One step of it.                                                         *)
LEMMA DedupStepIs ==
    ASSUME NEW S, NEW t, NEW x, NEW d
    PROVE  DedupStep([seen |-> S, out |-> t, dropped |-> x], d) =
             IF d.key \in S THEN [seen |-> S, out |-> t, dropped |-> x + 1]
                            ELSE [seen |-> S \cup {d.key}, out |-> Append(t, d), dropped |-> x]
<1>1. PICK a : a = [seen |-> S, out |-> t, dropped |-> x]
  OBVIOUS
<1>2. a.seen = S /\ a.out = t /\ a.dropped = x
  BY <1>1
<1>3. [a EXCEPT !.dropped = @ + 1] = [seen |-> S, out |-> t, dropped |-> x + 1]
  BY <1>1
<1>4. DedupStep(a, d) = IF d.key \in S THEN [a EXCEPT !.dropped = @ + 1]
                        ELSE [seen |-> S \cup {d.key}, out |-> Append(t, d), dropped |-> x]
  BY <1>2 DEF DedupStep
<1> QED
  BY <1>1, <1>3, <1>4

(* dedupDocs: the documents at the first occurrences of their keys, in the *)
(* order they have, and the number of the others.                          *)
LEMMA DedupKeepsFirsts ==
    ASSUME NEW V, NEW s \in Seq(V)
    PROVE  LET I == FirstOccurrences(s) IN
           /\ DedupDocs(s).out = KeepAt(s, I)
           /\ DedupDocs(s).dropped = Len(s) - Cardinality(I)
<1>1. PICK h : /\ h[0] = [seen |-> {}, out |-> <<>>, dropped |-> 0] /\ DedupDocs(s) = h[Len(s)]
               /\ \A k \in 1..Len(s) : h[k] = DedupStep(h[k - 1], s[k])
  BY DedupRuns
<1>2. Len(s) \in Nat /\ DOMAIN s = 1..Len(s) /\ FirstOccurrences(s) \subseteq 1..Len(s)
  BY DEF FirstOccurrences
<1> DEFINE Upto(k) == {i \in FirstOccurrences(s) : i <= k}
           Seen(k) == {s[i].key : i \in 1..k}
           Good(k) == \E x \in Nat :
                         /\ h[k] = [seen |-> Seen(k), out |-> KeepAt(s, Upto(k)), dropped |-> x]
                         /\ x + Len(KeepAt(s, Upto(k))) = k
           T == {k \in Nat : k <= Len(s) => Good(k)}
<1>3. 0 \in T
  <2>1. Upto(0) = {} /\ Seen(0) = {}
    BY <1>2
  <2>2. KeepAt(s, {}) = <<>>
    BY KeepAtEnds
  <2>3. Good(0)
    <3> HIDE DEF Upto, Seen
    <3>1. h[0] = [seen |-> Seen(0), out |-> KeepAt(s, Upto(0)), dropped |-> 0]
      BY <1>1, <2>1, <2>2
    <3>2. 0 + Len(KeepAt(s, Upto(0))) = 0
      <4>1. Len(<<>>) = 0
        OBVIOUS
      <4>2. KeepAt(s, Upto(0)) = <<>>
        BY <2>1, <2>2
      <4> QED
        BY <4>1, <4>2
    <3> QED
      BY <3>1, <3>2
  <2> HIDE DEF Good
  <2> QED
    BY <2>3
<1>4. ASSUME NEW k \in Nat, k \in T PROVE k + 1 \in T
  <2> SUFFICES ASSUME k + 1 <= Len(s) PROVE Good(k + 1)
    <3> HIDE DEF Good
    <3> QED
      OBVIOUS
  <2>1. k <= Len(s) /\ k + 1 \in 1..Len(s) /\ (k + 1) - 1 = k
    BY <1>2
  <2>2. Good(k)
    <3> HIDE DEF Good
    <3> QED
      BY <1>4, <2>1
  <2>3. PICK n : n = k + 1
    OBVIOUS
  <2>4. n \in DOMAIN s /\ n - 1 = k /\ s[n] \in V /\ h[n] = DedupStep(h[k], s[n])
    BY <1>1, <1>2, <2>1, <2>3
  <2>5. Seen(n) = Seen(k) \cup {s[n].key}
    <3>1. 1..n = (1..k) \cup {n}
      BY <2>3
    <3> QED
      BY <3>1
  <2>6. n \in FirstOccurrences(s) <=> s[n].key \notin Seen(k)
    BY <1>2, <2>4 DEF FirstOccurrences
  <2>7. Upto(n) = IF n \in FirstOccurrences(s) THEN Upto(k) \cup {n} ELSE Upto(k)
    <3>1. \A i \in FirstOccurrences(s) : i \in Nat /\ (i <= n <=> i <= k \/ i = n)
      BY <1>2, <2>3
    <3> QED
      BY <2>3, <3>1
  <2>8. Upto(k) \subseteq 1..n - 1 /\ Upto(k) \subseteq DOMAIN s
    BY <1>2, <2>4
  <2> HIDE DEF Upto, Seen
  <2>9. PICK t : t = KeepAt(s, Upto(k))
    OBVIOUS
  <2>10. t \in Seq(V)
    BY <2>8, <2>9, KeepAtIs
  <2>11. PICK x \in Nat : h[k] = [seen |-> Seen(k), out |-> t, dropped |-> x] /\ x + Len(t) = k
    BY <2>2, <2>9
  <2>12. h[n] = IF s[n].key \in Seen(k)
                THEN [seen |-> Seen(k), out |-> t, dropped |-> x + 1]
                ELSE [seen |-> Seen(k) \cup {s[n].key}, out |-> Append(t, s[n]), dropped |-> x]
    <3>1. PICK S : S = Seen(k)
      OBVIOUS
    <3>2. PICK d : d = s[n]
      OBVIOUS
    <3>3. DedupStep([seen |-> S, out |-> t, dropped |-> x], d) =
             IF d.key \in S THEN [seen |-> S, out |-> t, dropped |-> x + 1]
                            ELSE [seen |-> S \cup {d.key}, out |-> Append(t, d), dropped |-> x]
      BY DedupStepIs
    <3>4. h[n] = DedupStep([seen |-> S, out |-> t, dropped |-> x], d)
      BY <2>4, <2>11, <3>1, <3>2
    <3> QED
      BY <3>1, <3>2, <3>3, <3>4
  <2>13. CASE n \in FirstOccurrences(s)
    <3>1. h[n] = [seen |-> Seen(n), out |-> Append(t, s[n]), dropped |-> x]
      BY <2>5, <2>6, <2>12, <2>13
    <3>2. KeepAt(s, Upto(n)) = Append(t, s[n])
      BY <2>4, <2>7, <2>8, <2>9, <2>13, KeepAtNext
    <3>3. Len(Append(t, s[n])) = Len(t) + 1 /\ Len(t) \in Nat
      BY <2>4, <2>10
    <3>4. x + (Len(t) + 1) = n
      BY <2>3, <2>11, <3>3
    <3>5. Good(n)
      BY <3>1, <3>2, <3>3, <3>4
    <3> QED
      BY <2>3, <3>5
  <2>14. CASE n \notin FirstOccurrences(s)
    <3>1. Seen(n) = Seen(k) /\ KeepAt(s, Upto(n)) = t
      BY <2>5, <2>6, <2>7, <2>9, <2>14
    <3>2. h[n] = [seen |-> Seen(n), out |-> KeepAt(s, Upto(n)), dropped |-> x + 1]
      BY <2>6, <2>12, <2>14, <3>1
    <3>3. x + 1 + Len(KeepAt(s, Upto(n))) = n /\ x + 1 \in Nat
      BY <2>3, <2>10, <2>11, <3>1
    <3>4. Good(n)
      BY <3>2, <3>3
    <3> QED
      BY <2>3, <3>4
  <2> QED
    BY <2>13, <2>14
<1>5. Len(s) \in T
  <2> HIDE DEF T
  <2> QED
    BY <1>2, <1>3, <1>4, EveryNumber
<1>6. Good(Len(s))
  <2> HIDE DEF Good
  <2> QED
    BY <1>2, <1>5
<1>7. Upto(Len(s)) = FirstOccurrences(s)
  <2>1. \A i \in FirstOccurrences(s) : i <= Len(s)
    BY <1>2
  <2> QED
    BY <2>1
<1> HIDE DEF Upto, Seen
<1>8. PICK t : t = KeepAt(s, FirstOccurrences(s))
  OBVIOUS
<1>9. PICK x \in Nat : /\ DedupDocs(s) = [seen |-> Seen(Len(s)), out |-> t, dropped |-> x]
                       /\ x + Len(t) = Len(s)
  BY <1>1, <1>6, <1>7, <1>8
<1>10. DedupDocs(s).out = t /\ DedupDocs(s).dropped = x /\ x \in Nat /\ x + Len(t) = Len(s)
  BY <1>9
<1>11. Len(t) = Cardinality(FirstOccurrences(s)) /\ Len(t) \in Nat
  <2>1. t \in Seq(V) /\ Len(t) = Cardinality(FirstOccurrences(s))
    BY <1>2, <1>8, KeepAtIs
  <2> QED
    BY <2>1
<1>12. x = Len(s) - Cardinality(FirstOccurrences(s))
  BY <1>2, <1>10, <1>11
<1> QED
  BY <1>8, <1>10, <1>12

(* The documents left, sorted: a stable arrangement of the first           *)
(* occurrences.                                                            *)
LEMMA MergeIsCanonical ==
    ASSUME NEW V, Comparable(V), NEW s \in Seq(V)
    PROVE  IsStableArrangement(SortDocs(DedupDocs(s).out), s, FirstOccurrences(s))
<1>1. PICK I : I = FirstOccurrences(s)
  OBVIOUS
<1>2. PICK t : t = KeepAt(s, I)
  OBVIOUS
<1>3. I \subseteq DOMAIN s /\ DOMAIN s \subseteq Nat
  BY <1>1 DEF FirstOccurrences
<1>4. t = DedupDocs(s).out
  BY <1>1, <1>2, DedupKeepsFirsts
<1>5. t \in Seq(V) /\ \E g : KeptBy(g, t, s, I)
  BY <1>2, <1>3, KeepAtIs
<1>6. PICK g : KeptBy(g, t, s, I)
  BY <1>5
<1>7. PICK n : n = Len(t)
  OBVIOUS
<1>8. n \in Nat /\ DOMAIN t = 1..n
  BY <1>5, <1>7
<1>9. /\ g \in [1..n -> I] /\ \A i \in I : \E k \in 1..n : g[k] = i
      /\ \A j, k \in 1..n : j < k <=> g[j] < g[k]
      /\ \A k \in 1..n : t[k] = s[g[k]]
  BY <1>6, <1>7 DEF KeptBy, InOrder
<1>10. PICK u : u = SortDocs(t)
  OBVIOUS
<1>11. u \in Seq(V) /\ \E f : Arranged(f, u, t, n)
  BY <1>5, <1>7, <1>10, SortedInOrder
<1>12. PICK f : Arranged(f, u, t, n)
  BY <1>11
<1>13. DOMAIN u = 1..n
  BY <1>11, <1>12 DEF Arranged
<1>14. /\ f \in [1..n -> 1..n] /\ \A i \in 1..n : \E p \in 1..n : f[p] = i
       /\ \A p \in 1..n : u[p] = t[f[p]]
       /\ \A p, q \in 1..n : p < q => /\ f[p] # f[q] /\ ~DocLess(u[q], u[p])
                                      /\ ~DocLess(u[p], u[q]) => f[p] < f[q]
  BY <1>12 DEF Arranged
<1> DEFINE e == [p \in 1..n |-> g[f[p]]]
<1>15. \A p \in 1..n : e[p] = g[f[p]] /\ f[p] \in 1..n /\ e[p] \in I
  BY <1>9, <1>14
<1>16. e \in [1..n -> I]
  BY <1>15
<1> HIDE DEF e
<1>17. \A i \in I : \E p \in 1..n : e[p] = i
  <2> TAKE i \in I
  <2>1. PICK k \in 1..n : g[k] = i
    BY <1>9
  <2>2. PICK p \in 1..n : f[p] = k
    BY <1>14
  <2> QED
    BY <1>15, <2>1, <2>2
<1>18. \A j, k \in 1..n : j # k => g[j] # g[k]
  <2> TAKE j, k \in 1..n
  <2>1. g[j] \in Nat /\ g[k] \in Nat /\ j \in Nat /\ k \in Nat
    BY <1>3, <1>9
  <2>2. CASE j < k
    BY <1>9, <2>1, <2>2
  <2>3. CASE k < j
    BY <1>9, <2>1, <2>3
  <2> QED
    BY <2>1, <2>2, <2>3
<1>19. ASSUME NEW p \in 1..n, NEW q \in 1..n, p < q PROVE e[p] # e[q]
  <2>1. f[p] \in 1..n /\ f[q] \in 1..n /\ f[p] # f[q]
    BY <1>14, <1>15, <1>19
  <2>2. g[f[p]] # g[f[q]]
    BY <1>18, <2>1
  <2> QED
    BY <1>15, <2>2
<1>20. \A p, q \in 1..n : e[p] = e[q] => p = q
  <2> TAKE p, q \in 1..n
  <2>1. p \in Nat /\ q \in Nat
    OBVIOUS
  <2>2. CASE p < q
    BY <1>19, <2>2
  <2>3. CASE q < p
    BY <1>19, <2>3
  <2> QED
    BY <2>1, <2>2, <2>3
<1>21. e \in Bijection(1..n, I)
  <2>1. e \in Injection(1..n, I)
    BY <1>16, <1>20 DEF Injection, IsInjective
  <2>2. e \in Surjection(1..n, I)
    BY <1>16, <1>17 DEF Surjection
  <2> QED
    BY <2>1, <2>2 DEF Bijection
<1>22. \A p \in 1..n : u[p] = s[e[p]]
  <2> TAKE p \in 1..n
  <2>1. f[p] \in 1..n /\ u[p] = t[f[p]] /\ e[p] = g[f[p]]
    BY <1>14, <1>15
  <2>2. t[f[p]] = s[g[f[p]]]
    BY <1>9, <2>1
  <2> QED
    BY <2>1, <2>2
<1>23. ASSUME NEW p \in 1..n, NEW q \in 1..n, p < q
       PROVE  /\ ~DocLess(u[q], u[p])
              /\ ~DocLess(u[p], u[q]) => e[p] < e[q]
  <2>1. f[p] \in 1..n /\ f[q] \in 1..n /\ e[p] = g[f[p]] /\ e[q] = g[f[q]]
    BY <1>15
  <2>2. ~DocLess(u[q], u[p]) /\ (~DocLess(u[p], u[q]) => f[p] < f[q])
    BY <1>14, <1>23
  <2>3. f[p] < f[q] => e[p] < e[q]
    BY <1>9, <2>1
  <2> QED
    BY <2>2, <2>3
<1>24. IsStableArrangement(u, s, I) <=>
         \E map \in Bijection(1..n, I) :
            /\ \A p \in 1..n : u[p] = s[map[p]]
            /\ \A p, q \in 1..n : p < q =>
                  /\ ~DocLess(u[q], u[p])
                  /\ ~DocLess(u[p], u[q]) => map[p] < map[q]
  BY <1>13 DEF IsStableArrangement
<1>25. IsStableArrangement(u, s, I)
  <2>1. \A p, q \in 1..n : p < q =>
           /\ ~DocLess(u[q], u[p])
           /\ ~DocLess(u[p], u[q]) => e[p] < e[q]
    BY <1>23
  <2> HIDE DEF DocLess
  <2> QED
    BY ONLY <1>21, <1>22, <1>24, <2>1, Zenon
<1> QED
  BY <1>1, <1>4, <1>10, <1>25

(* All the documents of the adapters that answered, in the order of the    *)
(* adapter set.                                                            *)
AnsweredDocs == FlattenSeq([i \in Index |-> IF fate[i] = "answered" THEN docs[i] ELSE <<>>])

(* What assembleResult concatenates when every slot is settled.            *)
LEMMA MergedAreAnswered ==
    ASSUME IInv, pc = "done"
    PROVE  MergedDocs = AnsweredDocs /\ AnsweredDocs \in Seq(Offered)
<1> USE NIsPositive
<1>1. \A i \in Index : fate[i] # "pending"
  <2>1. next > N /\ AllJoined
    BY DEF IInv, Progress
  <2> QED
    BY <2>1, AssembledReply
<1>2. \A i \in Index : i \in Failed <=> fate[i] # "answered"
  BY <1>1 DEF Failed, IInv, TypeOK, SlotMatchesFate
<1>3. MergedDocs = AnsweredDocs
  <2>1. [i \in Index |-> IF i \in Failed THEN <<>> ELSE docs[i]]
          = [i \in Index |-> IF fate[i] = "answered" THEN docs[i] ELSE <<>>]
    BY <1>2
  <2> QED
    BY <2>1 DEF MergedDocs, AnsweredDocs
<1>4. \A i \in Index : docs[i] \in Seq(Offered)
  <2>1. \A r \in Replies : r \in Seq(Offered)
    BY RepliesAssumption
  <2>2. <<>> \in Seq(Offered)
    OBVIOUS
  <2>3. \A i \in Index : docs[i] \in Replies \cup {<<>>}
    BY DEF IInv, TypeOK
  <2> QED
    BY <2>1, <2>2, <2>3
<1>5. PICK parts : parts = [i \in Index |-> IF fate[i] = "answered" THEN docs[i] ELSE <<>>]
  OBVIOUS
<1>6. parts \in Seq(Seq(Offered)) /\ Len(parts) = N
  <2>1. PICK V : V = Seq(Offered)
    OBVIOUS
  <2>2. <<>> \in V
    BY <2>1
  <2>3. \A i \in 1..N : parts[i] \in V
    BY <1>4, <1>5, <2>1, <2>2
  <2>4. parts \in [1..N -> V]
    BY <1>5, <2>3
  <2>5. parts \in Seq(V) /\ Len(parts) = N
    BY <2>4
  <2> QED
    BY <2>1, <2>5
<1>7. parts # <<>>
  BY <1>6
<1>8. FlattenSeq(parts) \in Seq(Offered)
  BY <1>6, <1>7, Flattened
<1> QED
  BY <1>3, <1>5, <1>8 DEF AnsweredDocs

(* Whatever the order in which adapters finish, the result is the same     *)
(* function of their documents: one per dedup key, of the earliest         *)
(* adapter, in the documented order (dedup.go, sort.go).                   *)
THEOREM Canonical == Spec => []ResultDocsCanonical
<1>1. IInv => ResultDocsCanonical
  <2> SUFFICES ASSUME IInv, result # NoResult PROVE ResultDocsCanonical
    BY DEF ResultDocsCanonical
  <2>1. pc = "done" /\ result = Assembled
    BY DEF IInv, Progress
  <2>2. PICK all : all = AnsweredDocs
    OBVIOUS
  <2>3. MergedDocs = all /\ all \in Seq(Offered)
    BY <2>1, <2>2, MergedAreAnswered
  <2>4. Comparable(Offered)
    BY RepliesAssumption DEF Comparable
  <2>5. IsStableArrangement(SortDocs(DedupDocs(all).out), all, FirstOccurrences(all))
    BY <2>3, <2>4, MergeIsCanonical
  <2>6. DedupDocs(all).dropped = Len(all) - Cardinality(FirstOccurrences(all))
    BY <2>3, DedupKeepsFirsts
  <2>7. /\ result.docs = SortDocs(DedupDocs(all).out)
        /\ result.dedupDropped = DedupDocs(all).dropped
    BY <2>1, <2>3 DEF Assembled
  <2>8. /\ IsStableArrangement(result.docs, all, FirstOccurrences(all))
        /\ result.dedupDropped = Len(all) - Cardinality(FirstOccurrences(all))
    BY <2>5, <2>6, <2>7
  <2> QED
    BY <2>2, <2>8 DEF ResultDocsCanonical, AnsweredDocs
<1> QED
  BY Inductive, <1>1, PTL
=============================================================================
