------------------------------- MODULE Fanout -------------------------------
(***************************************************************************)
(* One call of Fanout.Dispatch (internal/fanout/dispatch.go, fanout.go):   *)
(* the supervisor goroutine walks the adapter set, checks its context      *)
(* before every launch, blocks in errgroup.Go while MaxParallel workers    *)
(* run, waits for all of them and builds the result from per-index slots;  *)
(* every worker searches one adapter under a context of its own.           *)
(***************************************************************************)
EXTENDS Integers, FiniteSets, Sequences, DocMerge

CONSTANTS AdapterSet,         \* decision.AdapterSet, a sequence of names
          Registered,         \* names the registry knows
          Stubborn,           \* adapters that outlive a cancelled context
          MaxParallel,        \* errgroup limit
          PerAdapterTimeout,
          NoDeadline,         \* the caller's context has no deadline
          ParentDeadlines,    \* deadlines the caller's context may carry
          Replies,            \* document sequences an adapter may return
          MaxNow              \* bound on the clock

N == Len(AdapterSet)
Index == 1..N

(* The router hands over a sorted set without duplicates; New replaces a   *)
(* limit or timeout that is not positive by its default.                   *)
ASSUME FanoutAssumption ==
    /\ N \in Nat \ {0}
    /\ \A i, j \in Index : AdapterSet[i] = AdapterSet[j] => i = j
    /\ MaxParallel \in Nat \ {0}
    /\ PerAdapterTimeout \in Nat \ {0}
    /\ MaxNow \in Nat
    /\ NoDeadline \notin Nat
    /\ ParentDeadlines \subseteq Nat \cup {NoDeadline}

(* Scores, ranks and times of retrieval are numbers: no adapter computes a *)
(* score that is not one (NaN), which sortDocs could not order.            *)
Offered == UNION {ToSet(r) : r \in Replies}
ASSUME RepliesAssumption ==
    /\ \A r \in Replies : r \in Seq(Offered)
    /\ \A d \in Offered : d.score \in Int /\ d.src \in Int /\ d.at \in Int

VARIABLES now,              \* clock
          parentDeadline,   \* deadline of the caller's context
          cancelled,        \* the caller cancelled its context
          groupCancelled,   \* errgroup cancelled egCtx on a worker's error
          pc,               \* supervisor: launch, go, done
          next,             \* index the supervisor's loop is at
          worker,           \* goroutine of each index
          adapterDeadline,  \* deadline of each adapter's own context
          docs,             \* perAdapterDocs
          errs,             \* perAdapterErr
          inflight,         \* the FanoutInflight gauge
          fate,             \* history: what really became of each adapter
          result            \* what Dispatch returned

slots == <<docs, errs, fate>>
clock == <<now, parentDeadline>>
vars == <<now, parentDeadline, cancelled, groupCancelled, pc, next, worker,
          adapterDeadline, docs, errs, inflight, fate, result>>

WorkerStates == {"none", "spawned", "searching", "returning", "exited"}
Live == {i \in Index : worker[i] \in {"spawned", "searching", "returning"}}
Busy == {i \in Index : worker[i] \in {"searching", "returning"}}

NoErr == "nil"
ErrKinds == {"unavailable", "notfound", "panic", "search", "ctx"}
NoResult == [docs |-> <<>>, adapterErrors |-> <<>>, adapterCount |-> 0,
             successCount |-> 0, errorCount |-> 0, dedupDropped |-> 0]

(* ctx.Err() # nil, and the same for the group's derived context.          *)
CtxDone == cancelled \/ (parentDeadline # NoDeadline /\ now >= parentDeadline)
EgCtxDone == CtxDone \/ groupCancelled
AdapterCtxDone_NoTimeout(i) == EgCtxDone
AdapterCtxDone(i) == EgCtxDone \/ now >= adapterDeadline[i]

(* deriveAdapterCtx: the earlier of the adapter's own timeout and the      *)
(* parent's deadline; a deadline already past is a cancelled context.      *)
DerivedDeadline_Remaining ==
    IF parentDeadline # NoDeadline THEN parentDeadline - now ELSE PerAdapterTimeout
DerivedDeadline ==
    IF parentDeadline # NoDeadline /\ parentDeadline - now < PerAdapterTimeout
    THEN parentDeadline
    ELSE now + PerAdapterTimeout

-----------------------------------------------------------------------------
Init ==
    /\ now = 0
    /\ parentDeadline \in ParentDeadlines
    /\ cancelled = FALSE
    /\ groupCancelled = FALSE
    /\ pc = "launch"
    /\ next = 1
    /\ worker = [i \in Index |-> "none"]
    /\ adapterDeadline = [i \in Index |-> 0]
    /\ docs = [i \in Index |-> <<>>]
    /\ errs = [i \in Index |-> NoErr]
    /\ inflight = 0
    /\ fate = [i \in Index |-> "pending"]
    /\ result = NoResult

(* The pool has a free place; every worker has been joined.                *)
PoolHasRoom_OffByOne == Cardinality(Live) <= MaxParallel
PoolHasRoom == Cardinality(Live) < MaxParallel
AllJoined_NoWait == TRUE
AllJoined == Live = {}

(* The slot a skipped adapter is left with.                                *)
SkippedErrs_Untouched == errs
SkippedErrs == [errs EXCEPT ![next] = "unavailable"]

(* The context check at the top of the loop fails: the adapter is never    *)
(* launched and its slot holds an unavailable error.                       *)
Skip ==
    /\ pc = "launch" /\ next <= N
    /\ CtxDone
    /\ errs' = SkippedErrs
    /\ fate' = [fate EXCEPT ![next] = "failed"]
    /\ next' = next + 1
    /\ UNCHANGED <<clock, cancelled, groupCancelled, pc, worker,
                   adapterDeadline, docs, inflight, result>>

(* The check passes and the supervisor enters eg.Go.                       *)
EnterGo ==
    /\ pc = "launch" /\ next <= N
    /\ ~CtxDone
    /\ pc' = "go"
    /\ UNCHANGED <<clock, cancelled, groupCancelled, next, worker,
                   adapterDeadline, slots, inflight, result>>

(* eg.Go gets a place in the pool and starts the goroutine, whatever has   *)
(* happened to the context while it was blocked.                           *)
Spawn ==
    /\ pc = "go"
    /\ PoolHasRoom
    /\ worker' = [worker EXCEPT ![next] = "spawned"]
    /\ next' = next + 1
    /\ pc' = "launch"
    /\ UNCHANGED <<clock, cancelled, groupCancelled, adapterDeadline,
                   slots, inflight, result>>

(* The worker looks its adapter up and calls Search.                       *)
StartSearch(i) ==
    /\ worker[i] = "spawned"
    /\ inflight' = inflight + 1
    /\ \/ /\ AdapterSet[i] \in Registered
          /\ worker' = [worker EXCEPT ![i] = "searching"]
          /\ adapterDeadline' = [adapterDeadline EXCEPT ![i] = DerivedDeadline]
          /\ UNCHANGED slots
       \/ /\ AdapterSet[i] \notin Registered
          /\ worker' = [worker EXCEPT ![i] = "returning"]
          /\ errs' = [errs EXCEPT ![i] = "notfound"]
          /\ fate' = [fate EXCEPT ![i] = "failed"]
          /\ UNCHANGED <<docs, adapterDeadline>>
    /\ UNCHANGED <<clock, cancelled, groupCancelled, pc, next, result>>

(* Search returned documents.                                              *)
SearchOK(i) ==
    /\ worker[i] = "searching"
    /\ \E r \in Replies : docs' = [docs EXCEPT ![i] = r]
    /\ fate' = [fate EXCEPT ![i] = "answered"]
    /\ worker' = [worker EXCEPT ![i] = "returning"]
    /\ UNCHANGED <<clock, cancelled, groupCancelled, pc, next,
                   adapterDeadline, errs, inflight, result>>

(* Search returned an error of its own, or panicked and was recovered, or  *)
(* noticed that its context is done.                                       *)
SearchFailed(i, kind) ==
    /\ worker[i] = "searching"
    /\ kind = "ctx" => AdapterCtxDone(i)
    /\ errs' = [errs EXCEPT ![i] = kind]
    /\ fate' = [fate EXCEPT ![i] = "failed"]
    /\ worker' = [worker EXCEPT ![i] = "returning"]
    /\ UNCHANGED <<clock, cancelled, groupCancelled, pc, next,
                   adapterDeadline, docs, inflight, result>>

(* What the goroutine returns to the errgroup: always nil, so that the     *)
(* group's context is not cancelled by the first failure.                  *)
WorkerReturn(i) == NoErr

(* Deferred decrement of the gauge, then the place in the pool is free.    *)
Exit(i) ==
    /\ worker[i] = "returning"
    /\ inflight' = inflight - 1
    /\ worker' = [worker EXCEPT ![i] = "exited"]
    /\ groupCancelled' = (groupCancelled \/ WorkerReturn(i) # NoErr)
    /\ UNCHANGED <<clock, cancelled, pc, next, adapterDeadline, slots, result>>

Failed == {i \in Index : errs[i] # NoErr}

(* assembleResult: a slot without an error is a success.                   *)
MergedDocs ==
    FlattenSeq([i \in Index |-> IF i \in Failed THEN <<>> ELSE docs[i]])

Assembled ==
    LET merged == DedupDocs(MergedDocs)
    IN  [docs          |-> SortDocs(merged.out),
         adapterErrors |-> [a \in {AdapterSet[i] : i \in Failed} |->
                               errs[CHOOSE i \in Index : AdapterSet[i] = a]],
         adapterCount  |-> N,
         successCount  |-> Cardinality(Index \ Failed),
         errorCount    |-> Cardinality(Failed),
         dedupDropped  |-> merged.dropped]

(* eg.Wait has returned; assemble, dedup, sort and return.                 *)
Return ==
    /\ pc = "launch" /\ next > N
    /\ AllJoined
    /\ result' = Assembled
    /\ pc' = "done"
    /\ UNCHANGED <<clock, cancelled, groupCancelled, next, worker,
                   adapterDeadline, slots, inflight>>

(* The caller gives up.                                                    *)
Cancel ==
    /\ ~cancelled /\ pc # "done"
    /\ cancelled' = TRUE
    /\ UNCHANGED <<clock, groupCancelled, pc, next, worker, adapterDeadline,
                   slots, inflight, result>>

(* Goroutines are fast next to the clock, and an adapter that honours its  *)
(* context returns when that is done.                                      *)
Urgent ==
    \/ pc = "launch" /\ (next <= N \/ AllJoined)
    \/ pc = "go" /\ PoolHasRoom
    \/ \E i \in Index : \/ worker[i] \in {"spawned", "returning"}
                        \/ /\ worker[i] = "searching"
                           /\ AdapterSet[i] \notin Stubborn
                           /\ AdapterCtxDone(i)

Tick ==
    /\ now < MaxNow /\ pc # "done"
    /\ ~Urgent
    /\ now' = now + 1
    /\ UNCHANGED <<parentDeadline, cancelled, groupCancelled, pc, next, worker,
                   adapterDeadline, slots, inflight, result>>

Supervisor == Skip \/ EnterGo \/ Spawn \/ Return

Worker(i) ==
    \/ StartSearch(i)
    \/ SearchOK(i)
    \/ \E kind \in {"search", "panic", "ctx"} : SearchFailed(i, kind)
    \/ Exit(i)

Next == Supervisor \/ (\E i \in Index : Worker(i)) \/ Cancel \/ Tick

(* The Go scheduler runs every runnable goroutine. An adapter need not     *)
(* answer while its context is alive; it does once the context is done.    *)
Fairness ==
    /\ WF_vars(Supervisor)
    /\ WF_vars(Tick)
    /\ \A i \in Index :
          /\ WF_vars(StartSearch(i))
          /\ WF_vars(SearchFailed(i, "ctx"))
          /\ WF_vars(Exit(i))

Spec == Init /\ [][Next]_vars
FairSpec == Spec /\ Fairness

-----------------------------------------------------------------------------
TypeOK ==
    /\ now \in 0..MaxNow
    /\ parentDeadline \in ParentDeadlines
    /\ cancelled \in BOOLEAN
    /\ groupCancelled \in BOOLEAN
    /\ pc \in {"launch", "go", "done"}
    /\ next \in 1..(N + 1)
    /\ worker \in [Index -> WorkerStates]
    /\ adapterDeadline \in [Index -> Nat]
    /\ docs \in [Index -> Replies \cup {<<>>}]
    /\ errs \in [Index -> ErrKinds \cup {NoErr}]
    /\ inflight \in Int
    /\ fate \in [Index -> {"pending", "answered", "failed"}]

(* The gauge counts workers between their first and last statement; it     *)
(* never passes the pool's limit and is back to zero when Dispatch         *)
(* returns (dispatch.go: incInflight, defer decInflight, eg.SetLimit).     *)
InflightBounded ==
    /\ inflight = Cardinality(Busy)
    /\ Cardinality(Live) <= MaxParallel
    /\ pc = "done" => inflight = 0

(* assembleResult reads "no error" as success, and an untouched slot has   *)
(* no error: the result must nevertheless count exactly the adapters whose *)
(* Search returned, and name every other one with its error.               *)
ResultIsTruthful ==
    result # NoResult =>
        /\ result.successCount = Cardinality({i \in Index : fate[i] = "answered"})
        /\ result.successCount + result.errorCount = result.adapterCount
        /\ DOMAIN result.adapterErrors = {AdapterSet[i] : i \in {j \in Index : fate[j] = "failed"}}

(* Whatever the order in which adapters finish, the result holds one       *)
(* document per dedup key, the one of the earliest adapter of the set, in  *)
(* the documented order, and counts the others as dropped.                 *)
ResultDocsCanonical ==
    result # NoResult =>
        LET all == FlattenSeq([i \in Index |->
                       IF fate[i] = "answered" THEN docs[i] ELSE <<>>])
        IN  /\ IsStableArrangement(result.docs, all, FirstOccurrences(all))
            /\ result.dedupDropped = Len(all) - Cardinality(FirstOccurrences(all))

(* A settled slot is never written again: neither the recovery of a panic  *)
(* nor the supervisor's skip overwrites what a worker reported.            *)
SlotsWrittenOnce ==
    [][\A i \in Index : fate[i] # "pending" =>
          fate'[i] = fate[i] /\ errs'[i] = errs[i] /\ docs'[i] = docs[i]]_vars

(* Dispatch returns, even when the caller never cancels, or cancels while  *)
(* the supervisor is blocked on a full pool: only an adapter that goes on  *)
(* when its own context is over can hold it.                               *)
Ignores(i) == AdapterSet[i] \in Stubborn /\ worker[i] = "searching"
Overstays(i) == Ignores(i) /\ now > adapterDeadline[i]
Terminates ==
    [](\A i \in Index : ~Overstays(i)) /\ (\A i \in Index : []<>~Ignores(i))
       => <>(pc = "done")
(* Dispatch implements the promise made to its caller.                     *)
ReplyOf(r) ==
    IF r = NoResult
    THEN [ok |-> {}, failed |-> {}]
    ELSE [ok     |-> {i \in Index : AdapterSet[i] \notin DOMAIN r.adapterErrors},
          failed |-> {i \in Index : AdapterSet[i] \in DOMAIN r.adapterErrors}]

Promise == INSTANCE FanoutPromise WITH reply <- ReplyOf(result)

ImplementsPromise == Promise!Spec
=============================================================================
