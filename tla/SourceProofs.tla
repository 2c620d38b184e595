---------------------------- MODULE SourceProofs ----------------------------
(***************************************************************************)
(* Proofs about where documents come from: the fetcher's phases, for any   *)
(* number of concurrent calls and any size of the browser pool             *)
(* (AccessFetch), Reddit's token and arXiv's slots, for any number of      *)
(* callers, tokens and any interval (AdapterWaits), the probes of the      *)
(* sources command, for any adapters and any admin (AdapterRegistry), the  *)
(* adapters' searches, for any lists and page sizes (Adapters), and the    *)
(* Korean news, for any feeds (KoreaNews).                                 *)
(***************************************************************************)
EXTENDS MCSources, SubsequenceLemmas, FiniteSetTheorems, SequenceTheorems, TLAPS

States == {"idle", "next", "phase", "robots", "head", "returned", "refused"} \cup InPhase5
Upserts == {"none", "running", "done"}

Types ==
    /\ pc \in [Fetches -> States]
    /\ skip \in [Fetches -> SUBSET {"robots", "head"}]
    /\ attempts \in [Fetches -> Seq(Attempt)]
    /\ ctxDone \in [Fetches -> BOOLEAN]
    /\ outcome \in [Fetches -> {"none"} \cup Outcomes]
    /\ content \in [Fetches -> 0..5]
    /\ upsert \in [Fetches -> Upserts]
    /\ robots \in {"unknown", "allow", "disallow"}
    /\ pool \in Nat
    /\ closing \in {"open", "draining", "closed"}
    /\ gaveUp \in BOOLEAN /\ owed \subseteq Fetches

(* Which phase a call can be in; an unfinished call has no result yet.     *)
Placed(f) ==
    /\ pc[f] \in {"idle", "refused"} => Len(attempts[f]) = 0
    /\ pc[f] = "next" => Len(attempts[f]) <= 4
    /\ pc[f] = "phase" => Len(attempts[f]) <= 3
    /\ pc[f] \in {"robots", "head"} => Len(attempts[f]) = 1
    /\ pc[f] \in InPhase5 => Len(attempts[f]) = 4
    /\ Len(attempts[f]) <= 5
    /\ pc[f] # "returned" => outcome[f] = "none" /\ content[f] = 0 /\ upsert[f] = "none"

(* Every attempt but the one that settled the call asked for the next one. *)
Climbed(f) ==
    \A i \in 1..Len(attempts[f]) :
       /\ pc[f] # "returned" \/ i < Len(attempts[f]) => ShouldEscalate(i, attempts[f][i])
       /\ attempts[f][i].signal => attempts[f][i].outcome = "failure"
       /\ i = 2 /\ attempts[f][i].outcome = "skipped" => skip[f] = {"robots", "head"}

Settled(f) ==
    /\ content[f] # 0 <=> outcome[f] = "success"
    /\ content[f] # 0 => content[f] = Len(attempts[f])
    /\ upsert[f] # "none" => content[f] # 0

CallOK(f) == Placed(f) /\ Climbed(f) /\ Settled(f)

PoolOK == IsFiniteSet(Holders) /\ pool + Cardinality(Holders) <= MaxBrowsers

OwedOK == /\ \A f \in owed : upsert[f] # "none"
          /\ OwedUpsertsDrained

AInv == Types /\ (\A f \in Fetches : CallOK(f)) /\ PoolOK /\ OwedOK

-----------------------------------------------------------------------------
(* A step that leaves a call alone leaves what holds of it.                *)
LEMMA Unmoved ==
    ASSUME NEW g \in Fetches, CallOK(g),
           pc'[g] = pc[g], skip'[g] = skip[g], attempts'[g] = attempts[g],
           outcome'[g] = outcome[g], content'[g] = content[g], upsert'[g] = upsert[g]
    PROVE  CallOK(g)'
BY DEF CallOK, Placed, Climbed, Settled

(* What a step of one call leaves of the others' and of its own record.    *)
Running == {"phase", "robots", "head"} \cup InPhase5
Moved(f) ==
    /\ <<pc', skip', attempts', outcome', content', upsert'>> =
          <<[pc EXCEPT ![f] = pc'[f]], [skip EXCEPT ![f] = skip'[f]],
            [attempts EXCEPT ![f] = attempts'[f]], [outcome EXCEPT ![f] = outcome'[f]],
            [content EXCEPT ![f] = content'[f]], [upsert EXCEPT ![f] = upsert'[f]]>>
    /\ ctxDone' \in [Fetches -> BOOLEAN]
    /\ upsert[f] # "none" => upsert'[f] \in {upsert[f], "done"}
CallTypes(f) ==
    /\ pc'[f] \in States /\ skip'[f] \subseteq {"robots", "head"}
    /\ attempts'[f] \in Seq(Attempt) /\ outcome'[f] \in {"none"} \cup Outcomes
    /\ content'[f] \in 0..5 /\ upsert'[f] \in Upserts

(* Conclude records the attempt and climbs on or settles the call.         *)
LEMMA Concluding ==
    ASSUME Types, NEW f \in Fetches, CallOK(f), pc[f] \in Running,
           pc[f] = "phase" => Len(attempts[f]) <= 3,
           NEW a \in Attempt, Conclude(f, a),
           a.signal => a.outcome = "failure",
           Phase(f) = 2 /\ a.outcome = "skipped" => skip[f] = {"robots", "head"},
           skip' = skip
    PROVE  /\ Moved(f) /\ CallTypes(f) /\ CallOK(f)'
           /\ pc'[f] \in {"next", "returned"}
<1> DEFINE n == Len(attempts[f])
           from == IF a.outcome = "success" THEN Phase(f) ELSE 0
<1>1. /\ n \in 0..4 /\ Phase(f) = n + 1 /\ attempts[f] \in Seq(Attempt)
      /\ outcome[f] = "none" /\ content[f] = 0 /\ upsert[f] = "none" /\ pc[f] # "returned"
      /\ Climbed(f)
  <2>1. attempts[f] \in Seq(Attempt) /\ n \in Nat
    BY LenProperties DEF Types
  <2>2. pc[f] # "returned" /\ pc[f] # "idle" /\ pc[f] # "refused" /\ pc[f] # "next"
    BY DEF Running, InPhase5
  <2>3. Placed(f) /\ Climbed(f)
    BY DEF CallOK
  <2>4. n <= 4
    <3>1. CASE pc[f] = "phase"
      BY <2>1, <3>1
    <3>2. CASE pc[f] \in {"robots", "head"}
      <4>1. n = 1
        BY <2>3, <3>2 DEF Placed
      <4> HIDE DEF n
      <4> QED
        BY <4>1
    <3>3. CASE pc[f] \in InPhase5
      BY <2>1, <2>3, <3>3 DEF Placed
    <3> QED
      BY <3>1, <3>2, <3>3 DEF Running
  <2>5. outcome[f] = "none" /\ content[f] = 0 /\ upsert[f] = "none"
    BY <2>2, <2>3 DEF Placed
  <2>6. n \in 0..4 /\ Phase(f) = n + 1
    <3>1. Phase(f) = n + 1
      BY DEF Phase
    <3> HIDE DEF n
    <3> QED
      BY <2>1, <2>4, <3>1
  <2> QED
    BY <2>1, <2>2, <2>3, <2>5, <2>6
<1>2. /\ attempts' = [attempts EXCEPT ![f] = Append(attempts[f], a)]
      /\ attempts'[f] = Append(attempts[f], a)
  BY DEF Conclude, Types
<1>3. /\ attempts'[f] \in Seq(Attempt) /\ Len(attempts'[f]) = n + 1
      /\ \A i \in 1..n : attempts'[f][i] = attempts[f][i]
      /\ attempts'[f][n + 1] = a
  BY <1>1, <1>2, AppendProperties
<1>4. a.outcome \in Outcomes
  BY DEF Attempt
<1>5. \A i \in 1..(n + 1) :
         /\ i <= n => ShouldEscalate(i, attempts'[f][i])
         /\ attempts'[f][i].signal => attempts'[f][i].outcome = "failure"
         /\ i = 2 /\ attempts'[f][i].outcome = "skipped" => skip'[f] = {"robots", "head"}
  <2> SUFFICES ASSUME NEW i \in 1..(n + 1)
               PROVE  /\ i <= n => ShouldEscalate(i, attempts'[f][i])
                      /\ attempts'[f][i].signal => attempts'[f][i].outcome = "failure"
                      /\ i = 2 /\ attempts'[f][i].outcome = "skipped"
                            => skip'[f] = {"robots", "head"}
    OBVIOUS
  <2>1. CASE i \in 1..n
    BY <1>1, <1>3, <2>1 DEF Climbed
  <2>2. CASE i = n + 1
    BY <1>1, <1>3, <2>2
  <2> QED
    BY <1>1, <2>1, <2>2
<1>6. CASE ShouldEscalate(Phase(f), a)
  <2>1. /\ pc' = [pc EXCEPT ![f] = "next"]
        /\ UNCHANGED <<ctxDone, outcome, content, upsert>>
    BY <1>6 DEF Conclude, Escalate
  <2>2. n <= 3
    BY <1>1, <1>6 DEF ShouldEscalate
  <2>3. Moved(f) /\ CallTypes(f) /\ pc'[f] = "next"
    BY <1>2, <1>3, <2>1 DEF Moved, CallTypes, Types, States
  <2>4. Placed(f)'
    BY <1>1, <1>3, <2>1, <2>2, <2>3 DEF Placed, InPhase5
  <2>5. Climbed(f)'
    <3> SUFFICES ASSUME NEW i \in 1..(n + 1) PROVE ShouldEscalate(i, attempts'[f][i])
      BY <1>3, <1>5 DEF Climbed
    <3>1. CASE i <= n
      BY <1>5, <3>1
    <3>2. CASE i = n + 1
      BY <1>1, <1>3, <1>6, <3>2
    <3> QED
      BY <1>1, <3>1, <3>2
  <2>6. Settled(f)'
    BY <1>1, <2>1 DEF Settled
  <2> QED
    BY <2>3, <2>4, <2>5, <2>6 DEF CallOK
<1>7. CASE ~ShouldEscalate(Phase(f), a)
  <2>1. Finish(f, a.outcome, from)
    BY <1>7 DEF Conclude
  <2>2. from \in 0..5 /\ (from # 0 => from = n + 1) /\ (from # 0 <=> a.outcome = "success")
    <3>1. Phase(f) \in 1..5 /\ Phase(f) = n + 1
      <4>1. n \in 0..4 /\ Phase(f) = n + 1
        BY <1>1
      <4> HIDE DEF n
      <4> QED
        BY <4>1
    <3>2. CASE a.outcome = "success"
      BY <3>1, <3>2
    <3>3. CASE a.outcome # "success"
      BY <3>3
    <3> QED
      BY <3>2, <3>3
  <2> HIDE DEF from
  <2>3. /\ pc'[f] = "returned" /\ outcome'[f] = a.outcome /\ content'[f] = from
        /\ upsert'[f] \in {"none", "running"} /\ (upsert'[f] = "running" => from # 0)
    BY <1>1, <2>1 DEF Finish, Types
  <2>4. Moved(f)
    BY <1>1, <1>2, <2>1 DEF Moved, Types, Finish
  <2>5. CallTypes(f)
    BY <1>3, <1>4, <2>2, <2>3 DEF CallTypes, Types, States, Upserts
  <2>6. Placed(f)'
    BY <1>1, <1>3, <2>3 DEF Placed, InPhase5
  <2>7. Climbed(f)'
    <3> SUFFICES ASSUME NEW i \in 1..(n + 1), i < n + 1
                 PROVE  ShouldEscalate(i, attempts'[f][i])
      BY <1>3, <1>5, <2>3 DEF Climbed
    <3> QED
      BY <1>1, <1>5
  <2>8. Settled(f)'
    BY <1>3, <2>2, <2>3 DEF Settled
  <2> QED
    BY <2>3, <2>4, <2>5, <2>6, <2>7, <2>8 DEF CallOK
<1> QED
  BY <1>6, <1>7

(* A step of one call keeps what holds of all of them.                     *)
LEMMA OthersKeep ==
    ASSUME Types, \A g \in Fetches : CallOK(g), OwedOK,
           NEW f \in Fetches, Moved(f), CallTypes(f), CallOK(f)',
           UNCHANGED closer, robots' \in {"unknown", "allow", "disallow"}, pool' \in Nat
    PROVE  Types' /\ (\A g \in Fetches : CallOK(g)') /\ OwedOK'
<1>1. Types'
  <2>1. /\ pc' \in [Fetches -> States] /\ skip' \in [Fetches -> SUBSET {"robots", "head"}]
        /\ attempts' \in [Fetches -> Seq(Attempt)]
    BY DEF Types, Moved, CallTypes
  <2>2. /\ outcome' \in [Fetches -> {"none"} \cup Outcomes]
        /\ content' \in [Fetches -> 0..5] /\ upsert' \in [Fetches -> Upserts]
    BY DEF Types, Moved, CallTypes
  <2> QED
    BY <2>1, <2>2 DEF Types, Moved, closer
<1>2. ASSUME NEW g \in Fetches PROVE CallOK(g)'
  <2>1. CASE g = f
    BY <2>1
  <2>2. CASE g # f
    <3>1. /\ pc'[g] = pc[g] /\ skip'[g] = skip[g] /\ attempts'[g] = attempts[g]
          /\ outcome'[g] = outcome[g] /\ content'[g] = content[g] /\ upsert'[g] = upsert[g]
      BY <2>2 DEF Types, Moved
    <3> QED
      BY <3>1, Unmoved
  <2> QED
    BY <2>1, <2>2
<1>3. OwedOK'
  <2>1. \A g \in Fetches : upsert[g] # "none" => upsert'[g] \in {upsert[g], "done"}
    BY DEF Types, Moved
  <2> QED
    BY <2>1 DEF Types, OwedOK, OwedUpsertsDrained, closer
<1> QED
  BY <1>1, <1>2, <1>3

(* Who holds a browser changes only by the call that steps.                *)
LEMMA HoldersAfter ==
    ASSUME Types, NEW f \in Fetches, Moved(f)
    PROVE  /\ pc'[f] \in {"browsing", "refilling"} => Holders' = Holders \cup {f}
           /\ pc'[f] \notin {"browsing", "refilling"} => Holders' = Holders \ {f}
BY DEF Types, Moved, Holders

(* The pool takes back what a call gives up, and gives out one at a time.  *)
LEMMA PoolKept ==
    ASSUME Types, PoolOK, NEW f \in Fetches, Moved(f), pool' \in Nat,
           \/ pool' <= pool /\ (f \in Holders <=> pc'[f] \in {"browsing", "refilling"})
           \/ pool' <= pool + 1 /\ f \in Holders /\ pc'[f] \notin {"browsing", "refilling"}
           \/ pool' = pool - 1 /\ f \notin Holders /\ pc'[f] = "browsing"
    PROVE  PoolOK'
<1>1. IsFiniteSet(Holders) /\ Cardinality(Holders) \in Nat /\ pool \in Nat
  BY FS_CardinalityType DEF PoolOK, Types
<1>2. /\ IsFiniteSet(Holders \cup {f}) /\ IsFiniteSet(Holders \ {f})
      /\ Cardinality(Holders \cup {f}) =
            IF f \in Holders THEN Cardinality(Holders) ELSE Cardinality(Holders) + 1
      /\ Cardinality(Holders \ {f}) =
            IF f \in Holders THEN Cardinality(Holders) - 1 ELSE Cardinality(Holders)
  BY <1>1, FS_AddElement, FS_RemoveElement
<1>3. CASE pool' <= pool /\ (f \in Holders <=> pc'[f] \in {"browsing", "refilling"})
  <2>1. Holders' = Holders
    BY <1>3, HoldersAfter
  <2> QED
    BY <1>1, <1>3, <2>1, AccessAssumption DEF PoolOK
<1>4. CASE pool' <= pool + 1 /\ f \in Holders /\ pc'[f] \notin {"browsing", "refilling"}
  <2>1. Holders' = Holders \ {f}
    BY <1>4, HoldersAfter
  <2> QED
    BY <1>1, <1>2, <1>4, <2>1, AccessAssumption DEF PoolOK
<1>5. CASE pool' = pool - 1 /\ f \notin Holders /\ pc'[f] = "browsing"
  <2>1. Holders' = Holders \cup {f}
    BY <1>5, HoldersAfter
  <2> QED
    BY <1>1, <1>2, <1>5, <2>1, AccessAssumption DEF PoolOK
<1> QED
  BY <1>3, <1>4, <1>5

-----------------------------------------------------------------------------
(* What every step of a call f does to it.                                 *)
Steps(f) == Moved(f) /\ CallTypes(f) /\ CallOK(f)'

Fits(s, n) ==
    /\ s \in {"idle", "refused"} => n = 0
    /\ s = "next" => n <= 4
    /\ s = "phase" => n <= 3
    /\ s \in {"robots", "head"} => n = 1
    /\ s \in InPhase5 => n = 4

(* A call that goes somewhere without an attempt, its options unchanged    *)
(* unless it has only just been made.                                      *)
LEMMA Going ==
    ASSUME Types, NEW f \in Fetches, CallOK(f), pc[f] # "returned",
           NEW s \in States \ {"returned"}, pc' = [pc EXCEPT ![f] = s],
           Fits(s, Len(attempts[f])),
           UNCHANGED <<attempts, ctxDone, outcome, content, upsert>>,
           skip' = skip \/ (pc[f] = "idle" /\ skip' = [skip EXCEPT ![f] = skip'[f]]
                               /\ skip'[f] \subseteq {"robots", "head"})
    PROVE  Steps(f)
<1>1. Moved(f) /\ CallTypes(f)
  BY DEF Types, Moved, CallTypes
<1>2. Placed(f)'
  <2>1. pc'[f] = s /\ attempts'[f] = attempts[f] /\ outcome'[f] = "none"
        /\ content'[f] = 0 /\ upsert'[f] = "none" /\ Len(attempts[f]) <= 5
    BY DEF Types, CallOK, Placed
  <2> QED
    BY <2>1 DEF Placed, Fits
<1>3. Climbed(f)'
  <2>1. CASE skip' = skip
    BY <2>1 DEF Types, CallOK, Climbed
  <2>2. CASE pc[f] = "idle"
    <3>1. Len(attempts[f]) = 0 /\ attempts' = attempts
      BY <2>2 DEF CallOK, Placed
    <3> QED
      BY <3>1 DEF Climbed
  <2> QED
    BY <2>1, <2>2
<1>4. Settled(f)'
  BY DEF CallOK, Settled
<1> QED
  BY <1>1, <1>2, <1>3, <1>4 DEF Steps, CallOK

(* A call that ends without content, before or between two phases.         *)
LEMMA Ending ==
    ASSUME Types, NEW f \in Fetches, CallOK(f), pc[f] \in {"idle", "next"},
           NEW o \in {"timeout", "cancelled"}, Finish(f, o, 0), attempts' = attempts,
           skip' = skip \/ (pc[f] = "idle" /\ skip' = [skip EXCEPT ![f] = skip'[f]]
                               /\ skip'[f] \subseteq {"robots", "head"})
    PROVE  Steps(f) /\ pc'[f] = "returned"
<1>1. /\ pc' = [pc EXCEPT ![f] = "returned"] /\ outcome' = [outcome EXCEPT ![f] = o]
      /\ content' = [content EXCEPT ![f] = 0] /\ upsert' = upsert /\ ctxDone' = ctxDone
  BY DEF Finish
<1>2. Moved(f) /\ CallTypes(f)
  BY <1>1 DEF Types, Moved, CallTypes, States, Outcomes
<1>3. Placed(f)'
  <2>1. Len(attempts[f]) <= 5
    BY DEF CallOK, Placed
  <2> QED
    BY <1>1, <2>1 DEF Types, Placed, InPhase5
<1>4. Climbed(f)'
  <2>1. CASE skip' = skip
    <3>1. pc'[f] = "returned" /\ pc[f] # "returned" /\ attempts'[f] = attempts[f] /\ skip'[f] = skip[f]
      BY <1>1, <2>1 DEF Types
    <3> QED
      BY <3>1 DEF CallOK, Climbed
  <2>2. CASE pc[f] = "idle"
    <3>1. Len(attempts[f]) = 0 /\ attempts' = attempts
      BY <2>2 DEF CallOK, Placed
    <3> QED
      BY <3>1 DEF Climbed
  <2> QED
    BY <2>1, <2>2
<1>5. Settled(f)'
  <2>1. outcome'[f] = o /\ content'[f] = 0 /\ upsert'[f] = "none"
    BY <1>1 DEF Types, CallOK, Placed
  <2> QED
    BY <2>1 DEF Settled
<1> QED
  BY <1>1, <1>2, <1>3, <1>4, <1>5 DEF Steps, CallOK, Types

(* Fetch is called: refused, ended, or on its way through the phases.      *)
LEMMA EnterSteps ==
    ASSUME Types, NEW f \in Fetches, CallOK(f), Enter(f)
    PROVE  Steps(f) /\ pc'[f] \in {"refused", "returned", "next"}
<1>1. pc[f] = "idle" /\ Len(attempts[f]) = 0 /\ attempts' = attempts
  BY DEF Enter, CallOK, Placed
<1>2. skip' = [skip EXCEPT ![f] = skip'[f]] /\ skip'[f] \subseteq {"robots", "head"}
  BY AccessAssumption DEF Enter, Types
<1>3. CASE closing # "open"
  <2>1. pc' = [pc EXCEPT ![f] = "refused"] /\ UNCHANGED <<ctxDone, outcome, content, upsert>>
    BY <1>3 DEF Enter
  <2>2. Fits("refused", Len(attempts[f])) /\ "refused" \in States \ {"returned"}
    BY <1>1 DEF Fits, States, InPhase5
  <2> QED
    BY <1>1, <1>2, <2>1, <2>2, Going DEF Types
<1>4. CASE closing = "open" /\ ctxDone[f]
  <2>1. Finish(f, "cancelled", 0)
    BY <1>4 DEF Enter
  <2> QED
    BY <1>1, <1>2, <2>1, Ending
<1>5. CASE closing = "open" /\ ~ctxDone[f]
  <2>1. pc' = [pc EXCEPT ![f] = "next"] /\ UNCHANGED <<ctxDone, outcome, content, upsert>>
    BY <1>5 DEF Enter, Escalate
  <2>2. Fits("next", Len(attempts[f])) /\ "next" \in States \ {"returned"}
    BY <1>1 DEF Fits, States, InPhase5
  <2> QED
    BY <1>1, <1>2, <2>1, <2>2, Going DEF Types
<1> QED
  BY <1>3, <1>4, <1>5

(* The top of the loop: the next phase, or an end with the context.        *)
LEMMA NextPhaseSteps ==
    ASSUME Types, NEW f \in Fetches, CallOK(f), NextPhase(f)
    PROVE  Steps(f) /\ pc'[f] \in {"returned", "phase", "waiting"}
<1>1. pc[f] = "next" /\ attempts' = attempts /\ skip' = skip
  BY DEF NextPhase
<1>2. Len(attempts[f]) \in 0..4
  <2>1. Len(attempts[f]) <= 4
    BY <1>1 DEF CallOK, Placed
  <2>2. Len(attempts[f]) \in Nat
    BY LenProperties DEF Types
  <2> DEFINE n == Len(attempts[f])
  <2> HIDE DEF n
  <2>3. n \in Nat /\ n <= 4 => n \in 0..4
    OBVIOUS
  <2> QED
    BY <2>1, <2>2, <2>3 DEF n
<1>3. CASE ctxDone[f]
  <2>1. PICK o \in {"timeout", "cancelled"} : Finish(f, o, 0)
    BY <1>3 DEF NextPhase
  <2> QED
    BY <1>1, <2>1, Ending
<1>4. CASE ~ctxDone[f]
  <2> DEFINE s == IF Phase(f) = 5 THEN "waiting" ELSE "phase"
  <2>1. pc' = [pc EXCEPT ![f] = s] /\ UNCHANGED <<ctxDone, outcome, content, upsert>>
    BY <1>4 DEF NextPhase
  <2>2. Fits(s, Len(attempts[f]))
    <3> DEFINE n == Len(attempts[f])
    <3>1. n \in 0..4 /\ Phase(f) = n + 1
      BY <1>2 DEF Phase
    <3> HIDE DEF n
    <3>2. Fits(s, n)
      BY <3>1 DEF Fits, InPhase5
    <3> QED
      BY <3>2 DEF n
  <2>3. s \in {"waiting", "phase"} /\ s \in States \ {"returned"}
    BY DEF States, InPhase5
  <2> HIDE DEF s
  <2> QED
    BY <1>1, <2>1, <2>2, <2>3, Going DEF Types
<1> QED
  BY <1>3, <1>4

(* A phase has run and is recorded: the next one, or the end.              *)
LEMMA RunPhaseSteps ==
    ASSUME Types, NEW f \in Fetches, CallOK(f), RunPhase(f)
    PROVE  Steps(f) /\ pc'[f] \in {"next", "returned"}
<1>1. PICK a \in Answers(Phase(f)) : Conclude(f, a)
  BY DEF RunPhase
<1>2. a \in Attempt /\ (a.signal => a.outcome = "failure")
  <2> DEFINE Fair(x) == x \in Attempt /\ (x.signal => x.outcome = "failure")
  <2>4. \A o \in Outcomes : Fair(Plain(o))
    BY DEF Plain, Attempt
  <2>5. {"success", "miss", "failure", "skipped", "blocked"} \subseteq Outcomes
    BY DEF Outcomes
  <2>6. Fair([outcome |-> "failure", signal |-> TRUE])
    BY <2>5 DEF Attempt
  <2> HIDE DEF Fair
  <2>1. \A x \in IndexAnswers : Fair(x)
    BY <2>4, <2>5 DEF IndexAnswers
  <2>2. \A x \in GetAnswers : Fair(x)
    BY <2>4, <2>5, <2>6 DEF GetAnswers
  <2>3. a \in IndexAnswers \/ a \in GetAnswers
    BY DEF Answers, TLSAnswers
  <2>7. Fair(a)
    BY <2>1, <2>2, <2>3
  <2> QED
    BY <2>7 DEF Fair
<1>3. pc[f] = "phase" /\ Phase(f) # 2 /\ skip' = skip
  BY DEF RunPhase
<1>4. Len(attempts[f]) <= 3 /\ pc[f] \in Running
  BY <1>3 DEF CallOK, Placed, Running
<1> QED
  BY <1>1, <1>2, <1>3, <1>4, Concluding DEF Steps

(* Phase 2 is phase 2 wherever it is left.                                 *)
LEMMA VerdictSteps ==
    ASSUME Types, NEW f \in Fetches, CallOK(f), pc[f] \in {"phase", "robots"},
           Len(attempts[f]) = 1, NEW data, Verdict(f, data), skip' = skip
    PROVE  Steps(f) /\ pc'[f] \in {"next", "returned", "head"}
<1>1. pc[f] \in Running /\ (pc[f] = "phase" => Len(attempts[f]) <= 3) /\ pc[f] # "returned"
  <2>1. (pc[f] = "phase" => Len(attempts[f]) <= 3)
    BY DEF CallOK, Placed
  <2> QED
    BY <2>1 DEF Running
<1>2. /\ Plain("blocked") \in Attempt /\ Plain("success") \in Attempt
      /\ ~Plain("blocked").signal /\ ~Plain("success").signal
      /\ Plain("blocked").outcome # "skipped" /\ Plain("success").outcome # "skipped"
  BY DEF Plain, Attempt, Outcomes
<1>3. CASE data = "disallow"
  <2>1. Conclude(f, Plain("blocked"))
    BY <1>3 DEF Verdict
  <2> QED
    BY <1>1, <1>2, <2>1, Concluding DEF Steps
<1>4. CASE data # "disallow" /\ "head" \in skip[f]
  <2>1. Conclude(f, Plain("success"))
    BY <1>4 DEF Verdict
  <2> QED
    BY <1>1, <1>2, <2>1, Concluding DEF Steps
<1>5. CASE data # "disallow" /\ "head" \notin skip[f]
  <2>1. /\ pc' = [pc EXCEPT ![f] = "head"]
        /\ UNCHANGED <<attempts, ctxDone, outcome, content, upsert>>
    BY <1>5 DEF Verdict
  <2>2. Fits("head", Len(attempts[f])) /\ "head" \in States \ {"returned"}
    BY DEF Fits, States, InPhase5
  <2> QED
    BY <1>1, <2>1, <2>2, Going DEF Types
<1> QED
  BY <1>3, <1>4, <1>5

(* Phase 2 looks at robots.txt and HEAD as far as not skipped.             *)
LEMMA ProbeSteps ==
    ASSUME Types, NEW f \in Fetches, CallOK(f), Probe(f)
    PROVE  Steps(f) /\ pc'[f] \in {"next", "returned", "head", "robots"}
<1>1. pc[f] = "phase" /\ Phase(f) = 2 /\ skip' = skip
  BY DEF Probe
<1>2. Len(attempts[f]) = 1
  <2>1. Len(attempts[f]) \in Nat
    BY LenProperties DEF Types
  <2> DEFINE n == Len(attempts[f])
  <2>2. n + 1 = 2
    BY <1>1 DEF Phase
  <2> HIDE DEF n
  <2>3. n \in Nat /\ n + 1 = 2 => n = 1
    OBVIOUS
  <2> QED
    BY <2>1, <2>2, <2>3 DEF n
<1>3. CASE skip[f] = {"robots", "head"} /\ Conclude(f, Plain("skipped"))
  <2>1. Plain("skipped") \in Attempt /\ ~Plain("skipped").signal /\ pc[f] \in Running
    BY <1>1 DEF Plain, Attempt, Outcomes, Running
  <2>2. pc[f] = "phase" => Len(attempts[f]) <= 3
    BY DEF CallOK, Placed
  <2> QED
    BY <1>1, <1>3, <2>1, <2>2, Concluding DEF Steps
<1>4. CASE Verdict(f, IF "robots" \in skip[f] THEN "allow" ELSE robots)
  BY <1>1, <1>2, <1>4, VerdictSteps
<1>5. CASE /\ pc' = [pc EXCEPT ![f] = "robots"]
           /\ UNCHANGED <<attempts, ctxDone, outcome, content, upsert>>
  <2>1. Fits("robots", Len(attempts[f])) /\ "robots" \in States \ {"returned"}
    BY <1>2 DEF Fits, States, InPhase5
  <2> QED
    BY <1>1, <1>5, <2>1, Going DEF Types
<1> QED
  BY <1>3, <1>4, <1>5 DEF Probe

(* robots.txt is read, and its verdict taken.                              *)
LEMMA FetchRobotsSteps ==
    ASSUME Types, NEW f \in Fetches, CallOK(f), FetchRobots(f)
    PROVE  Steps(f) /\ pc'[f] \in {"next", "returned", "head"}
<1>1. pc[f] = "robots" /\ Len(attempts[f]) = 1 /\ skip' = skip
  BY DEF FetchRobots, CallOK, Placed
<1> QED
  BY <1>1, VerdictSteps DEF FetchRobots

(* The HEAD probe, which may end the cascade.                              *)
LEMMA HeadProbeSteps ==
    ASSUME Types, NEW f \in Fetches, CallOK(f), HeadProbe(f)
    PROVE  Steps(f) /\ pc'[f] \in {"next", "returned"}
<1>1. PICK o \in {"success", "failure"} : Conclude(f, Plain(o))
  BY DEF HeadProbe
<1>2. Plain(o) \in Attempt /\ ~Plain(o).signal /\ Plain(o).outcome # "skipped"
  BY DEF Plain, Attempt, Outcomes
<1>3. pc[f] = "head" /\ pc[f] \in Running /\ skip' = skip
  BY DEF HeadProbe, Running
<1> QED
  BY <1>1, <1>2, <1>3, Concluding DEF Steps

(* Phase 5 ends with an attempt without a signal.                          *)
LEMMA BrowserEnds ==
    ASSUME Types, NEW f \in Fetches, CallOK(f), pc[f] \in InPhase5,
           NEW o \in {"success", "failure", "timeout"}, Conclude(f, Plain(o)), skip' = skip
    PROVE  Steps(f) /\ pc'[f] \in {"next", "returned"}
<1>1. Plain(o) \in Attempt /\ ~Plain(o).signal /\ Plain(o).outcome # "skipped"
  BY DEF Plain, Attempt, Outcomes
<1>2. pc[f] \in Running /\ pc[f] # "phase"
  BY DEF Running, InPhase5
<1> QED
  BY <1>1, <1>2, Concluding DEF Steps

(* A call takes a browser, or throws the one it has away.                  *)
LEMMA BrowserHeld ==
    ASSUME Types, NEW f \in Fetches, CallOK(f), TakeBrowser(f) \/ Discard(f)
    PROVE  Steps(f) /\ pc'[f] \in {"browsing", "refilling"}
<1>1. pc[f] \in InPhase5 /\ pc[f] # "returned" /\ Len(attempts[f]) = 4
  <2>1. pc[f] \in InPhase5 /\ pc[f] # "returned"
    BY DEF TakeBrowser, Discard, InPhase5
  <2> QED
    BY <2>1 DEF CallOK, Placed
<1>2. PICK s \in {"browsing", "refilling"} :
         /\ pc' = [pc EXCEPT ![f] = s]
         /\ UNCHANGED <<skip, attempts, ctxDone, outcome, content, upsert>>
  BY DEF TakeBrowser, Discard
<1>3. s \in States \ {"returned"} /\ Fits(s, Len(attempts[f]))
  BY <1>1 DEF States, InPhase5, Fits
<1> QED
  BY <1>1, <1>2, <1>3, Going DEF Types

(* A write-through ends and is no longer owed.                             *)
LEMMA UpsertDoneSteps ==
    ASSUME Types, NEW f \in Fetches, CallOK(f), UpsertDone(f)
    PROVE  Steps(f) /\ pc' = pc
<1>1. /\ upsert[f] = "running" /\ upsert' = [upsert EXCEPT ![f] = "done"]
      /\ UNCHANGED <<pc, skip, attempts, ctxDone, outcome, content>>
  BY DEF UpsertDone
<1>2. Moved(f) /\ CallTypes(f)
  BY <1>1 DEF Types, Moved, CallTypes, Upserts
<1>3. Placed(f)' /\ Climbed(f)' /\ Settled(f)'
  BY <1>1 DEF Types, CallOK, Placed, Climbed, Settled
<1> QED
  BY <1>1, <1>2, <1>3 DEF Steps, CallOK

(* A caller's context ends, whatever the call is at.                       *)
LEMMA ContextEndsSteps ==
    ASSUME Types, NEW f \in Fetches, CallOK(f), ContextEnds(f)
    PROVE  Steps(f) /\ pc' = pc
<1>1. /\ ctxDone' = [ctxDone EXCEPT ![f] = TRUE]
      /\ UNCHANGED <<pc, skip, attempts, outcome, content, upsert>>
  BY DEF ContextEnds
<1>2. ctxDone' \in [Fetches -> BOOLEAN]
  BY <1>1 DEF Types
<1>3. Moved(f) /\ CallTypes(f)
  BY <1>1, <1>2 DEF Types, Moved, CallTypes
<1> QED
  BY <1>1, <1>3, Unmoved DEF Steps

-----------------------------------------------------------------------------
(* At first no call has begun and all browsers are in the pool.            *)
LEMMA InitInv == Init => AInv
<1> SUFFICES ASSUME Init PROVE AInv
  OBVIOUS
<1>1. Types
  <2>1. <<>> \in Seq(Attempt)
    BY EmptySeq
  <2>2. attempts \in [Fetches -> Seq(Attempt)]
    BY <2>1 DEF Init
  <2>3. /\ pc \in [Fetches -> States] /\ skip \in [Fetches -> SUBSET {"robots", "head"}]
        /\ ctxDone \in [Fetches -> BOOLEAN] /\ content \in [Fetches -> 0..5]
    BY DEF Init, States
  <2>4. /\ outcome \in [Fetches -> {"none"} \cup Outcomes]
        /\ upsert \in [Fetches -> Upserts]
    BY DEF Init, Upserts
  <2>5. pool \in Nat
    BY AccessAssumption DEF Init
  <2>6. /\ robots \in {"unknown", "allow", "disallow"}
        /\ closing \in {"open", "draining", "closed"}
        /\ gaveUp \in BOOLEAN /\ owed \subseteq Fetches
    BY DEF Init
  <2> QED
    BY <2>2, <2>3, <2>4, <2>5, <2>6 DEF Types
<1>2. \A f \in Fetches : CallOK(f)
  <2> SUFFICES ASSUME NEW f \in Fetches PROVE CallOK(f)
    OBVIOUS
  <2>1. Len(attempts[f]) = 0 /\ attempts[f] = <<>>
    BY EmptySeq DEF Init
  <2>2. Placed(f)
    BY <2>1 DEF Init, Placed, InPhase5
  <2>3. Climbed(f)
    BY <2>1 DEF Climbed
  <2>4. Settled(f)
    BY DEF Init, Settled
  <2> QED
    BY <2>2, <2>3, <2>4 DEF CallOK
<1>3. PoolOK
  <2>1. Holders = {}
    BY DEF Init, Holders
  <2> QED
    BY <2>1, FS_EmptySet, AccessAssumption DEF Init, PoolOK
<1>4. OwedOK
  BY DEF Init, OwedOK, OwedUpsertsDrained
<1> QED
  BY <1>1, <1>2, <1>3, <1>4 DEF AInv

(* One step per action; a step of a call keeps the other calls and what    *)
(* Close is owed, and leaves the pool as it was unless it is in phase 5.   *)
LEMMA FetchStep ==
    ASSUME AInv, NEW f \in Fetches,
           Enter(f) \/ Cascade(f) \/ Browse(f) \/ UpsertDone(f) \/ ContextEnds(f)
    PROVE  AInv'
<1>1. Types /\ CallOK(f) /\ PoolOK /\ OwedOK /\ (\A g \in Fetches : CallOK(g)) /\ pool \in Nat
  BY DEF AInv, Types
<1>2. UNCHANGED closer /\ robots' \in {"unknown", "allow", "disallow"}
  BY <1>1 DEF Types, closer, Cascade, Browse, Enter, NextPhase, RunPhase, Probe, FetchRobots,
              HeadProbe, TakeBrowser, PoolTimeout, Rendered, Discard, Refill, UpsertDone,
              ContextEnds
<1>3. CASE Enter(f) \/ Cascade(f) \/ UpsertDone(f) \/ ContextEnds(f) \/ PoolTimeout(f)
           \/ Discard(f)
  <2>1. Steps(f) /\ (f \in Holders <=> pc'[f] \in {"browsing", "refilling"})
    <3>1. CASE Enter(f)
      BY <1>1, <3>1, EnterSteps DEF Enter, Holders
    <3>2. CASE NextPhase(f)
      BY <1>1, <3>2, NextPhaseSteps DEF NextPhase, Holders
    <3>3. CASE RunPhase(f)
      BY <1>1, <3>3, RunPhaseSteps DEF RunPhase, Holders
    <3>4. CASE Probe(f)
      BY <1>1, <3>4, ProbeSteps DEF Probe, Holders
    <3>5. CASE FetchRobots(f)
      BY <1>1, <3>5, FetchRobotsSteps DEF FetchRobots, Holders
    <3>6. CASE HeadProbe(f)
      BY <1>1, <3>6, HeadProbeSteps DEF HeadProbe, Holders
    <3>7. CASE UpsertDone(f)
      BY <1>1, <3>7, UpsertDoneSteps DEF Holders
    <3>8. CASE ContextEnds(f)
      BY <1>1, <3>8, ContextEndsSteps DEF Holders
    <3>9. CASE PoolTimeout(f)
      BY <1>1, <3>9, BrowserEnds DEF PoolTimeout, InPhase5, Holders
    <3>10. CASE Discard(f)
      BY <1>1, <3>10, BrowserHeld DEF Discard, Holders
    <3> QED
      BY <1>3, <3>1, <3>2, <3>3, <3>4, <3>5, <3>6, <3>7, <3>8, <3>9, <3>10 DEF Cascade
  <2>2. pool' = pool
    BY <1>3 DEF Cascade, Enter, NextPhase, RunPhase, Probe, FetchRobots, HeadProbe,
                PoolTimeout, Discard, UpsertDone, ContextEnds
  <2>3. PoolOK'
    BY <1>1, <2>1, <2>2, PoolKept DEF Steps
  <2> QED
    BY <1>1, <1>2, <2>1, <2>2, <2>3, OthersKeep DEF AInv, Steps
<1>4. CASE TakeBrowser(f)
  <2>1. Steps(f) /\ pc'[f] = "browsing" /\ f \notin Holders /\ pool' = pool - 1 /\ pool' \in Nat
    <3>1. pool' = pool - 1 /\ pool > 0 /\ pc[f] = "waiting"
      BY <1>4 DEF TakeBrowser
    <3>2. pc'[f] = "browsing"
      BY <1>1, <1>4 DEF TakeBrowser, Types
    <3>3. f \notin Holders
      BY <3>1 DEF Holders
    <3>4. Steps(f)
      BY <1>1, <1>4, BrowserHeld DEF TakeBrowser
    <3>5. pool' \in Nat
      BY <1>1, <3>1
    <3> QED
      BY <3>1, <3>2, <3>3, <3>4, <3>5
  <2>2. PoolOK'
    BY <1>1, <2>1, PoolKept DEF Steps
  <2> QED
    BY <1>1, <1>2, <2>1, <2>2, OthersKeep DEF AInv, Steps
<1>5. CASE Rendered(f) \/ Refill(f)
  <2>1. f \in Holders /\ pool' <= pool + 1 /\ pool' \in Nat
    BY <1>1, <1>5 DEF Rendered, Refill, Holders
  <2>2. Steps(f) /\ pc'[f] \in {"next", "returned"}
    BY <1>1, <1>5, BrowserEnds DEF Rendered, Refill, InPhase5
  <2>3. PoolOK'
    BY <1>1, <2>1, <2>2, PoolKept DEF Steps
  <2> QED
    BY <1>1, <1>2, <2>1, <2>2, <2>3, OthersKeep DEF AInv, Steps
<1> QED
  BY <1>3, <1>4, <1>5 DEF Browse

(* The robots cache and Close touch no call.                               *)
LEMMA CloserStep ==
    ASSUME AInv, RobotsExpire \/ Begin \/ Drain \/ GiveUp \/ UNCHANGED vars
    PROVE  AInv'
<1>1. Types /\ PoolOK /\ OwedOK /\ (\A g \in Fetches : CallOK(g))
  BY DEF AInv
<1>2. UNCHANGED call
  BY DEF RobotsExpire, Begin, Drain, GiveUp, CloseNow, vars
<1>3. Types'
  <2>1. /\ robots' \in {"unknown", "allow", "disallow"} /\ pool' \in Nat
        /\ closing' \in {"open", "draining", "closed"} /\ owed' \subseteq Fetches
    BY <1>1 DEF Types, RobotsExpire, Begin, Drain, GiveUp, CloseNow, vars, closer
  <2>2. gaveUp' \in BOOLEAN
    BY <1>1 DEF Types, RobotsExpire, Begin, Drain, GiveUp, CloseNow, vars, closer
  <2> QED
    BY <1>1, <1>2, <2>1, <2>2 DEF Types, call
<1>4. \A g \in Fetches : CallOK(g)'
  BY <1>1, <1>2, Unmoved DEF call
<1>5. PoolOK'
  <2>1. Holders' = Holders
    BY <1>2 DEF call, Holders
  <2>2. pool' = pool \/ pool' = 0
    BY DEF RobotsExpire, Begin, Drain, GiveUp, CloseNow, vars
  <2>3. Cardinality(Holders) \in Nat /\ pool \in Nat
    BY <1>1, FS_CardinalityType DEF PoolOK, Types
  <2> QED
    BY <1>1, <2>1, <2>2, <2>3, AccessAssumption DEF PoolOK
<1>6. OwedOK'
  <2>1. CASE Begin
    BY <1>2, <2>1 DEF Begin, OwedOK, OwedUpsertsDrained, call
  <2>2. CASE Drain
    BY <1>1, <1>2, <2>2 DEF Drain, Drained, CloseNow, OwedOK, OwedUpsertsDrained, Types,
                            Upserts, call
  <2>3. CASE GiveUp
    BY <1>1, <1>2, <2>3 DEF GiveUp, CloseNow, OwedOK, OwedUpsertsDrained, call
  <2>4. CASE RobotsExpire \/ UNCHANGED vars
    BY <1>1, <1>2, <2>4 DEF RobotsExpire, vars, closer, OwedOK, OwedUpsertsDrained, call
  <2> QED
    BY <2>1, <2>2, <2>3, <2>4
<1> QED
  BY <1>3, <1>4, <1>5, <1>6 DEF AInv

(* Every step of the fetcher keeps it.                                     *)
LEMMA FetcherStep == AInv /\ [Next]_vars => AInv'
  BY FetchStep, CloserStep DEF Next

(* The fetcher's invariant: calls agree with the attempts they recorded,   *)
(* browsers and owed write-throughs are accounted for (cascade.go,         *)
(* phase5_browser.go, cache_writethrough.go).                              *)
THEOREM FetchInductive == Spec => []AInv
  BY FetcherStep, InitInv, PTL DEF Spec

-----------------------------------------------------------------------------
(* The types, and the bounds on attempts and browsers, are in it too.      *)
LEMMA InvTypes == AInv => TypeOK
<1> SUFFICES ASSUME AInv PROVE TypeOK
  OBVIOUS
<1>1. \A f \in Fetches : attempts[f] \in Seq(Attempt) /\ Len(attempts[f]) <= 5
  BY DEF AInv, Types, CallOK, Placed
<1>2. pool \in 0..MaxBrowsers
  <2>1. pool \in Nat /\ Cardinality(Holders) \in Nat /\ pool + Cardinality(Holders) <= MaxBrowsers
    BY FS_CardinalityType DEF AInv, Types, PoolOK
  <2> QED
    BY <2>1, AccessAssumption
<1> QED
  BY <1>1, <1>2 DEF AInv, Types, TypeOK, States, Upserts

(* The pool's count and what a drain is owed are in the invariant.         *)
LEMMA InvAccounted == AInv => FetcherAccounted
BY DEF AInv, PoolOK, OwedOK, FetcherAccounted, BrowsersAccounted

(* phase5_browser.go and access.go: with any number of concurrent calls no *)
(* more than MaxBrowsers browsers ever exist, and a Close or a Shutdown in *)
(* time ends only when the write-throughs it found running have ended.     *)
THEOREM Accounted == Spec => []FetcherAccounted
BY FetchInductive, InvAccounted, PTL

(* The recorded attempts justify the phase that was entered.               *)
LEMMA InvHonest == AInv => PhasesHonest
<1> SUFFICES ASSUME AInv PROVE EarnedPhases /\ ContentIsSuccess
  BY DEF PhasesHonest
<1>1. ContentIsSuccess
  BY DEF AInv, CallOK, Settled, ContentIsSuccess
<1>2. ASSUME NEW f \in Fetches
      PROVE  LET tried == attempts[f] IN
               /\ Len(tried) >= 3 => /\ tried[2].outcome # "blocked"
                                     /\ tried[2].outcome = "skipped" => skip[f] = {"robots", "head"}
               /\ Len(tried) = 5 \/ pc[f] \in InPhase5 => PlaywrightEnabled /\ tried[4].signal
               /\ \A i \in 1..Len(tried) - 1 : tried[i].outcome = "success" => i = 2
  <2> DEFINE tried == attempts[f]
             n == Len(tried)
  <2>1. n \in Nat
    BY LenProperties DEF AInv, Types
  <2>2. /\ \A i \in 1..n :
             /\ pc[f] # "returned" \/ i < n => ShouldEscalate(i, tried[i])
             /\ tried[i].signal => tried[i].outcome = "failure"
             /\ i = 2 /\ tried[i].outcome = "skipped" => skip[f] = {"robots", "head"}
        /\ pc[f] \in InPhase5 => n = 4 /\ pc[f] # "returned"
        /\ n <= 5
    BY DEF AInv, CallOK, Climbed, Placed, InPhase5
  <2> HIDE DEF n, tried
  <2>3. n >= 3 => ShouldEscalate(2, tried[2]) /\ 2 \in 1..n
    BY <2>1, <2>2
  <2>4. n >= 3 => /\ tried[2].outcome # "blocked"
                  /\ tried[2].outcome = "skipped" => skip[f] = {"robots", "head"}
    BY <2>2, <2>3 DEF ShouldEscalate
  <2>5. n = 5 \/ pc[f] \in InPhase5 => ShouldEscalate(4, tried[4])
    BY <2>1, <2>2
  <2>6. n = 5 \/ pc[f] \in InPhase5 => PlaywrightEnabled /\ tried[4].signal
    BY <2>5 DEF ShouldEscalate
  <2>7. ASSUME NEW i \in 1..n - 1, tried[i].outcome = "success" PROVE i = 2
    BY <2>1, <2>2, <2>7 DEF ShouldEscalate
  <2> QED
    BY <2>4, <2>6, <2>7 DEF n, tried
<1> QED
  BY <1>1, <1>2 DEF EarnedPhases

(* cascade.go: for any number of concurrent calls, no phase is entered     *)
(* that the ones before it did not justify, and content is returned and    *)
(* written to the index only on a success.                                 *)
THEOREM Honest == Spec => []PhasesHonest
BY FetchInductive, InvHonest, PTL

-----------------------------------------------------------------------------
(* Waits: where a search of Reddit is.                                     *)
Places == {"idle", "search", "unauthorized", "again", "retry", "done", "failed", "exhausted"}

RedditTypes ==
    /\ token \in Nat /\ issued \in Nat /\ token <= issued
    /\ refused \subseteq 1..issued
    /\ rpc \in [Callers -> Places]
    /\ uses \in [Callers -> Seq(Nat)]

(* Each stage of a search: the tokens it has used, and whether the service *)
(* has refused them. A caller back for another token finds none, or one    *)
(* issued after its own was dropped.                                       *)
UsesOK(c) ==
    /\ rpc[c] = "idle" => Len(uses[c]) = 0
    /\ rpc[c] \in {"search", "unauthorized", "again"} => Len(uses[c]) = 1 /\ uses[c][1] <= issued
    /\ rpc[c] \in {"unauthorized", "again", "retry", "exhausted"} => uses[c][1] \in refused
    /\ rpc[c] = "again" => token = 0 \/ uses[c][1] < token
    /\ rpc[c] \in {"retry", "exhausted"} => Len(uses[c]) = 2 /\ uses[c][1] < uses[c][2]
    /\ rpc[c] = "exhausted" => uses[c][2] \in refused

HolderOK == holder # Nobody => holder \in Callers /\ rpc[holder] \in Getting

RedditInv == RedditTypes /\ HolderOK /\ \A c \in Callers : UsesOK(c)

(* A slot that was booked ends before the next one begins.                 *)
ArxivInv ==
    /\ now \in Nat /\ nextRequest \in Nat
    /\ slot \in [Callers -> Int]
    /\ \A c \in Callers : slot[c] # NoSlot => slot[c] >= 0 /\ slot[c] + MinInterval <= nextRequest
    /\ SlotsSpaced

-----------------------------------------------------------------------------
(* The greater of two.                                                     *)
LEMMA MaxOfTwo ==
    \A a, b \in Int : /\ Max({a, b}) \in {a, b}
                      /\ Max({a, b}) >= a /\ Max({a, b}) >= b
<1> SUFFICES ASSUME NEW a \in Int, NEW b \in Int
             PROVE  /\ Max({a, b}) \in {a, b} /\ Max({a, b}) >= a /\ Max({a, b}) >= b
  OBVIOUS
<1>1. \E x \in {a, b} : \A y \in {a, b} : x >= y
  <2>1. CASE a >= b
    BY <2>1
  <2>2. CASE b >= a
    BY <2>2
  <2> QED
    BY <2>1, <2>2
<1> DEFINE m == Max({a, b})
<1>2. m \in {a, b} /\ \A y \in {a, b} : m >= y
  BY <1>1 DEF Max
<1> QED
  BY <1>2

(* The first token a search used is a number.                              *)
LEMMA FirstUse ==
    ASSUME RedditTypes, NEW c \in Callers, Len(uses[c]) >= 1
    PROVE  uses[c][1] \in Nat
<1>1. uses[c] \in Seq(Nat) /\ Len(uses[c]) \in Nat
  BY LenProperties DEF RedditTypes
<1>2. 1 \in 1..Len(uses[c])
  BY <1>1
<1> QED
  BY <1>1, <1>2, ElementOfSeq

(* At first no token is issued and no slot is booked.                      *)
LEMMA InitWaits == WaitsInit => RedditInv /\ ArxivInv
<1> SUFFICES ASSUME WaitsInit PROVE RedditInv /\ ArxivInv
  OBVIOUS
<1>1. <<>> \in Seq(Nat) /\ Len(<<>>) = 0
  BY EmptySeq
<1>2. RedditTypes
  BY <1>1 DEF WaitsInit, RedditTypes, Places
<1>3. \A c \in Callers : UsesOK(c)
  BY <1>1 DEF WaitsInit, UsesOK
<1>4. ArxivInv
  BY DEF WaitsInit, ArxivInv, SlotsSpaced, NoSlot
<1> QED
  BY <1>2, <1>3, <1>4 DEF RedditInv, HolderOK, WaitsInit

-----------------------------------------------------------------------------
(* A caller takes a token that is not older than any other.                *)
LEMMA Taking ==
    ASSUME RedditInv, NEW c \in Callers, NEW t \in Nat, rpc[c] \in Getting, Take(c, t),
           rpc[c] = "again" => uses[c][1] < t, t <= issued',
           issued' \in Nat, issued <= issued', token' = t, refused' = refused,
           \A d \in Callers : rpc[d] = "again" => token' = 0 \/ uses[d][1] < token'
    PROVE  RedditTypes' /\ \A d \in Callers : UsesOK(d)'
<1>1. /\ rpc' = [rpc EXCEPT ![c] = Then(rpc[c])]
      /\ uses' = [uses EXCEPT ![c] = Append(uses[c], t)]
  BY DEF Take, RedditInv, RedditTypes
<1>2. RedditTypes /\ (\A d \in Callers : UsesOK(d))
  BY DEF RedditInv
<1>3. Then(rpc[c]) = (IF rpc[c] = "idle" THEN "search" ELSE "retry")
  BY DEF Then
<1>4. /\ Append(uses[c], t) \in Seq(Nat)
      /\ Len(Append(uses[c], t)) = Len(uses[c]) + 1
      /\ \A i \in 1..Len(uses[c]) : Append(uses[c], t)[i] = uses[c][i]
      /\ Append(uses[c], t)[Len(uses[c]) + 1] = t
  BY <1>2, AppendProperties DEF RedditTypes
<1>5. RedditTypes'
  <2>1. refused' \subseteq 1..issued'
    BY <1>2 DEF RedditTypes
  <2>2. rpc' \in [Callers -> Places]
    BY <1>1, <1>2, <1>3 DEF RedditTypes, Places
  <2>3. uses' \in [Callers -> Seq(Nat)]
    BY <1>1, <1>2, <1>4 DEF RedditTypes
  <2> QED
    BY <2>1, <2>2, <2>3 DEF RedditTypes
<1>6. ASSUME NEW d \in Callers PROVE UsesOK(d)'
  <2>1. CASE d # c
    <3>1. rpc'[d] = rpc[d] /\ uses'[d] = uses[d]
      BY <1>1, <1>2, <2>1 DEF RedditTypes
    <3>2. Len(uses[d]) = 1 => uses[d][1] \in Nat
      BY <1>2, FirstUse
    <3>3. UsesOK(d)
      BY <1>2
    <3>4. rpc[d] \in {"search", "unauthorized", "again"} => uses[d][1] <= issued'
      BY <1>2, <3>2, <3>3 DEF UsesOK, RedditTypes
    <3> QED
      BY <3>1, <3>3, <3>4 DEF UsesOK
  <2>2. CASE d = c /\ rpc[c] = "idle"
    <3>1. Len(uses[c]) = 0
      BY <1>2, <2>2 DEF UsesOK
    <3>2. rpc'[c] = "search" /\ Len(uses'[c]) = 1 /\ uses'[c][1] = t
      BY <1>1, <1>2, <1>3, <1>4, <2>2, <3>1 DEF RedditTypes
    <3> QED
      BY <2>2, <3>2 DEF UsesOK
  <2>3. CASE d = c /\ rpc[c] = "again"
    <3>1. Len(uses[c]) = 1 /\ uses[c][1] \in refused
      BY <1>2, <2>3 DEF UsesOK
    <3>2. rpc'[c] = "retry" /\ uses'[c] = Append(uses[c], t)
      BY <1>1, <1>2, <1>3, <2>3 DEF RedditTypes
    <3>3. Len(uses'[c]) = 2 /\ uses'[c][1] = uses[c][1] /\ uses'[c][2] = t
      BY <1>4, <3>1, <3>2
    <3> QED
      BY <2>3, <3>1, <3>2, <3>3 DEF UsesOK
  <2> QED
    BY <2>1, <2>2, <2>3 DEF Getting
<1> QED
  BY <1>5, <1>6

(* A caller moves on with the tokens it has.                               *)
LEMMA Moving ==
    ASSUME RedditInv, NEW c \in Callers, NEW s \in Places \ {"idle", "search", "retry"},
           rpc' = [rpc EXCEPT ![c] = s],
           UNCHANGED <<issued, refused, uses>>, token' \in {token, 0},
           s = "unauthorized" => rpc[c] = "search" /\ uses[c][1] \in refused,
           s = "again" => rpc[c] = "unauthorized" /\ token' = 0,
           s = "exhausted" => rpc[c] = "retry" /\ uses[c][2] \in refused
    PROVE  RedditTypes' /\ \A d \in Callers : UsesOK(d)'
<1>1. RedditTypes /\ (\A d \in Callers : UsesOK(d))
  BY DEF RedditInv
<1>2. RedditTypes'
  BY <1>1 DEF RedditTypes
<1>3. \A d \in Callers : rpc'[d] = IF d = c THEN s ELSE rpc[d]
  BY <1>1 DEF RedditTypes
<1>4. ASSUME NEW d \in Callers, d # c PROVE UsesOK(d)'
  BY <1>1, <1>3, <1>4 DEF UsesOK
<1>5. UsesOK(c)'
  BY <1>1, <1>3 DEF UsesOK, Places
<1> QED
  BY <1>2, <1>4, <1>5

(* Each step of a search, and each answer to a token, keeps the account of *)
(* the tokens used and refused.                                            *)
LEMMA RedditStep == RedditInv /\ RedditNext => RedditInv'
<1> SUFFICES ASSUME RedditInv, RedditNext PROVE RedditInv'
  OBVIOUS
<1>1. RedditTypes /\ HolderOK /\ (\A c \in Callers : UsesOK(c))
  BY DEF RedditInv
<1>2. ASSUME NEW c \in Callers, GetCached(c) PROVE RedditInv'
  <2>1. /\ rpc[c] \in Getting /\ holder = Nobody /\ token # 0 /\ Take(c, token)
        /\ UNCHANGED <<token, holder, issued, refused>>
    BY <1>2 DEF GetCached
  <2>2. rpc[c] = "again" => uses[c][1] < token
    BY <1>1, <2>1 DEF UsesOK
  <2>3. RedditTypes' /\ \A d \in Callers : UsesOK(d)'
    BY <1>1, <2>1, <2>2, Taking DEF RedditTypes, UsesOK
  <2> QED
    BY <2>1, <2>3 DEF RedditInv, HolderOK
<1>3. ASSUME NEW c \in Callers, AcquireToken(c) PROVE RedditInv'
  BY <1>1, <1>3 DEF AcquireToken, RedditInv, HolderOK, RedditTypes, UsesOK
<1>4. ASSUME NEW c \in Callers, TokenAcquired(c) PROVE RedditInv'
  <2> DEFINE t == issued + 1
  <2>1. /\ holder = c /\ issued' = t /\ token' = t /\ holder' = Nobody /\ Take(c, t)
        /\ refused' = refused
    BY <1>4 DEF TokenAcquired
  <2>2. t \in Nat /\ issued < t /\ issued \in Nat
    BY <1>1 DEF RedditTypes
  <2> HIDE DEF t
  <2>3. \A d \in Callers : rpc[d] = "again" => uses[d][1] < t
    <3> SUFFICES ASSUME NEW d \in Callers, rpc[d] = "again" PROVE uses[d][1] < t
      OBVIOUS
    <3>1. Len(uses[d]) = 1 /\ uses[d][1] <= issued
      BY <1>1 DEF UsesOK
    <3>2. uses[d][1] \in Nat
      BY <1>1, <3>1, FirstUse
    <3> QED
      BY <2>2, <3>1, <3>2
  <2>4. rpc[c] \in Getting
    BY <1>1, <2>1, WaitsAssumption DEF HolderOK
  <2>5. RedditTypes' /\ \A d \in Callers : UsesOK(d)'
    BY <2>1, <2>2, <2>3, <2>4, Taking
  <2> QED
    BY <2>1, <2>5 DEF RedditInv, HolderOK
<1>5. ASSUME NEW c \in Callers, AcquisitionFails(c) PROVE RedditInv'
  <2>1. /\ rpc' = [rpc EXCEPT ![c] = "failed"] /\ holder' = Nobody
        /\ UNCHANGED <<token, issued, refused, uses>>
    BY <1>5 DEF AcquisitionFails
  <2>2. RedditTypes' /\ \A d \in Callers : UsesOK(d)'
    BY <2>1, Moving DEF Places
  <2> QED
    BY <2>1, <2>2 DEF RedditInv, HolderOK
<1>6. ASSUME NEW c \in Callers, RedditAnswers(c) PROVE RedditInv'
  <2>1. UNCHANGED <<token, holder, issued, refused, uses>> /\ rpc[c] \in {"search", "retry"}
    BY <1>6 DEF RedditAnswers
  <2>2. /\ rpc[c] = "search" => Len(uses[c]) = 1
        /\ rpc[c] = "retry" => Len(uses[c]) = 2
    BY <1>1 DEF UsesOK
  <2>3. \E s \in {"done", "failed", "unauthorized", "exhausted"} :
           /\ rpc' = [rpc EXCEPT ![c] = s]
           /\ s = "unauthorized" => rpc[c] = "search" /\ ~Accepted(c)
           /\ s = "exhausted" => rpc[c] = "retry" /\ ~Accepted(c)
    BY <1>6 DEF RedditAnswers
  <2>4. PICK s \in {"done", "failed", "unauthorized", "exhausted"} :
           /\ rpc' = [rpc EXCEPT ![c] = s]
           /\ s = "unauthorized" => rpc[c] = "search" /\ ~Accepted(c)
           /\ s = "exhausted" => rpc[c] = "retry" /\ ~Accepted(c)
    BY <2>3
  <2>5. /\ s = "unauthorized" => rpc[c] = "search" /\ uses[c][1] \in refused
        /\ s = "exhausted" => rpc[c] = "retry" /\ uses[c][2] \in refused
    BY <2>2, <2>4 DEF Accepted
  <2>6. RedditTypes' /\ \A d \in Callers : UsesOK(d)'
    BY <2>1, <2>4, <2>5, Moving DEF Places
  <2>7. HolderOK'
    BY <1>1, <2>1, <2>4 DEF HolderOK, Getting, RedditTypes
  <2> QED
    BY <2>6, <2>7 DEF RedditInv
<1>7. ASSUME NEW c \in Callers, Invalidate(c) PROVE RedditInv'
  <2>1. /\ rpc' = [rpc EXCEPT ![c] = "again"] /\ holder = Nobody /\ token' = 0
        /\ rpc[c] = "unauthorized" /\ UNCHANGED <<holder, issued, refused, uses>>
    BY <1>7 DEF Invalidate
  <2>2. RedditTypes' /\ \A d \in Callers : UsesOK(d)'
    BY <2>1, Moving DEF Places
  <2> QED
    BY <2>1, <2>2 DEF RedditInv, HolderOK
<1>8. CASE TokenExpires
  BY <1>1, <1>8 DEF TokenExpires, RedditInv, HolderOK, RedditTypes, UsesOK
<1>9. CASE ServiceDropsToken
  <2>1. refused \subseteq refused' /\ UNCHANGED <<token, holder, issued, rpc, uses>>
    BY <1>9 DEF ServiceDropsToken
  <2>2. refused' \subseteq 1..issued
    BY <1>1, <1>9 DEF ServiceDropsToken, RedditTypes
  <2> QED
    BY <1>1, <2>1, <2>2 DEF RedditInv, HolderOK, RedditTypes, UsesOK
<1> QED
  BY <1>2, <1>3, <1>4, <1>5, <1>6, <1>7, <1>8, <1>9 DEF RedditNext

(* What the feed and arXiv do is no business of Reddit's, and conversely.  *)
LEMMA RedditUnmoved == RedditInv /\ UNCHANGED redditVars => RedditInv'
BY DEF redditVars, RedditInv, HolderOK, RedditTypes, UsesOK

(* Booking a slot moves the next one an interval on.                       *)
LEMMA ArxivStep == ArxivInv /\ ArxivNext => ArxivInv'
<1> SUFFICES ASSUME ArxivInv, ArxivNext PROVE ArxivInv'
  OBVIOUS
<1>1. CASE WaitsTick
  BY <1>1 DEF WaitsTick, arxivVars, ArxivInv, SlotsSpaced
<1>2. ASSUME NEW c \in Callers, SendRequest(c) PROVE ArxivInv'
  BY <1>2 DEF SendRequest, ArxivInv, SlotsSpaced
<1>3. ASSUME NEW c \in Callers, BookSlot(c) PROVE ArxivInv'
  <2> DEFINE s == Max({now, nextRequest})
  <2>1. /\ slot' = [slot EXCEPT ![c] = s] /\ nextRequest' = slot'[c] + MinInterval
        /\ now' = now
    BY <1>3 DEF BookSlot
  <2>2. s \in Nat /\ s >= nextRequest
    <3>1. now \in Nat /\ nextRequest \in Nat
      BY DEF ArxivInv
    <3>2. s \in {now, nextRequest} /\ s >= nextRequest
      BY <3>1, MaxOfTwo
    <3> HIDE DEF s
    <3> QED
      BY <3>1, <3>2
  <2> HIDE DEF s
  <2>3. nextRequest' = s + MinInterval /\ slot' \in [Callers -> Int]
        /\ \A d \in Callers : slot'[d] = IF d = c THEN s ELSE slot[d]
    BY <2>1, <2>2 DEF ArxivInv
  <2>4. MinInterval \in Nat /\ nextRequest \in Nat /\ now \in Nat
    BY WaitsAssumption DEF ArxivInv
  <2>5. \A d \in Callers : slot'[d] # NoSlot =>
           slot'[d] >= 0 /\ slot'[d] + MinInterval <= nextRequest'
    <3> SUFFICES ASSUME NEW d \in Callers, slot'[d] # NoSlot
                 PROVE  slot'[d] >= 0 /\ slot'[d] + MinInterval <= nextRequest'
      OBVIOUS
    <3>1. CASE d = c
      BY <2>2, <2>3, <2>4, <3>1
    <3>2. CASE d # c
      <4>1. slot[d] \in Int /\ slot[d] >= 0 /\ slot[d] + MinInterval <= nextRequest
        BY <2>3, <3>2 DEF ArxivInv
      <4> QED
        BY <2>2, <2>3, <2>4, <3>2, <4>1
    <3> QED
      BY <3>1, <3>2
  <2>6. \A d \in Callers : d # c /\ slot'[d] # NoSlot => s - slot'[d] >= MinInterval
    <3> SUFFICES ASSUME NEW d \in Callers, d # c, slot'[d] # NoSlot
                 PROVE  s - slot'[d] >= MinInterval
      OBVIOUS
    <3>1. slot[d] \in Int /\ slot[d] + MinInterval <= nextRequest /\ slot'[d] = slot[d]
      BY <2>3 DEF ArxivInv
    <3> QED
      BY <2>2, <2>4, <3>1
  <2>7. SlotsSpaced'
    <3> SUFFICES ASSUME NEW a \in Callers, NEW b \in Callers, a # b,
                        slot'[a] # NoSlot, slot'[b] # NoSlot
                 PROVE  slot'[a] - slot'[b] >= MinInterval \/ slot'[b] - slot'[a] >= MinInterval
      BY DEF SlotsSpaced
    <3>1. CASE a = c
      BY <2>3, <2>6, <3>1
    <3>2. CASE b = c
      BY <2>3, <2>6, <3>2
    <3>3. CASE a # c /\ b # c
      BY <2>3, <3>3 DEF ArxivInv, SlotsSpaced
    <3> QED
      BY <3>1, <3>2, <3>3
  <2> QED
    <3>1. nextRequest' \in Nat /\ now' \in Nat
      BY <2>1, <2>2, <2>3, <2>4
    <3> QED
      BY <2>3, <2>5, <2>7, <3>1 DEF ArxivInv
<1> QED
  BY <1>1, <1>2, <1>3 DEF ArxivNext

(* Reddit's side and arXiv's leave each other alone.                       *)
LEMMA WaitsKept == RedditInv /\ ArxivInv /\ [WaitsNext]_waitsVars => RedditInv' /\ ArxivInv'
<1> SUFFICES ASSUME RedditInv /\ ArxivInv, [WaitsNext]_waitsVars PROVE RedditInv' /\ ArxivInv'
  OBVIOUS
<1>1. CASE RedditNext
  <2>1. UNCHANGED <<arxivVars, now>>
    BY <1>1 DEF RedditNext, GetCached, AcquireToken, TokenAcquired, AcquisitionFails,
                RedditAnswers, Invalidate, TokenExpires, ServiceDropsToken
  <2>2. ArxivInv'
    BY <2>1 DEF arxivVars, ArxivInv, SlotsSpaced
  <2> QED
    BY <1>1, <2>2, RedditStep
<1>2. CASE ArxivNext
  <2>1. UNCHANGED redditVars
    BY <1>2 DEF ArxivNext, WaitsTick, BookSlot, SendRequest
  <2> QED
    BY <1>2, <2>1, ArxivStep, RedditUnmoved
<1>3. CASE WaitsTick
  BY <1>2, <1>3 DEF ArxivNext
<1>4. CASE TryFeed \/ FeedCancelled \/ UNCHANGED waitsVars
  <2>1. UNCHANGED <<redditVars, arxivVars, now>>
    BY <1>4 DEF TryFeed, FeedCancelled, waitsVars
  <2>2. ArxivInv'
    BY <2>1 DEF arxivVars, ArxivInv, SlotsSpaced
  <2> QED
    BY <2>1, <2>2, RedditUnmoved
<1> QED
  BY <1>1, <1>2, <1>3, <1>4 DEF WaitsNext, FeedNext

(* A search that gives up was refused twice, with a second token issued    *)
(* after the first was refused, whoever invalidates and renews meanwhile   *)
(* (reddit/oauth.go); and however many callers book at once, no two arXiv  *)
(* slots are nearer than the interval (arxiv/arxiv.go).                    *)
THEOREM Spaced == WaitsSpec => []WaitsSound
<1> DEFINE Inv == RedditInv /\ ArxivInv
<1>1. Inv /\ [WaitsNext]_waitsVars => Inv'
  BY WaitsKept
<1>2. Inv => WaitsSound
  <2> SUFFICES ASSUME Inv, NEW c \in Callers
               PROVE  /\ rpc[c] \in {"retry", "exhausted"} =>
                            Len(uses[c]) = 2 /\ uses[c][1] < uses[c][2]
                      /\ rpc[c] = "exhausted" => {uses[c][1], uses[c][2]} \subseteq refused
    BY DEF WaitsSound, ExhaustedAfterTwoTokens, ArxivInv
  <2> QED
    BY DEF RedditInv, UsesOK
<1> QED
  BY InitWaits, <1>1, <1>2, PTL DEF WaitsSpec

-----------------------------------------------------------------------------
(* The sources command's report.                                           *)

Final(n) == IF n \in report0 THEN "disabled"
            ELSE IF ~KeySet(n) THEN "not-configured"
            ELSE IF health[n] = "healthy" THEN "connected" ELSE "unhealthy"

(* While the probes run, an adapter has its final status, or is one that   *)
(* is probed and whose goroutine has not ended. The disabled set may have  *)
(* moved on since: what counts is what the command saw.                    *)
ProbeInv ==
    /\ probe \in {"none", "run", "done"}
    /\ report = [n \in DOMAIN report |-> report[n]]
    /\ probe # "none" => \A n \in DOMAIN report :
          \/ report[n] = Final(n)
          \/ probe = "run" /\ report[n] = "pending" /\ n \notin report0 /\ KeySet(n)

(* At first nothing is probed.                                             *)
LEMMA ProbeInitInv == RegistryInit => ProbeInv
  BY DEF RegistryInit, ProbeInv

(* Every source has a place of its own in the report.                      *)
LEMMA ProbesStarted ==
    ASSUME ProbeInv, StartProbes PROVE ProbeInv'
<1>1. /\ report' = [n \in registered |-> IF n \in disabled THEN "disabled"
                                         ELSE IF ~KeySet(n) THEN "not-configured" ELSE "pending"]
      /\ probe' = "run" /\ report0' = disabled /\ health' = health
  BY DEF StartProbes
<1>2. DOMAIN report' = registered
  BY <1>1
<1>3. ASSUME NEW n \in DOMAIN report'
      PROVE  \/ report'[n] = Final(n)'
             \/ report'[n] = "pending" /\ n \notin report0' /\ KeySet(n)
  BY <1>1, <1>2, <1>3 DEF Final, KeySet
<1>4. ASSUME NEW n PROVE KeySet(n)' <=> KeySet(n)
  BY DEF KeySet
<1> QED
  BY <1>1, <1>2, <1>3, <1>4 DEF ProbeInv

(* A probe writes its own place, from its own source's health.             *)
LEMMA ProbeEnded ==
    ASSUME ProbeInv, NEW n \in ProbedSources, ProbeEnds(n) PROVE ProbeInv'
<1>1. /\ probe = "run" /\ n \in DOMAIN report /\ report[n] = "pending"
      /\ report' = [report EXCEPT ![n] = IF health[n] = "healthy" THEN "connected" ELSE "unhealthy"]
      /\ UNCHANGED <<health, probe, report0>>
  BY DEF ProbeEnds
<1>2. DOMAIN report' = DOMAIN report
  BY <1>1
<1>3. \A m \in DOMAIN report : Final(m)' = Final(m) /\ (KeySet(m)' <=> KeySet(m))
  BY <1>1 DEF Final, KeySet
<1>4. report[n] # Final(n)
  BY <1>1 DEF Final
<1>5. n \notin report0 /\ KeySet(n)
  BY <1>1, <1>4 DEF ProbeInv
<1>6. report'[n] = Final(n)
  BY <1>1, <1>5 DEF Final
<1>7. \A m \in DOMAIN report : m # n => report'[m] = report[m]
  BY <1>1
<1>8. ASSUME NEW m \in DOMAIN report'
      PROVE  \/ report'[m] = Final(m)'
             \/ probe' = "run" /\ report'[m] = "pending" /\ m \notin report0' /\ KeySet(m)'
  BY <1>1, <1>2, <1>3, <1>6, <1>7 DEF ProbeInv
<1> QED
  BY <1>1, <1>2, <1>8 DEF ProbeInv

(* The command joins the probes when no place is pending.                  *)
LEMMA ProbesEnded ==
    ASSUME ProbeInv, ProbesJoined PROVE ProbeInv'
<1>1. /\ probe = "run" /\ probe' = "done" /\ UNCHANGED <<health, report, report0>>
      /\ \A n \in DOMAIN report : report[n] # "pending"
  BY DEF ProbesJoined
<1>2. \A n \in DOMAIN report : report[n] = Final(n)
  BY <1>1 DEF ProbeInv
<1>3. \A n \in DOMAIN report : Final(n)' = Final(n)
  BY <1>1 DEF Final, KeySet
<1> QED
  BY <1>1, <1>2, <1>3 DEF ProbeInv

(* Whatever leaves the probes alone leaves the report as true.             *)
LEMMA ProbeKept ==
    ASSUME ProbeInv, UNCHANGED probeVars PROVE ProbeInv'
  BY DEF ProbeInv, probeVars, Final, KeySet

(* Probes write their own places; searches and toggles write none.         *)
LEMMA ProbeStep == ProbeInv /\ [RegistryNext]_registryVars => ProbeInv'
<1> SUFFICES ASSUME ProbeInv, [RegistryNext]_registryVars PROVE ProbeInv'
  OBVIOUS
<1>1. CASE \E n \in ProbedSources, skipped \in BOOLEAN : Register(n, skipped)
  BY <1>1, ProbeKept DEF Register
<1>2. CASE \E n \in ProbedSources : RegistrySearch(n)
  BY <1>2, ProbeKept DEF RegistrySearch
<1>3. CASE \E n \in ProbedSources : ProbeEnds(n)
  BY <1>3, ProbeEnded
<1>4. CASE \E a \in Admins : RequestArrives(a)
  BY <1>4, ProbeKept DEF RequestArrives
<1>5. CASE \E a \in Admins : ListReplies(a) \/ HealthReplies(a) \/ ResyncReplies(a) \/ AuditReplies(a)
  BY <1>5, ProbeKept DEF ListReplies, HealthReplies, ResyncReplies, AuditReplies
<1>6. CASE \E a \in Admins : ToggleFlips(a) \/ ToggleReplies(a) \/ RequestEnds(a)
  BY <1>6, ProbeKept DEF ToggleFlips, ToggleReplies, RequestEnds
<1>7. CASE StartProbes
  BY <1>7, ProbesStarted
<1>8. CASE ProbesJoined
  BY <1>8, ProbesEnded
<1>9. CASE UNCHANGED registryVars
  BY <1>9, ProbeKept DEF registryVars, probeVars
<1> QED
  BY <1>1, <1>2, <1>3, <1>4, <1>5, <1>6, <1>7, <1>8, <1>9 DEF RegistryNext

(* What is known of each probe is what its report says.                    *)
LEMMA ProbeInvIndependent == ProbeInv => SiblingsIndependent
  BY DEF ProbeInv, SiblingsIndependent, Final

(* SiblingsIndependent: classifyAdapters (sources_cmd.go) gives every      *)
(* probe a goroutine and a slot of its own, so a sibling that fails,       *)
(* panics or hangs, and a toggle in between, change no other's status.     *)
THEOREM ProbesIndependent == RegistrySpec => []SiblingsIndependent
<1>1. RegistryInit => ProbeInv
  BY ProbeInitInv
<1>2. ProbeInv /\ [RegistryNext]_registryVars => ProbeInv'
  BY ProbeStep
<1>3. ProbeInv => SiblingsIndependent
  BY ProbeInvIndependent
<1> QED
  BY <1>1, <1>2, <1>3, PTL DEF RegistrySpec

-----------------------------------------------------------------------------
(* What the errors of the calls say.                                       *)
Judged(s, r) == r.at = "search" /\ ~(s = "youtube" /\ r.body = "unread")
Unreached(s, r) == r.status = 0 /\ r.cut # "redirect" /\ ~(s \in GitHubSources /\ r.cut = "eof")
Blames(s, r, e) ==
    /\ Judged(s, r) /\ r.status = 429 /\ s \notin GitHubSources => e = "rate_limited"
    /\ Judged(s, r) /\ r.status = 404 => e = "permanent"
    /\ Unreached(s, r) \/ r.status >= 500 => e \in {"unavailable", "transient"}
    /\ e = "rate_limited" => r.status \in {403, 429, 200}
    /\ r.at = "token" /\ e = "permanent" => r.status \in {401, 403}
    /\ r.status = 403 /\ r.retryAfter /\ s = "searxng" => e = "rate_limited"

(* The statuses that are told apart.                                       *)
LEMMA ResponseIs ==
    ASSUME NEW r \in Responses
    PROVE  /\ r.status \in {0, 200, 304, 401, 403, 404, 429, 500, 503} /\ r.retryAfter \in BOOLEAN
           /\ r.body \in {"good", "unread", "malformed", "envelope"}
           /\ r.at \in {"search", "token"} /\ r.cut \in {"no", "redirect", "deadline", "eof"}
           /\ r.status # 0 => r.cut = "no"
           /\ r.status = 0 => r.body = "good"
BY DEF Responses, Statuses, Bodies

(* The category of a status, before an adapter's own rules.                *)
LEMMA CommonIs ==
    ASSUME NEW r \in Responses
    PROVE  /\ r.status = 429 => CommonCategory(r) = "rate_limited"
           /\ r.status \in {401, 403, 404} => CommonCategory(r) = "permanent"
           /\ r.status \in {0, 500, 503} => CommonCategory(r) = "unavailable"
           /\ r.status \in {200, 304} => CommonCategory(r) = "unknown"
<1>1. r.status \in {0, 200, 304, 401, 403, 404, 429, 500, 503}
  BY ResponseIs
<1>2. CASE r.status = 429
  BY <1>2 DEF CommonCategory
<1>3. CASE r.status \in {401, 403, 404}
  <2>1. r.status # 429 /\ r.status \in 400..499
    BY <1>3
  <2> QED
    BY <1>3, <2>1 DEF CommonCategory
<1>4. CASE r.status \in {0, 500, 503}
  <2>1. r.status # 429 /\ r.status \notin 400..499 /\ r.status \in 500..599 \cup {0}
    BY <1>4
  <2> QED
    BY <1>4, <2>1 DEF CommonCategory
<1>5. CASE r.status \in {200, 304}
  <2>1. r.status # 429 /\ r.status \notin 400..499 /\ r.status \notin 500..599 \cup {0}
    BY <1>5
  <2> QED
    BY <1>5, <2>1 DEF CommonCategory
<1> QED
  BY <1>1, <1>2, <1>3, <1>4, <1>5

(* What rules make of a call of which the status says c.                   *)
LEMMA ErrorIs ==
    ASSUME NEW r \in Responses, NEW c, NEW rules, NEW e \in ErrorOf(r, c, rules)
    PROVE  /\ r.status = 0 /\ r.cut = "redirect" => e = rules.redirect
           /\ r.status = 0 /\ r.cut = "deadline" => e = rules.deadline
           /\ r.status = 0 /\ r.cut \in {"no", "eof"} => e = c
           /\ r.status \notin {0, 200} => e = c
           /\ r.status = 200 => e \in rules[r.body]
<1>1. r.status \in {0, 200, 304, 401, 403, 404, 429, 500, 503} /\ r.cut \in {"no", "redirect", "deadline", "eof"}
  BY ResponseIs
<1>2. CASE r.status = 0
  BY <1>1, <1>2 DEF ErrorOf
<1>3. CASE r.status = 200
  BY <1>1, <1>3 DEF ErrorOf
<1>4. CASE r.status \notin {0, 200}
  BY <1>1, <1>4 DEF ErrorOf
<1> QED
  BY <1>2, <1>3, <1>4

(* Rules that blame a deadline on the service, a redirect on either.       *)
Fair(rules) ==
    /\ rules.redirect \in {"permanent", "unavailable"} /\ rules.deadline \in {"unavailable", "transient"}

(* What an adapter's category of a status says.                            *)
TellsFault(s, r, k) ==
    /\ r.status = 429 /\ s \notin GitHubSources => k = "rate_limited"
    /\ r.status = 404 => k = "permanent"
    /\ r.status \in {0, 500, 503} => k = "unavailable"
    /\ r.status \notin {403, 429} => k # "rate_limited"
    /\ r.status = 403 /\ r.retryAfter /\ s = "searxng" => k = "rate_limited"

(* The adapter's error blames whom its category of the status does.        *)
LEMMA CategoryBlames ==
    ASSUME NEW r \in Responses, NEW s \in Sources, NEW c, NEW rules, Fair(rules),
           TellsFault(s, r, c), r.at = "search",
           NEW e \in ErrorOf(r, c, rules)
    PROVE  Blames(s, r, e)
BY ResponseIs, ErrorIs DEF Fair, Blames, Judged, Unreached, TellsFault

(* Every adapter's error does.                                             *)
LEMMA SearchBlames ==
    ASSUME NEW r \in Responses, NEW s \in Sources, NEW e \in SearchError(s, r),
           r.at = "token" => s = "reddit"
    PROVE  Blames(s, r, e)
<1>0. /\ r.status \in {0, 200, 304, 401, 403, 404, 429, 500, 503}
      /\ (r.status >= 500 <=> r.status \in {500, 503})
      /\ (r.status \in 400..499 <=> r.status \in {401, 403, 404, 429})
  BY ResponseIs
<1>1. PICK c : c = CommonCategory(r)
  OBVIOUS
<1>2. /\ r.status = 429 => c = "rate_limited"
      /\ r.status \in {401, 403, 404} => c = "permanent"
      /\ r.status \in {0, 500, 503} => c = "unavailable"
      /\ r.status \in {200, 304} => c = "unknown"
  BY <1>1, CommonIs
<1>3. Fair(Rules)
  BY DEF Fair, Rules
<1>4. CASE s = "hackernews"
  <2>1. PICK k : k = HNCategory(r)
    OBVIOUS
  <2>2. PICK rules : rules = Rules
    OBVIOUS
  <2>3. e \in ErrorOf(r, k, rules)
    BY <1>4, <2>1, <2>2 DEF SearchError, HNError, GitHubSources
  <2>4. Fair(rules)
    BY <1>3, <2>2 DEF Fair, Rules
  <2>5. TellsFault(s, r, k)
    BY <1>0, <1>1, <1>2, <1>4, <2>1 DEF HNCategory, TellsFault
  <2>6. r.at = "search"
    BY <1>4, ResponseIs
  <2> QED
    BY <2>3, <2>4, <2>5, <2>6, CategoryBlames
<1>5. CASE s = "arxiv"
  <2>1. PICK k : k = ArxivCategory(r)
    OBVIOUS
  <2>2. PICK rules : rules = [Rules EXCEPT !.unread = {"transient"}]
    OBVIOUS
  <2>3. e \in ErrorOf(r, k, rules)
    BY <1>5, <2>1, <2>2 DEF SearchError, ArxivError, GitHubSources
  <2>4. Fair(rules)
    BY <1>3, <2>2 DEF Fair, Rules
  <2>5. TellsFault(s, r, k)
    BY <1>0, <1>1, <1>2, <1>5, <2>1 DEF ArxivCategory, TellsFault
  <2>6. r.at = "search"
    BY <1>5, ResponseIs
  <2> QED
    BY <2>3, <2>4, <2>5, <2>6, CategoryBlames
<1>6. CASE s = "reddit"
  <2>0. s \notin GitHubSources /\ s # "searxng" /\ s # "youtube"
    BY <1>6 DEF GitHubSources
  <2>a. e \in RedditError(r)
    BY <1>6, <2>0 DEF SearchError
  <2>b. CASE r.at = "token"
    <3>1. e \in TokenError(r)
      BY <2>a, <2>b DEF RedditError
    <3>2. /\ r.status \in {401, 403} => e = "permanent"
          /\ r.status \notin {200, 401, 403} => e = "unavailable"
          /\ r.status = 200 => e \in {"none", "unavailable"}
      BY <1>0, <3>1 DEF TokenError
    <3> QED
      BY <1>0, <2>0, <2>b, <3>2 DEF Blames, Judged, Unreached
  <2>c. CASE r.at = "search"
    <3>1. PICK k : k = RedditCategory(r)
      OBVIOUS
    <3>2. PICK rules : rules = Rules
      OBVIOUS
    <3>3. e \in ErrorOf(r, k, rules)
      BY <2>a, <2>c, <3>1, <3>2 DEF RedditError
    <3>4. Fair(rules)
      BY <1>3, <3>2
    <3>5. TellsFault(s, r, k)
      BY <1>0, <1>1, <1>2, <1>6, <3>1 DEF RedditCategory, TellsFault
    <3> QED
      BY <2>c, <3>3, <3>4, <3>5, CategoryBlames
  <2> QED
    BY <2>b, <2>c, ResponseIs
<1>7. CASE s = "reddit-rss"
  <2>1. PICK k : k = RedditRSSCategory(r)
    OBVIOUS
  <2>2. PICK rules : rules = [Rules EXCEPT !.redirect = "unavailable", !.deadline = "transient",
                             !.unread = {"transient"}, !.malformed = {"transient"}]
    OBVIOUS
  <2>3. e \in ErrorOf(r, k, rules)
    BY <1>7, <2>1, <2>2 DEF SearchError, RedditRSSError, GitHubSources
  <2>4. Fair(rules)
    BY <1>3, <2>2 DEF Fair, Rules
  <2>5. TellsFault(s, r, k)
    BY <1>0, <1>1, <1>2, <1>7, <2>1 DEF RedditRSSCategory, TellsFault
  <2>6. r.at = "search"
    BY <1>7, ResponseIs
  <2> QED
    BY <2>3, <2>4, <2>5, <2>6, CategoryBlames
<1>8. CASE s = "searxng"
  <2>1. PICK k : k = SearxngCategory(r)
    OBVIOUS
  <2>2. PICK rules : rules = Rules
    OBVIOUS
  <2>3. e \in ErrorOf(r, k, rules)
    BY <1>8, <2>1, <2>2 DEF SearchError, SearxngError, GitHubSources
  <2>4. Fair(rules)
    BY <1>3, <2>2 DEF Fair, Rules
  <2>5. TellsFault(s, r, k)
    BY <1>0, <1>1, <1>2, <1>8, <2>1 DEF SearxngCategory, TellsFault
  <2>6. r.at = "search"
    BY <1>8, ResponseIs
  <2> QED
    BY <2>3, <2>4, <2>5, <2>6, CategoryBlames
<1>9. CASE s = "youtube"
  <2>0. s \notin GitHubSources /\ s # "searxng" /\ r.at = "search"
    BY <1>9, ResponseIs DEF GitHubSources
  <2>a. e \in YouTubeError(r)
    BY <1>9, <2>0 DEF SearchError
  <2>b. CASE r.body = "unread"
    <3>1. e = "unavailable"
      BY <2>a, <2>b DEF YouTubeError
    <3> QED
      BY <1>9, <2>0, <2>b, <3>1 DEF Blames, Judged, Unreached
  <2>c. CASE r.body # "unread"
    <3>1. PICK k : k = YouTubeCategory(r)
      OBVIOUS
    <3>2. PICK rules : rules = [Rules EXCEPT !.redirect = "unavailable", !.envelope = SidecarCategories]
      OBVIOUS
    <3>3. e \in ErrorOf(r, k, rules)
      BY <2>a, <2>c, <3>1, <3>2 DEF YouTubeError
    <3>4. Fair(rules)
      BY <1>3, <3>2 DEF Fair, Rules
    <3>5. TellsFault(s, r, k)
      BY <1>0, <1>1, <1>2, <1>9, <3>1 DEF YouTubeCategory, TellsFault
    <3> QED
      BY <2>0, <3>3, <3>4, <3>5, CategoryBlames
  <2> QED
    BY <2>b, <2>c
<1>10. CASE s = "bluesky"
  <2>1. PICK k : k = BlueskyCategory(r)
    OBVIOUS
  <2>2. PICK rules : rules = [Rules EXCEPT !.envelope = {"permanent"}]
    OBVIOUS
  <2>3. e \in ErrorOf(r, k, rules)
    BY <1>10, <2>1, <2>2 DEF SearchError, BlueskyError, GitHubSources
  <2>4. Fair(rules)
    BY <1>3, <2>2 DEF Fair, Rules
  <2>5. TellsFault(s, r, k)
    BY <1>0, <1>1, <1>2, <1>10, <2>1 DEF BlueskyCategory, TellsFault
  <2>6. r.at = "search"
    BY <1>10, ResponseIs
  <2> QED
    BY <2>3, <2>4, <2>5, <2>6, CategoryBlames
<1>11. CASE s = "threads"
  <2>1. PICK k : k = ThreadsCategory(r)
    OBVIOUS
  <2>2. PICK rules : rules = [Rules EXCEPT !.envelope = {"permanent"}]
    OBVIOUS
  <2>3. e \in ErrorOf(r, k, rules)
    BY <1>11, <2>1, <2>2 DEF SearchError, ThreadsError, GitHubSources
  <2>4. Fair(rules)
    BY <1>3, <2>2 DEF Fair, Rules
  <2>5. TellsFault(s, r, k)
    BY <1>0, <1>1, <1>2, <1>11, <2>1 DEF ThreadsCategory, TellsFault
  <2>6. r.at = "search"
    BY <1>11, ResponseIs
  <2> QED
    BY <2>3, <2>4, <2>5, <2>6, CategoryBlames
<1>12. CASE s \in {"x-official", "twitterapi"}
  <2>1. PICK k : k = BlueskyCategory(r)
    OBVIOUS
  <2>2. PICK rules : rules = [Rules EXCEPT !.redirect = "unavailable", !.envelope = {"permanent"}]
    OBVIOUS
  <2>3. e \in ErrorOf(r, k, rules)
    BY <1>12, <2>1, <2>2 DEF SearchError, XError, GitHubSources
  <2>4. Fair(rules)
    BY <1>3, <2>2 DEF Fair, Rules
  <2>5. TellsFault(s, r, k)
    BY <1>0, <1>1, <1>2, <1>12, <2>1 DEF BlueskyCategory, TellsFault
  <2>6. r.at = "search"
    BY <1>12, ResponseIs
  <2> QED
    BY <2>3, <2>4, <2>5, <2>6, CategoryBlames
<1>13. CASE s \in GitHubSources
  <2>0. s # "searxng" /\ s # "reddit" /\ s # "youtube" /\ s \in GitHubSources /\ r.at = "search"
    <3>1. r.at \in {"search", "token"} /\ (r.at = "token" => s = "reddit")
      BY ResponseIs
    <3>2. s # "searxng" /\ s # "reddit" /\ s # "youtube"
      BY <1>13 DEF GitHubSources
    <3> QED
      BY <1>13, <3>1, <3>2
  <2>a. e \in GitHubError(r)
    BY <1>13 DEF SearchError, GitHubSources
  <2>b. CASE r.cut = "eof"
    <3>1. e = "permanent" /\ r.status = 0
      BY <2>a, <2>b, ResponseIs DEF GitHubError
    <3> QED
      BY <2>0, <2>b, <3>1 DEF Blames, Judged, Unreached
  <2>c. CASE r.cut # "eof"
    <3>1. PICK k : k = GitHubCategory(r)
      OBVIOUS
    <3>2. PICK rules : rules = [Rules EXCEPT !.redirect = "unavailable", !.unread = {"unavailable", "permanent"}]
      OBVIOUS
    <3>3. e \in ErrorOf(r, k, rules)
      BY <2>a, <2>c, <3>1, <3>2 DEF GitHubError
    <3>4. Fair(rules)
      BY <1>3, <3>2 DEF Fair, Rules
    <3>5. TellsFault(s, r, k)
      BY <1>0, <1>1, <1>2, <2>0, <3>1 DEF GitHubCategory, TellsFault
    <3> QED
      BY <2>0, <3>3, <3>4, <3>5, CategoryBlames
  <2> QED
    BY <2>b, <2>c
<1>14. CASE s \in {"naver blog", "naver news", "naver web", "naver shop", "naver datalab", "facebook"}
  <2>0. s # "searxng" 
    BY <1>14 DEF GitHubSources
  <2>1. PICK k : k = NaverCategory(r)
    OBVIOUS
  <2>2. PICK rules : rules = [Rules EXCEPT !.redirect = "unavailable"]
    OBVIOUS
  <2>3. e \in ErrorOf(r, k, rules)
    BY <1>14, <2>1, <2>2 DEF SearchError, NaverError, GitHubSources
  <2>4. Fair(rules)
    BY <1>3, <2>2 DEF Fair, Rules
  <2>5. TellsFault(s, r, k)
    BY <1>0, <1>1, <1>2, <2>0, <2>1 DEF NaverCategory, TellsFault
  <2>6. r.at = "search"
    <3>1. r.at \in {"search", "token"} /\ (r.at = "token" => s = "reddit")
      BY ResponseIs
    <3>2. s # "reddit"
      BY <1>14
    <3> QED
      BY <3>1, <3>2
  <2> QED
    BY <2>3, <2>4, <2>5, <2>6, CategoryBlames
<1> QED
  BY <1>4, <1>5, <1>6, <1>7, <1>8, <1>9, <1>10, <1>11, <1>12, <1>13, <1>14 DEF Sources, GitHubSources

ErrorInv ==
    /\ source \in Sources /\ walk \in {"ready", "done", "refused", "failed"}
    /\ walk \in {"ready", "done"} => category = "none"
    /\ walk = "failed" => /\ answer \in Responses /\ category \in SearchError(source, answer)
                          /\ answer.at = "token" => source = "reddit"

(* No call has failed yet.                                                 *)
LEMMA ErrorInvInit == AdaptersInit => ErrorInv
BY DEF AdaptersInit, ErrorInv, NoResponse

(* An error is made of the last response and of nothing before it.         *)
LEMMA ErrorStep == ErrorInv /\ [AdaptersNext]_adapterVars => ErrorInv'
<1> SUFFICES ASSUME ErrorInv, [AdaptersNext]_adapterVars PROVE ErrorInv'
  OBVIOUS
<1>1. CASE SearchRefused
  BY <1>1 DEF ErrorInv, SearchRefused
<1>2. CASE SearchFails
  <2>1. PICK r \in Responses : \E e \in SearchError(source, r) \ {"none"} :
             /\ r.at = "token" => source = "reddit"
             /\ answer' = r /\ category' = e
    BY <1>2 DEF SearchFails
  <2> QED
    BY <1>2, <2>1 DEF ErrorInv, SearchFails
<1>3. CASE SearchAgain
  BY <1>3 DEF ErrorInv, SearchAgain
<1>4. CASE SearchSucceeds
  <2>1. walk' \in {"ready", "done"} /\ source' = source /\ category' = "none"
    BY <1>4 DEF SearchSucceeds
  <2> QED
    BY <2>1 DEF ErrorInv
<1>5. CASE UNCHANGED adapterVars
  BY <1>5 DEF ErrorInv, adapterVars
<1> QED
  BY <1>1, <1>2, <1>3, <1>4, <1>5 DEF AdaptersNext

(* It says whose fault the call's failure was.                             *)
LEMMA ErrorInvTells == ErrorInv => ErrorsTellWhoseFault
<1> SUFFICES ASSUME ErrorInv, category # "none", walk # "refused" PROVE Blames(source, answer, category)
  BY DEF ErrorsTellWhoseFault, Blames, Judged, Unreached
<1>1. walk = "failed"
  BY DEF ErrorInv
<1> QED
  BY <1>1, SearchBlames DEF ErrorInv

-----------------------------------------------------------------------------
(* The adapters' pages: where in the service's list a cursor leads, and    *)
(* what a page lists of it.                                                *)
LEMMA MinOfTwo ==
    \A a, b \in Int : /\ Min({a, b}) \in {a, b}
                      /\ Min({a, b}) <= a /\ Min({a, b}) <= b
<1> SUFFICES ASSUME NEW a \in Int, NEW b \in Int
             PROVE  /\ Min({a, b}) \in {a, b} /\ Min({a, b}) <= a /\ Min({a, b}) <= b
  OBVIOUS
<1>1. \E x \in {a, b} : \A y \in {a, b} : x <= y
  <2>1. CASE a <= b
    BY <2>1
  <2>2. CASE b <= a
    BY <2>2
  <2> QED
    BY <2>1, <2>2
<1> DEFINE m == Min({a, b})
<1>2. m \in {a, b} /\ \A y \in {a, b} : m <= y
  BY <1>1 DEF Min
<1> QED
  BY <1>2

(* Every page has room for an item.                                        *)
LEMMA LimitIsPositive ==
    ASSUME ask \in Int, NEW s \in Sources
    PROVE  Limit(s) \in Nat \ {0}
<1> USE AdaptersAssumption
<1>1. {DefaultResults, MaxResults, ServicePage} \subseteq Nat \ {0}
  OBVIOUS
<1>2. LimitOrDefault(ask) \in Nat \ {0}
  <2>1. Min({ask, MaxResults}) \in {ask, MaxResults}
    <3>1. ask \in Int /\ MaxResults \in Int
      BY <1>1
    <3> QED
      BY <3>1, MinOfTwo
  <2> QED
    BY <1>1, <2>1 DEF LimitOrDefault
<1>3. HNLimit(ask) \in Nat \ {0}
  <2>1. PICK m : m = Min({ask, MaxResults})
    OBVIOUS
  <2>2. m \in Int
    <3>1. ask \in Int /\ MaxResults \in Int
      BY <1>1
    <3>2. m \in {ask, MaxResults}
      BY <2>1, <3>1, MinOfTwo
    <3> QED
      BY <3>1, <3>2
  <2>3. Max({1, m}) \in Int /\ Max({1, m}) >= 1
    <3>1. PICK one : one = 1
      OBVIOUS
    <3>2. one \in Int
      BY <3>1
    <3>3. Max({one, m}) \in {one, m} /\ Max({one, m}) >= one
      BY ONLY <2>2, <3>2, MaxOfTwo
    <3> QED
      BY <2>2, <3>1, <3>3
  <2> QED
    BY <1>1, <2>1, <2>3 DEF HNLimit
<1>4. Limit(s) \in {HNLimit(ask), LimitOrDefault(ask), ServicePage}
  BY DEF Limit, RedditLimit, NaverDisplay, ThreadsLimit, ArxivLimit
<1> QED
  BY <1>1, <1>2, <1>3, <1>4

(* The links a document may have.                                          *)
Links == {"", "link", "item page", "repository and sha", "permalink", "naver's copy",
          "the trend page", "handle or did, and record key", "status page"}
IsLink(u) == u \in Links /\ u # ""
(* Documents made of a page by a rule for the links.                       *)
MadeOf(d, t) ==
    /\ d = [k \in DOMAIN t |-> [item |-> t[k], url |-> d[k].url]]
    /\ \A k \in DOMAIN t : d[k].url \in Links
(* A page built entry by entry from t is made of t.                        *)
LEMMA MadeBy ==
    ASSUME NEW t, NEW u, NEW d, \A k \in DOMAIN t : u[k] \in Links,
           d = [k \in DOMAIN t |-> [item |-> t[k], url |-> u[k]]]
    PROVE  MadeOf(d, t) /\ DOMAIN d = DOMAIN t /\ \A k \in DOMAIN d : d[k].url = u[k]
<1>1. DOMAIN d = DOMAIN t /\ \A k \in DOMAIN t : d[k].url = u[k]
  OBVIOUS
<1>2. d = [k \in DOMAIN t |-> [item |-> t[k], url |-> d[k].url]]
  BY <1>1
<1> QED
  BY <1>1, <1>2 DEF MadeOf

(* The service's answer from offset o on.                                  *)
WindowOf(w, o, n) ==
    /\ w \in Seq(Nat) /\ \A k \in DOMAIN w : w[k] = o + k
    /\ Len(w) = IF o >= Len(corpus) THEN 0
               ELSE IF o + n <= Len(corpus) THEN n ELSE Len(corpus) - o
(* A window of the corpus holds the places behind o, n of them at most.    *)
LEMMA WindowIs ==
    ASSUME corpus \in Seq(Items), NEW o \in Nat, NEW n \in Nat
    PROVE  WindowOf(Window(o, n), o, n)
<1>1. PICK l : l = Len(corpus)
  OBVIOUS
<1>2. l \in Nat
  BY <1>1
<1>3. PICK m : m = Min({n, l - o})
  OBVIOUS
<1>4. m \in {n, l - o} /\ m <= n /\ m <= l - o
  <2>1. l - o \in Int /\ n \in Int
    BY <1>2
  <2> QED
    BY <1>3, <2>1, MinOfTwo
<1>5. PICK x : x = Max({0, m})
  OBVIOUS
<1>6. x \in {0, m} /\ x >= 0 /\ x >= m
  <2>1. PICK zero : zero = 0
    OBVIOUS
  <2>2. zero \in Int /\ m \in Int
    BY <1>2, <1>4, <2>1
  <2>3. Max({zero, m}) \in {zero, m} /\ Max({zero, m}) >= zero /\ Max({zero, m}) >= m
    BY ONLY <2>2, MaxOfTwo
  <2> QED
    BY <1>5, <2>1, <2>3
<1>7. x = IF o >= l THEN 0 ELSE IF o + n <= l THEN n ELSE l - o
  BY <1>2, <1>4, <1>6
<1>8. x \in Nat
  BY <1>2, <1>4, <1>6
<1>9. Window(o, n) = [i \in 1..x |-> o + i]
  BY <1>1, <1>3, <1>5 DEF Window
<1>10. PICK w : w = [i \in 1..x |-> o + i]
  OBVIOUS
<1>11. w \in Seq(Nat) /\ Len(w) = x /\ \A k \in DOMAIN w : w[k] = o + k
  BY <1>8, <1>10
<1>12. WindowOf(w, o, n)
  BY <1>1, <1>7, <1>11 DEF WindowOf
<1> QED
  BY <1>9, <1>10, <1>12

DocSet == [item : Nat, url : Links]
ListsItems(d, I) ==
    /\ d \in Seq(DocSet)
    /\ \A j, k \in DOMAIN d : j < k => d[j].item < d[k].item
    /\ \A i : i \in I <=> \E k \in DOMAIN d : d[k].item = i
(* The items from offset o up to the next page, and those kept of them.    *)
Span(o, n, s) ==
    {i \in DOMAIN corpus : o < i /\ i <= o + n /\ (s \in Dropping => corpus[i] # "dropped")}
(* A cursor an adapter is called with: none, or one it handed out.         *)
Cursor(c) == c = NoCursor \/ c \in Nat \ {0}
(* Where in the list the page at a cursor starts.                          *)
NaverLists == {"naver blog", "naver news", "naver web", "naver shop"}
FirstItem(c) == IF c = NoCursor THEN 0 ELSE c
Offset(s, c) ==
    IF s = "hackernews" THEN FirstItem(c) * Limit(s)
    ELSE IF s \in GitHubSources \cup {"searxng"} THEN (IF c = NoCursor THEN 0 ELSE (c - 1) * Limit(s))
    ELSE IF s \in NaverLists THEN (IF c = NoCursor THEN 0 ELSE c - 1)
    ELSE FirstItem(c)
LastDropped(p) == p \in DOMAIN corpus /\ corpus[p] = "dropped"
(* Where a walk may end: behind the last item, at a cap, or at an item     *)
(* that was dropped.                                                       *)
MayEnd(s, p) == p >= Len(corpus) \/ Capped(s, p) \/ (s \in Dropping /\ LastDropped(p))
LinkedSources ==
    {"hackernews", "reddit", "reddit-rss", "arxiv", "bluesky", "x-official", "twitterapi",
     "naver news", "naver datalab", "github commits"}
(* A page has the items up to the next page, and its cursor leads there.   *)
PageSound(s, c, page) ==
    LET o == Offset(s, c)
        n == Limit(s)
    IN  /\ o \in Nat
        /\ ListsItems(page.docs, Span(o, n, s))
        /\ page.next = NoCursor => MayEnd(s, o + n)
        /\ page.next # NoCursor => page.next \in Nat \ {0} /\ Offset(s, page.next) = o + n
        /\ s \in LinkedSources => \A k \in DOMAIN page.docs : page.docs[k].url # ""

(* The cursors that count from 0.                                          *)
LEMMA FromZero ==
    ASSUME NEW c, Cursor(c)
    PROVE  Max({c, 0}) = FirstItem(c) /\ FirstItem(c) \in Nat
<1>1. PICK zero : zero = 0
  OBVIOUS
<1>2. c \in Int /\ zero \in Int /\ (c = NoCursor \/ c > zero) /\ (c = NoCursor => c < zero)
  BY <1>1 DEF Cursor, NoCursor
<1>3. PICK x : x = Max({c, zero})
  OBVIOUS
<1>4. x \in {c, zero} /\ x >= c /\ x >= zero
  BY ONLY <1>2, <1>3, MaxOfTwo
<1>5. {c, 0} = {c, zero}
  BY <1>1
<1>6. Max({c, 0}) = x
  BY <1>3, <1>5
<1>7. x = FirstItem(c)
  BY <1>1, <1>2, <1>4 DEF FirstItem
<1> QED
  BY <1>1, <1>2, <1>4, <1>6, <1>7

(* Documents made of the kept items of a window list those.                *)
LEMMA MadeOfKept ==
    ASSUME corpus \in Seq(Items), NEW o \in Nat, NEW n \in Nat \ {0},
           NEW w, w = Window(o, n), NEW I, I \subseteq DOMAIN w,
           NEW d, MadeOf(d, KeepAt(w, I))
    PROVE  ListsItems(d, {o + k : k \in I})
<1>1. w \in Seq(Nat) /\ \A k \in DOMAIN w : w[k] = o + k
  <2>1. n \in Nat
    OBVIOUS
  <2>2. WindowOf(w, o, n)
    BY <2>1, WindowIs
  <2> QED
    BY <2>2 DEF WindowOf
<1>2. PICK t : t = KeepAt(w, I)
  OBVIOUS
<1>3. t \in Seq(Nat) /\ \E g : KeptBy(g, t, w, I)
  BY <1>1, <1>2, KeepAtIs
<1>4. PICK g : KeptBy(g, t, w, I)
  BY <1>3
<1>5. PICK m : m = Len(t)
  OBVIOUS
<1>6. m \in Nat /\ DOMAIN t = 1..m /\ \A k \in 1..m : t[k] \in Nat
  BY <1>3, <1>5
<1>7. /\ g \in [1..m -> I] /\ \A i \in I : \E k \in 1..m : g[k] = i
      /\ \A j, k \in 1..m : j < k <=> g[j] < g[k]
      /\ \A k \in 1..m : t[k] = w[g[k]]
  BY <1>4, <1>5 DEF KeptBy, InOrder
<1>8. I \subseteq Nat
  BY <1>1
<1>9. \A k \in 1..m : t[k] = o + g[k] /\ g[k] \in I /\ g[k] \in Nat
  BY <1>1, <1>7, <1>8
<1>10. DOMAIN d = 1..m /\ \A k \in 1..m : d[k].item = t[k] /\ d[k] \in DocSet
  BY <1>2, <1>6 DEF MadeOf, DocSet
<1>11. d \in Seq(DocSet)
  <2>1. d = [k \in 1..m |-> d[k]]
    BY <1>2, <1>6, <1>10 DEF MadeOf
  <2>2. d \in [1..m -> DocSet]
    BY <1>10, <2>1
  <2> QED
    BY <1>6, <2>2
<1>12. ASSUME NEW j \in 1..m, NEW k \in 1..m, j < k PROVE d[j].item < d[k].item
  BY <1>7, <1>9, <1>10, <1>12
<1>13. ASSUME NEW i \in I PROVE \E k \in 1..m : d[k].item = o + i
  BY <1>7, <1>9, <1>10
<1>14. \A k \in 1..m : g[k] \in I /\ d[k].item = o + g[k]
  BY <1>9, <1>10
<1> QED
  BY <1>10, <1>11, <1>12, <1>13, <1>14 DEF ListsItems

(* The two ways in which an adapter makes a page of a window.              *)
LEMMA PageLists ==
    ASSUME corpus \in Seq(Items), NEW o \in Nat, NEW n \in Nat \ {0}, NEW d, NEW s
    PROVE  /\ s \in Dropping /\ MadeOf(d, Kept(Window(o, n))) => ListsItems(d, Span(o, n, s))
           /\ s \notin Dropping /\ MadeOf(d, Window(o, n)) => ListsItems(d, Span(o, n, s))
<1>1. PICK w : w = Window(o, n)
  OBVIOUS
<1>2. PICK l : l = Len(corpus)
  OBVIOUS
<1>3. l \in Nat /\ DOMAIN corpus = 1..l
  BY <1>2
<1>4. /\ w \in Seq(Nat) /\ \A k \in DOMAIN w : w[k] = o + k
      /\ Len(w) = IF o >= l THEN 0 ELSE IF o + n <= l THEN n ELSE l - o
  <2>1. n \in Nat
    OBVIOUS
  <2>2. WindowOf(w, o, n)
    BY <1>1, <2>1, WindowIs
  <2> QED
    BY <1>2, <2>2 DEF WindowOf
<1>5. DOMAIN w = 1..Len(w) /\ Len(w) \in Nat
  BY <1>4
<1>6. \A k \in DOMAIN w : o + k \in 1..l /\ o < o + k /\ o + k <= o + n /\ k \in Nat
  BY <1>3, <1>4, <1>5
<1>7. \A i \in 1..l : o < i /\ i <= o + n => i - o \in DOMAIN w /\ o + (i - o) = i
  BY <1>3, <1>4, <1>5
<1>8. ASSUME s \in Dropping, MadeOf(d, Kept(w)) PROVE ListsItems(d, Span(o, n, s))
  <2>1. PICK I : I = {k \in DOMAIN w : corpus[w[k]] # "dropped"}
    OBVIOUS
  <2>2. MadeOf(d, KeepAt(w, I)) /\ I \subseteq DOMAIN w
    BY <1>8, <2>1 DEF Kept
  <2>3. ListsItems(d, {o + k : k \in I})
    BY ONLY corpus \in Seq(Items), o \in Nat, n \in Nat \ {0}, <1>1, <2>2, MadeOfKept
  <2>4. \A i : i \in {o + k : k \in I} <=> i \in Span(o, n, s)
    <3> TAKE i
    <3>1. ASSUME NEW k \in I, i = o + k PROVE i \in Span(o, n, s)
      BY <1>3, <1>4, <1>6, <2>1, <3>1 DEF Span
    <3>2. ASSUME i \in Span(o, n, s) PROVE i - o \in I /\ o + (i - o) = i
      BY <1>3, <1>4, <1>7, <1>8, <2>1, <3>2 DEF Span
    <3> QED
      BY <3>1, <3>2
  <2> QED
    BY <2>3, <2>4 DEF ListsItems
<1>9. ASSUME s \notin Dropping, MadeOf(d, w) PROVE ListsItems(d, Span(o, n, s))
  <2>1. PICK I : I = DOMAIN w
    BY Zenon
  <2>2. MadeOf(d, KeepAt(w, I)) /\ I \subseteq DOMAIN w
    BY <1>4, <1>9, <2>1, KeepAtEnds
  <2>3. ListsItems(d, {o + k : k \in I})
    BY ONLY corpus \in Seq(Items), o \in Nat, n \in Nat \ {0}, <1>1, <2>2, MadeOfKept
  <2>4. \A i : i \in {o + k : k \in I} <=> i \in Span(o, n, s)
    <3> TAKE i
    <3>1. ASSUME NEW k \in I, i = o + k PROVE i \in Span(o, n, s)
      BY <1>3, <1>6, <1>9, <2>1, <3>1 DEF Span
    <3>2. ASSUME i \in Span(o, n, s) PROVE i - o \in I /\ o + (i - o) = i
      BY <1>3, <1>7, <2>1, <3>2 DEF Span
    <3> QED
      BY <3>1, <3>2
  <2> QED
    BY <2>3, <2>4 DEF ListsItems
<1> QED
  BY <1>1, <1>8, <1>9

(* A page without a document: everything up to the next one was dropped.   *)
LEMMA EmptyPages ==
    ASSUME corpus \in Seq(Items), NEW o \in Nat, NEW n \in Nat \ {0}, NEW d, d = <<>>, NEW s
    PROVE  /\ ListsItems(d, Span(o, n, s)) => MayEnd(s, o + n)
           /\ s \notin Dropping /\ ListsItems(d, Span(o, n, s)) => o >= Len(corpus)
<1>1. DOMAIN corpus = 1..Len(corpus) /\ Len(corpus) \in Nat
  OBVIOUS
<1>2. DOMAIN d = {}
  OBVIOUS
<1>3. ASSUME ListsItems(d, Span(o, n, s)), o + n < Len(corpus) PROVE s \in Dropping /\ LastDropped(o + n)
  <2>1. o + n \notin Span(o, n, s)
    BY <1>2, <1>3 DEF ListsItems
  <2>2. o + n \in DOMAIN corpus
    BY <1>1, <1>3
  <2> QED
    BY <2>1, <2>2 DEF Span, LastDropped
<1>4. ASSUME s \notin Dropping, ListsItems(d, Span(o, n, s)), o < Len(corpus) PROVE FALSE
  <2>1. o + 1 \notin Span(o, n, s)
    BY <1>2, <1>4 DEF ListsItems
  <2>2. o + 1 \in DOMAIN corpus
    BY <1>1, <1>4
  <2> QED
    BY <1>4, <2>1, <2>2 DEF Span
<1>5. o + n \in Int /\ o \in Int
  OBVIOUS
<1>6. ListsItems(d, Span(o, n, s)) => MayEnd(s, o + n)
  BY <1>1, <1>3, <1>5 DEF MayEnd
<1>7. s \notin Dropping /\ ListsItems(d, Span(o, n, s)) => o >= Len(corpus)
  BY <1>1, <1>4, <1>5
<1> QED
  BY <1>6, <1>7

(* An empty page has no item, a page of everything as many as documents.   *)
LEMMA MadeEmpty ==
    ASSUME NEW d, NEW t \in Seq(Nat), MadeOf(d, t)
    PROVE  d = <<>> <=> t = <<>>
<1>1. DOMAIN d = DOMAIN t
  BY DEF MadeOf
<1>2. t = <<>> <=> DOMAIN t = {}
  OBVIOUS
<1>3. d \in Seq(DocSet)
  <2>1. PICK m : m = Len(t)
    OBVIOUS
  <2>2. m \in Nat /\ DOMAIN t = 1..m /\ \A k \in 1..m : t[k] \in Nat
    BY <2>1
  <2>3. \A k \in 1..m : d[k] \in DocSet
    BY <2>2 DEF MadeOf, DocSet
  <2>4. d = [k \in 1..m |-> d[k]]
    BY <2>2 DEF MadeOf
  <2>5. d \in [1..m -> DocSet]
    BY <2>3, <2>4
  <2> QED
    BY <2>2, <2>5
<1>4. d = <<>> <=> DOMAIN d = {}
  BY <1>3
<1> QED
  BY <1>1, <1>2, <1>4

(* A page is sound when its documents are those of its window and its      *)
(* cursor leads to the next one.                                           *)
LEMMA SoundByNext ==
    ASSUME corpus \in Seq(Items), NEW s, NEW c, NEW o \in Nat, NEW n \in Nat \ {0},
           NEW d, NEW x, NEW page,
           n = Limit(s), Offset(s, c) = o,
           \/ s \in Dropping /\ MadeOf(d, Kept(Window(o, n)))
           \/ s \notin Dropping /\ MadeOf(d, Window(o, n)),
           x = NoCursor => MayEnd(s, o + n),
           x # NoCursor => x \in Nat \ {0} /\ Offset(s, x) = o + n,
           s \in LinkedSources => \A k \in DOMAIN d : d[k].url # "",
           page.docs = d, page.next = x
    PROVE  PageSound(s, c, page)
<1>1. ListsItems(d, Span(o, n, s))
  BY PageLists
<1> QED
  BY <1>1 DEF PageSound

(* Likewise when its last document has the cursor.                         *)
LEMMA SoundBy ==
    ASSUME corpus \in Seq(Items), NEW s, NEW c, NEW o \in Nat, NEW n \in Nat \ {0},
           NEW d, NEW x, NEW page,
           n = Limit(s), Offset(s, c) = o,
           \/ s \in Dropping /\ MadeOf(d, Kept(Window(o, n)))
           \/ s \notin Dropping /\ MadeOf(d, Window(o, n)),
           x = NoCursor => MayEnd(s, o + n),
           x # NoCursor => x \in Nat \ {0} /\ Offset(s, x) = o + n,
           s \in LinkedSources => \A k \in DOMAIN d : d[k].url # "",
           page.docs = d, page.next = OnLast(d, x)
    PROVE  PageSound(s, c, page)
<1>1. ListsItems(d, Span(o, n, s))
  BY PageLists
<1>2. d = <<>> => MayEnd(s, o + n)
  BY <1>1, EmptyPages
<1>3. page.next = IF d = <<>> THEN NoCursor ELSE x
  BY DEF OnLast
<1>4. page.next = NoCursor => MayEnd(s, o + n)
  BY <1>2, <1>3
<1>5. page.next # NoCursor => page.next \in Nat \ {0} /\ Offset(s, page.next) = o + n
  BY <1>3
<1> QED
  BY <1>1, <1>4, <1>5 DEF PageSound

(* The cursor of the adapters that count items from 0.                     *)
LEMMA ItemCursor ==
    ASSUME corpus \in Seq(Items), NEW s \in {"arxiv", "reddit", "youtube", "bluesky", "x-official", "twitterapi"},
           NEW x
    PROVE  Offset(s, x) = FirstItem(x)
BY DEF Offset, GitHubSources, NaverLists

(* Hacker News: the cursor is a page number, counted from 0.               *)
LEMMA HNPageSound ==
    ASSUME corpus \in Seq(Items), ask \in Int, NEW c, Cursor(c)
    PROVE  PageSound("hackernews", c, Page("hackernews", c))
<1>1. PICK n : n = Limit("hackernews")
  OBVIOUS
<1>2. n \in Nat \ {0}
  BY <1>1, LimitIsPositive DEF Sources
<1>3. PICK p : p = Max({c, 0})
  OBVIOUS
<1>4. p = FirstItem(c) /\ p \in Nat
  BY <1>3, FromZero
<1>5. PICK o : o = p * n
  OBVIOUS
<1>6. o \in Nat /\ (p + 1) * n = o + n
  BY <1>2, <1>4, <1>5
<1>7. PICK t : t = Kept(Window(o, n))
  OBVIOUS
<1>8. PICK d : d = Docs(t, HNHitUrl)
  OBVIOUS
<1>9. MadeOf(d, t) /\ \A k \in DOMAIN d : d[k].url # ""
  <2>1. PICK u : u = [k \in DOMAIN t |-> HNHitUrl(t[k])]
    OBVIOUS
  <2>2. \A i : HNHitUrl(i) \in Links /\ HNHitUrl(i) # ""
    BY DEF HNHitUrl, LinkOr, Links
  <2>3. \A k \in DOMAIN t : u[k] \in Links /\ u[k] # ""
    BY <2>1, <2>2
  <2>4. d = [k \in DOMAIN t |-> [item |-> t[k], url |-> u[k]]]
    BY <1>8, <2>1 DEF Docs, Doc
  <2> QED
    BY <2>3, <2>4, MadeBy
<1>10. PICK x : x = IF o + n < Len(corpus) THEN p + 1 ELSE NoCursor
  OBVIOUS
<1>11. PICK page : page = Page("hackernews", c)
  OBVIOUS
<1>12. page = [docs |-> d, next |-> OnLast(d, x)]
  BY <1>1, <1>3, <1>5, <1>6, <1>7, <1>8, <1>10, <1>11 DEF Page, HNPage
<1>13. page.docs = d /\ page.next = OnLast(d, x)
  BY <1>12
<1>14. Offset("hackernews", c) = o
  BY <1>1, <1>4, <1>5 DEF Offset
<1>15. x = NoCursor => MayEnd("hackernews", o + n)
  BY <1>2, <1>4, <1>6, <1>10 DEF NoCursor, MayEnd
<1>16. ASSUME x # NoCursor PROVE x \in Nat \ {0} /\ Offset("hackernews", x) = o + n
  <2>1. x = p + 1
    BY <1>10, <1>16
  <2>2. Offset("hackernews", x) = x * n
    BY <1>1, <1>16 DEF Offset, FirstItem
  <2> QED
    BY <1>4, <1>6, <2>1, <2>2
<1>17. MadeOf(d, Kept(Window(o, n)))
  BY <1>7, <1>9
<1>18. \/ "hackernews" \in Dropping /\ MadeOf(d, Kept(Window(o, n)))
       \/ "hackernews" \notin Dropping /\ MadeOf(d, Window(o, n))
  BY <1>17 DEF Dropping
<1>19. PageSound("hackernews", c, page)
  BY ONLY corpus \in Seq(Items), <1>1, <1>2, <1>6, <1>9, <1>13, <1>14, <1>15, <1>16, <1>18, SoundBy
<1> QED
  BY <1>11, <1>19

(* Reddit: the listing's after token, no matter what was dropped.          *)
LEMMA RedditPageSound ==
    ASSUME corpus \in Seq(Items), ask \in Int, NEW c, Cursor(c),
           NEW page, page = RedditPage(c, Limit("reddit"))
    PROVE  PageSound("reddit", c, page)
<1>1. PICK n : n = Limit("reddit")
  OBVIOUS
<1>2. n \in Nat \ {0}
  BY <1>1, LimitIsPositive DEF Sources
<1>3. PICK o : o = Max({c, 0})
  OBVIOUS
<1>4. o = FirstItem(c) /\ o \in Nat
  BY <1>3, FromZero
<1>5. Offset("reddit", c) = o
  BY <1>4, ItemCursor
<1>6. PICK w : w = Window(o, n)
  OBVIOUS
<1>7. PICK t : t = Kept(w)
  OBVIOUS
<1>8. PICK d : d = Docs(t, RedditPostUrl)
  OBVIOUS
<1>9. MadeOf(d, t) /\ \A k \in DOMAIN d : d[k].url # ""
  <2>1. PICK u : u = [k \in DOMAIN t |-> RedditPostUrl(t[k])]
    OBVIOUS
  <2>2. \A i : RedditPostUrl(i) \in Links /\ RedditPostUrl(i) # ""
    BY DEF RedditPostUrl, Links
  <2>3. \A k \in DOMAIN t : u[k] \in Links /\ u[k] # ""
    BY <2>1, <2>2
  <2>4. d = [k \in DOMAIN t |-> [item |-> t[k], url |-> u[k]]]
    BY <1>8, <2>1 DEF Docs, Doc
  <2> QED
    BY <2>3, <2>4, MadeBy
<1>10. PICK x : x = IF o + n < Len(corpus) THEN o + n ELSE NoCursor
  OBVIOUS
<1>12. page = [docs |-> d, next |-> OnLast(d, x)]
  BY <1>1, <1>3, <1>6, <1>7, <1>8, <1>10 DEF RedditPage
<1>13. page.docs = d /\ page.next = OnLast(d, x)
  BY <1>12
<1>14. x = NoCursor => MayEnd("reddit", o + n)
  BY <1>2, <1>4, <1>10 DEF NoCursor, MayEnd
<1>15. ASSUME x # NoCursor PROVE x \in Nat \ {0} /\ Offset("reddit", x) = o + n
  <2>1. x = o + n
    BY <1>10, <1>15
  <2>2. Offset("reddit", x) = FirstItem(x)
    BY ItemCursor
  <2> QED
    BY <1>2, <1>4, <1>15, <2>1, <2>2 DEF FirstItem
<1>16. MadeOf(d, Kept(Window(o, n)))
  BY <1>6, <1>7, <1>9
<1>17. \/ "reddit" \in Dropping /\ MadeOf(d, Kept(Window(o, n)))
       \/ "reddit" \notin Dropping /\ MadeOf(d, Window(o, n))
  BY <1>16 DEF Dropping, GitHubSources
<1> QED
  BY ONLY corpus \in Seq(Items), <1>1, <1>2, <1>4, <1>5, <1>9, <1>13, <1>14, <1>15, <1>17, SoundBy

(* Bluesky: its cursor likewise.                                           *)
LEMMA BlueskyPageSound ==
    ASSUME corpus \in Seq(Items), ask \in Int, NEW c, Cursor(c),
           NEW page, page = BlueskyPage(c, Limit("bluesky"))
    PROVE  PageSound("bluesky", c, page)
<1>1. PICK n : n = Limit("bluesky")
  OBVIOUS
<1>2. n \in Nat \ {0}
  BY <1>1, LimitIsPositive DEF Sources
<1>3. PICK o : o = Max({c, 0})
  OBVIOUS
<1>4. o = FirstItem(c) /\ o \in Nat
  BY <1>3, FromZero
<1>5. Offset("bluesky", c) = o
  BY <1>4, ItemCursor
<1>6. PICK w : w = Window(o, n)
  OBVIOUS
<1>7. PICK t : t = Kept(w)
  OBVIOUS
<1>8. PICK d : d = Docs(t, BlueskyPostUrl)
  OBVIOUS
<1>9. MadeOf(d, t) /\ \A k \in DOMAIN d : d[k].url # ""
  <2>1. PICK u : u = [k \in DOMAIN t |-> BlueskyPostUrl(t[k])]
    OBVIOUS
  <2>2. \A i : BlueskyPostUrl(i) \in Links /\ BlueskyPostUrl(i) # ""
    BY DEF BlueskyPostUrl, Links
  <2>3. \A k \in DOMAIN t : u[k] \in Links /\ u[k] # ""
    BY <2>1, <2>2
  <2>4. d = [k \in DOMAIN t |-> [item |-> t[k], url |-> u[k]]]
    BY <1>8, <2>1 DEF Docs, Doc
  <2> QED
    BY <2>3, <2>4, MadeBy
<1>10. PICK x : x = IF o + n < Len(corpus) THEN o + n ELSE NoCursor
  OBVIOUS
<1>12. page = [docs |-> d, next |-> OnLast(d, x)]
  BY <1>1, <1>3, <1>6, <1>7, <1>8, <1>10 DEF BlueskyPage
<1>13. page.docs = d /\ page.next = OnLast(d, x)
  BY <1>12
<1>14. x = NoCursor => MayEnd("bluesky", o + n)
  BY <1>2, <1>4, <1>10 DEF NoCursor, MayEnd
<1>15. ASSUME x # NoCursor PROVE x \in Nat \ {0} /\ Offset("bluesky", x) = o + n
  <2>1. x = o + n
    BY <1>10, <1>15
  <2>2. Offset("bluesky", x) = FirstItem(x)
    BY ItemCursor
  <2> QED
    BY <1>2, <1>4, <1>15, <2>1, <2>2 DEF FirstItem
<1>16. MadeOf(d, Kept(Window(o, n)))
  BY <1>6, <1>7, <1>9
<1>17. \/ "bluesky" \in Dropping /\ MadeOf(d, Kept(Window(o, n)))
       \/ "bluesky" \notin Dropping /\ MadeOf(d, Window(o, n))
  BY <1>16 DEF Dropping, GitHubSources
<1> QED
  BY ONLY corpus \in Seq(Items), <1>1, <1>2, <1>4, <1>5, <1>9, <1>13, <1>14, <1>15, <1>17, SoundBy

(* YouTube: the offset behind the page, up to the cap.                     *)
LEMMA YouTubePageSound ==
    ASSUME corpus \in Seq(Items), ask \in Int, NEW c, Cursor(c),
           NEW page, page = YouTubePage(c, Limit("youtube"))
    PROVE  PageSound("youtube", c, page)
<1>1. PICK n : n = Limit("youtube")
  OBVIOUS
<1>2. n \in Nat \ {0}
  BY <1>1, LimitIsPositive DEF Sources
<1>3. PICK o : o = Max({c, 0})
  OBVIOUS
<1>4. o = FirstItem(c) /\ o \in Nat
  BY <1>3, FromZero
<1>5. Offset("youtube", c) = o
  BY <1>4, ItemCursor
<1>6. PICK w : w = Window(o, n)
  OBVIOUS
<1>7. PICK t : t = Kept(w)
  OBVIOUS
<1>8. PICK d : d = Docs(t, YouTubeUrl)
  OBVIOUS
<1>9. MadeOf(d, t) /\ ("youtube" \in LinkedSources => \A k \in DOMAIN d : d[k].url # "")
  <2>1. PICK u : u = [k \in DOMAIN t |-> YouTubeUrl(t[k])]
    OBVIOUS
  <2>2. \A i : YouTubeUrl(i) \in Links /\ ("youtube" \in LinkedSources => YouTubeUrl(i) # "")
    BY DEF YouTubeUrl, LinkOnly, Links, LinkedSources
  <2>3. \A k \in DOMAIN t : u[k] \in Links /\ ("youtube" \in LinkedSources => u[k] # "")
    BY <2>1, <2>2
  <2>4. d = [k \in DOMAIN t |-> [item |-> t[k], url |-> u[k]]]
    BY <1>8, <2>1 DEF Docs, Doc
  <2> QED
    BY <2>3, <2>4, MadeBy
<1>10. PICK x : x = IF o + n < Len(corpus) /\ o + Len(w) < MaxResults THEN o + Len(w) ELSE NoCursor
  OBVIOUS
<1>12. page = [docs |-> d, next |-> OnLast(d, x)]
  BY <1>1, <1>3, <1>6, <1>7, <1>8, <1>10 DEF YouTubePage
<1>13. page.docs = d /\ page.next = OnLast(d, x)
  BY <1>12
<1>11. PICK m : m = Len(w)
  OBVIOUS
<1>18. m \in Nat /\ (o + n <= Len(corpus) => m = n)
  <2>1. n \in Nat
    BY <1>2
  <2>2. WindowOf(w, o, n)
    BY <1>4, <1>6, <2>1, WindowIs
  <2> QED
    BY <1>2, <1>4, <1>11, <2>2 DEF WindowOf
<1>14. x = NoCursor => MayEnd("youtube", o + n)
  BY <1>2, <1>4, <1>10, <1>11, <1>18, AdaptersAssumption DEF NoCursor, MayEnd, Capped
<1>15. ASSUME x # NoCursor PROVE x \in Nat \ {0} /\ Offset("youtube", x) = o + n
  <2>1. x = o + n
    BY <1>2, <1>4, <1>10, <1>11, <1>15, <1>18
  <2>2. Offset("youtube", x) = FirstItem(x)
    BY ItemCursor
  <2> QED
    BY <1>2, <1>4, <1>15, <2>1, <2>2 DEF FirstItem
<1>16. MadeOf(d, Kept(Window(o, n)))
  BY <1>6, <1>7, <1>9
<1>17. \/ "youtube" \in Dropping /\ MadeOf(d, Kept(Window(o, n)))
       \/ "youtube" \notin Dropping /\ MadeOf(d, Window(o, n))
  BY <1>16 DEF Dropping, GitHubSources
<1> QED
  BY ONLY corpus \in Seq(Items), <1>1, <1>2, <1>4, <1>5, <1>9, <1>13, <1>14, <1>15, <1>17, SoundBy

(* arXiv: the start of the page and its entries.                           *)
LEMMA ArxivPageSound ==
    ASSUME corpus \in Seq(Items), ask \in Int, NEW c, Cursor(c),
           NEW page, page = ArxivPage(c, Limit("arxiv"))
    PROVE  PageSound("arxiv", c, page)
<1>1. PICK n : n = Limit("arxiv")
  OBVIOUS
<1>2. n \in Nat \ {0}
  BY <1>1, LimitIsPositive DEF Sources
<1>3. PICK o : o = Max({c, 0})
  OBVIOUS
<1>4. o = FirstItem(c) /\ o \in Nat
  BY <1>3, FromZero
<1>5. Offset("arxiv", c) = o
  BY <1>4, ItemCursor
<1>6. PICK w : w = Window(o, n)
  OBVIOUS
<1>7. PICK t : t = w
  OBVIOUS
<1>8. PICK d : d = Docs(t, ArxivUrl)
  OBVIOUS
<1>9. MadeOf(d, t) /\ \A k \in DOMAIN d : d[k].url # ""
  <2>1. PICK u : u = [k \in DOMAIN t |-> ArxivUrl(t[k])]
    OBVIOUS
  <2>2. \A i : ArxivUrl(i) \in Links /\ ArxivUrl(i) # ""
    BY DEF ArxivUrl, Links
  <2>3. \A k \in DOMAIN t : u[k] \in Links /\ u[k] # ""
    BY <2>1, <2>2
  <2>4. d = [k \in DOMAIN t |-> [item |-> t[k], url |-> u[k]]]
    BY <1>8, <2>1 DEF Docs, Doc
  <2> QED
    BY <2>3, <2>4, MadeBy
<1>10. PICK x : x = IF w # <<>> /\ o + Len(w) < Len(corpus) THEN o + Len(w) ELSE NoCursor
  OBVIOUS
<1>12. page = [docs |-> d, next |-> x]
  BY <1>1, <1>3, <1>6, <1>7, <1>8, <1>10 DEF ArxivPage
<1>13. page.docs = d /\ page.next = x
  BY <1>12
<1>11. PICK m : m = Len(w)
  OBVIOUS
<1>18. m \in Nat /\ (o + n <= Len(corpus) => m = n)
       /\ (m = 0 <=> w = <<>>) /\ (m = 0 => o >= Len(corpus))
       /\ (o + m < Len(corpus) => m = n)
  <2>1. n \in Nat
    BY <1>2
  <2>2. WindowOf(w, o, n)
    BY <1>4, <1>6, <2>1, WindowIs
  <2> QED
    BY <1>2, <1>4, <1>11, <2>2 DEF WindowOf
<1>14. x = NoCursor => MayEnd("arxiv", o + n)
  BY <1>2, <1>4, <1>10, <1>11, <1>18 DEF NoCursor, MayEnd
<1>15. ASSUME x # NoCursor PROVE x \in Nat \ {0} /\ Offset("arxiv", x) = o + n
  <2>1. x = o + n
    BY <1>2, <1>4, <1>10, <1>11, <1>15, <1>18
  <2>2. Offset("arxiv", x) = FirstItem(x)
    BY ItemCursor
  <2> QED
    BY <1>2, <1>4, <1>15, <2>1, <2>2 DEF FirstItem
<1>16. MadeOf(d, Window(o, n))
  BY <1>6, <1>7, <1>9
<1>17. \/ "arxiv" \in Dropping /\ MadeOf(d, Kept(Window(o, n)))
       \/ "arxiv" \notin Dropping /\ MadeOf(d, Window(o, n))
  BY <1>16 DEF Dropping, GitHubSources
<1> QED
  BY ONLY corpus \in Seq(Items), <1>1, <1>2, <1>4, <1>5, <1>9, <1>13, <1>14, <1>15, <1>17, SoundByNext

(* X: the provider's cursor, for a page that is not empty.                 *)
LEMMA XPageSound ==
    ASSUME corpus \in Seq(Items), ask \in Int, NEW c, Cursor(c),
           NEW s \in {"x-official", "twitterapi"}, NEW page, page = SearchX(XTweets(c, Limit(s)))
    PROVE  PageSound(s, c, page)
<1>1. PICK n : n = Limit(s)
  OBVIOUS
<1>2. n \in Nat \ {0}
  BY <1>1, LimitIsPositive DEF Sources
<1>3. PICK o : o = Max({c, 0})
  OBVIOUS
<1>4. o = FirstItem(c) /\ o \in Nat
  BY <1>3, FromZero
<1>5. Offset(s, c) = o
  BY <1>4, ItemCursor
<1>6. PICK w : w = Window(o, n)
  OBVIOUS
<1>7. PICK t : t = w
  OBVIOUS
<1>8. PICK d : d = Docs(t, XTweetUrl)
  OBVIOUS
<1>9. MadeOf(d, t) /\ \A k \in DOMAIN d : d[k].url # ""
  <2>1. PICK u : u = [k \in DOMAIN t |-> XTweetUrl(t[k])]
    OBVIOUS
  <2>2. \A i : XTweetUrl(i) \in Links /\ XTweetUrl(i) # ""
    BY DEF XTweetUrl, LinkOr, Links
  <2>3. \A k \in DOMAIN t : u[k] \in Links /\ u[k] # ""
    BY <2>1, <2>2
  <2>4. d = [k \in DOMAIN t |-> [item |-> t[k], url |-> u[k]]]
    BY <1>8, <2>1 DEF Docs, Doc
  <2> QED
    BY <2>3, <2>4, MadeBy
<1>10. PICK x : x = IF w # <<>> /\ o + n < Len(corpus) THEN o + n ELSE NoCursor
  OBVIOUS
<1>12. page = [docs |-> d, next |-> x]
  BY <1>1, <1>3, <1>6, <1>7, <1>8, <1>10 DEF SearchX, NormalizeXTweets, XTweets
<1>13. page.docs = d /\ page.next = x
  BY <1>12
<1>11. PICK m : m = Len(w)
  OBVIOUS
<1>18. m \in Nat /\ (o + n <= Len(corpus) => m = n)
       /\ (m = 0 <=> w = <<>>) /\ (m = 0 => o >= Len(corpus))
       /\ (o + m < Len(corpus) => m = n)
  <2>1. n \in Nat
    BY <1>2
  <2>2. WindowOf(w, o, n)
    BY <1>4, <1>6, <2>1, WindowIs
  <2> QED
    BY <1>2, <1>4, <1>11, <2>2 DEF WindowOf
<1>14. x = NoCursor => MayEnd(s, o + n)
  BY <1>2, <1>4, <1>10, <1>11, <1>18 DEF NoCursor, MayEnd
<1>15. ASSUME x # NoCursor PROVE x \in Nat \ {0} /\ Offset(s, x) = o + n
  <2>1. x = o + n
    BY <1>10, <1>15
  <2>2. Offset(s, x) = FirstItem(x)
    BY ItemCursor
  <2> QED
    BY <1>2, <1>4, <1>15, <2>1, <2>2 DEF FirstItem
<1>16. MadeOf(d, Window(o, n))
  BY <1>6, <1>7, <1>9
<1>17. \/ s \in Dropping /\ MadeOf(d, Kept(Window(o, n)))
       \/ s \notin Dropping /\ MadeOf(d, Window(o, n))
  BY <1>16 DEF Dropping, GitHubSources
<1> QED
  BY ONLY corpus \in Seq(Items), <1>1, <1>2, <1>4, <1>5, <1>9, <1>13, <1>14, <1>15, <1>17, SoundByNext

(* SearXNG: always the number of the next page.                            *)
LEMMA SearxngPageSound ==
    ASSUME corpus \in Seq(Items), ask \in Int, NEW c, Cursor(c),
           NEW page, page = SearxngPage(c, Limit("searxng"))
    PROVE  PageSound("searxng", c, page)
<1>1. PICK n : n = Limit("searxng")
  OBVIOUS
<1>2. n \in Nat \ {0}
  BY <1>1, LimitIsPositive DEF Sources
<1>3. PICK p : p = IF c = NoCursor THEN 1 ELSE c
  OBVIOUS
<1>19. p \in Nat \ {0}
  BY <1>3 DEF Cursor
<1>20. PICK o : o = (p - 1) * n
  OBVIOUS
<1>4. o \in Nat /\ p * n = o + n
  <2>1. PICK q : q = p - 1
    OBVIOUS
  <2>2. q \in Nat /\ p = q + 1
    BY <1>19, <2>1
  <2>3. o = q * n
    BY <1>20, <2>1
  <2> QED
    BY <1>2, <2>2, <2>3
<1>5. Offset("searxng", c) = o
  <2>1. Offset("searxng", c) = IF c = NoCursor THEN 0 ELSE (c - 1) * n
    BY <1>1 DEF Offset, GitHubSources
  <2>2. ASSUME c = NoCursor PROVE o = 0
    BY <1>2, <1>3, <1>20, <2>2
  <2> QED
    BY <1>3, <1>20, <2>1, <2>2
<1>6. PICK w : w = Window(o, n)
  OBVIOUS
<1>7. PICK t : t = w
  OBVIOUS
<1>8. PICK d : d = Docs(t, SearxngHitUrl)
  OBVIOUS
<1>9. MadeOf(d, t) /\ ("searxng" \in LinkedSources => \A k \in DOMAIN d : d[k].url # "")
  <2>1. PICK u : u = [k \in DOMAIN t |-> SearxngHitUrl(t[k])]
    OBVIOUS
  <2>2. \A i : SearxngHitUrl(i) \in Links /\ ("searxng" \in LinkedSources => SearxngHitUrl(i) # "")
    BY DEF SearxngHitUrl, LinkOnly, Links, LinkedSources
  <2>3. \A k \in DOMAIN t : u[k] \in Links /\ ("searxng" \in LinkedSources => u[k] # "")
    BY <2>1, <2>2
  <2>4. d = [k \in DOMAIN t |-> [item |-> t[k], url |-> u[k]]]
    BY <1>8, <2>1 DEF Docs, Doc
  <2> QED
    BY <2>3, <2>4, MadeBy
<1>10. PICK x : x = p + 1
  OBVIOUS
<1>12. page = [docs |-> d, next |-> OnLast(d, x)]
  BY <1>1, <1>3, <1>6, <1>7, <1>8, <1>10, <1>20 DEF SearxngPage
<1>13. page.docs = d /\ page.next = OnLast(d, x)
  BY <1>12
<1>14. x = NoCursor => MayEnd("searxng", o + n)
  BY <1>10, <1>19 DEF NoCursor
<1>15. ASSUME x # NoCursor PROVE x \in Nat \ {0} /\ Offset("searxng", x) = o + n
  <2>1. x = p + 1
    BY <1>10, <1>15
  <2>2. Offset("searxng", x) = (x - 1) * n
    BY <1>1, <1>15 DEF Offset, GitHubSources
  <2>3. x - 1 = p
    BY <1>19, <2>1
  <2> QED
    BY <1>4, <1>19, <2>1, <2>2, <2>3
<1>16. MadeOf(d, Window(o, n))
  BY <1>6, <1>7, <1>9
<1>17. \/ "searxng" \in Dropping /\ MadeOf(d, Kept(Window(o, n)))
       \/ "searxng" \notin Dropping /\ MadeOf(d, Window(o, n))
  BY <1>16 DEF Dropping, GitHubSources
<1> QED
  BY ONLY corpus \in Seq(Items), <1>1, <1>2, <1>4, <1>5, <1>9, <1>13, <1>14, <1>15, <1>17, SoundBy

(* GitHub: the number of the next page, on the page's last item.           *)
LEMMA GitHubPageSound ==
    ASSUME corpus \in Seq(Items), ask \in Int, NEW c, Cursor(c),
           NEW s \in GitHubSources, NEW own \in Links, s \in LinkedSources => IsLink(own),
           NEW page, page = GitHubPage(c, Limit(s), own)
    PROVE  PageSound(s, c, page)
<1>1. PICK n : n = Limit(s)
  OBVIOUS
<1>2. n \in Nat \ {0}
  BY <1>1, LimitIsPositive DEF Sources, GitHubSources, NaverLists
<1>3. PICK p : p = IF c = NoCursor THEN 1 ELSE c
  OBVIOUS
<1>19. p \in Nat \ {0}
  BY <1>3 DEF Cursor
<1>20. PICK o : o = (p - 1) * n
  OBVIOUS
<1>4. o \in Nat /\ p * n = o + n
  <2>1. PICK q : q = p - 1
    OBVIOUS
  <2>2. q \in Nat /\ p = q + 1
    BY <1>19, <2>1
  <2>3. o = q * n
    BY <1>20, <2>1
  <2> QED
    BY <1>2, <2>2, <2>3
<1>5. Offset(s, c) = o
  <2>1. Offset(s, c) = IF c = NoCursor THEN 0 ELSE (c - 1) * n
    BY <1>1 DEF Offset, GitHubSources
  <2>2. ASSUME c = NoCursor PROVE o = 0
    BY <1>2, <1>3, <1>20, <2>2
  <2> QED
    BY <1>3, <1>20, <2>1, <2>2
<1>6. PICK w : w = Window(o, n)
  OBVIOUS
<1>7. PICK t : t = Kept(w)
  OBVIOUS
<1>8. PICK d : d = Docs(t, LAMBDA i : LinkOr(i, own))
  OBVIOUS
<1>9. MadeOf(d, t) /\ (s \in LinkedSources => \A k \in DOMAIN d : d[k].url # "")
  <2>1. PICK u : u = [k \in DOMAIN t |-> LinkOr(t[k], own)]
    OBVIOUS
  <2>2. \A i : LinkOr(i, own) \in Links /\ (s \in LinkedSources => LinkOr(i, own) # "")
    BY DEF LinkOr, Links, IsLink
  <2>3. \A k \in DOMAIN t : u[k] \in Links /\ (s \in LinkedSources => u[k] # "")
    BY <2>1, <2>2
  <2>4. d = [k \in DOMAIN t |-> [item |-> t[k], url |-> u[k]]]
    BY <1>8, <2>1 DEF Docs, Doc
  <2> QED
    BY <2>3, <2>4, MadeBy
<1>10. PICK x : x = IF w # <<>> /\ corpus[Last(w)] # "dropped" /\ p * n < Len(corpus) THEN p + 1 ELSE NoCursor
  OBVIOUS
<1>11. PICK m : m = Len(w)
  OBVIOUS
<1>18. /\ m \in Nat /\ (o + n <= Len(corpus) => m = n)
       /\ w \in Seq(Nat) /\ \A k \in DOMAIN w : w[k] = o + k
       /\ (m = 0 <=> w = <<>>) /\ (m = 0 => o >= Len(corpus))
  <2>1. n \in Nat
    BY <1>2
  <2>2. WindowOf(w, o, n)
    BY <1>4, <1>6, <2>1, WindowIs
  <2> QED
    BY <1>2, <1>4, <1>11, <2>2 DEF WindowOf
<1>21. w # <<>> => Last(w) = o + m
  <2>1. w # <<>> => m \in DOMAIN w /\ Last(w) = w[m]
    BY <1>11, <1>18 DEF Last
  <2> QED
    BY <1>18, <2>1
<1>12. page = [docs |-> d, next |-> x]
  BY <1>1, <1>3, <1>6, <1>7, <1>8, <1>10, <1>20 DEF GitHubPage
<1>13. page.docs = d /\ page.next = x
  BY <1>12
<1>14. x = NoCursor => MayEnd(s, o + n)
  <2> SUFFICES ASSUME x = NoCursor, o + n < Len(corpus) PROVE LastDropped(o + n) /\ s \in Dropping
    BY <1>2, <1>4 DEF MayEnd
  <2>1. m = n /\ w # <<>>
    BY <1>2, <1>4, <1>18
  <2>2. x = p + 1 \/ corpus[Last(w)] = "dropped"
    BY <1>4, <1>10, <2>1
  <2>3. x # p + 1
    BY <1>19 DEF NoCursor
  <2>4. corpus[o + n] = "dropped"
    BY <1>21, <2>1, <2>2, <2>3
  <2> QED
    BY <1>2, <1>4, <2>4 DEF LastDropped, Dropping
<1>15. ASSUME x # NoCursor PROVE x \in Nat \ {0} /\ Offset(s, x) = o + n
  <2>1. x = p + 1
    BY <1>10, <1>15
  <2>2. Offset(s, x) = (x - 1) * n
    BY <1>1, <1>15 DEF Offset, GitHubSources
  <2>3. x - 1 = p
    BY <1>19, <2>1
  <2> QED
    BY <1>4, <1>19, <2>1, <2>2, <2>3
<1>16. MadeOf(d, Kept(Window(o, n)))
  BY <1>6, <1>7, <1>9
<1>17. \/ s \in Dropping /\ MadeOf(d, Kept(Window(o, n)))
       \/ s \notin Dropping /\ MadeOf(d, Window(o, n))
  BY <1>16 DEF Dropping, GitHubSources, NaverLists
<1> QED
  BY ONLY corpus \in Seq(Items), <1>1, <1>2, <1>4, <1>5, <1>9, <1>13, <1>14, <1>15, <1>17, SoundByNext

(* Naver: the position of the next item, up to its last start.             *)
LEMMA NaverPageSound ==
    ASSUME corpus \in Seq(Items), ask \in Int, NEW c, Cursor(c),
           NEW s \in NaverLists, NEW own \in Links, s \in LinkedSources => IsLink(own),
           NEW page, page = NaverPage(c, Limit(s), own)
    PROVE  PageSound(s, c, page)
<1>1. PICK n : n = Limit(s)
  OBVIOUS
<1>2. n \in Nat \ {0}
  BY <1>1, LimitIsPositive DEF Sources, GitHubSources, NaverLists
<1>3. PICK p : p = NaverStart(c)
  OBVIOUS
<1>19. PICK o : o = p - 1
  OBVIOUS
<1>4. o \in Nat /\ p = o + 1 /\ o = IF c = NoCursor THEN 0 ELSE c - 1
  BY <1>3, <1>19 DEF NaverStart, Cursor, NoCursor
<1>5. Offset(s, c) = o
  BY <1>4 DEF Offset, NaverLists, GitHubSources
<1>6. PICK w : w = Window(o, n)
  OBVIOUS
<1>7. PICK t : t = w
  OBVIOUS
<1>8. PICK d : d = Docs(t, LAMBDA i : LinkOr(i, own))
  OBVIOUS
<1>9. MadeOf(d, t) /\ (s \in LinkedSources => \A k \in DOMAIN d : d[k].url # "")
  <2>1. PICK u : u = [k \in DOMAIN t |-> LinkOr(t[k], own)]
    OBVIOUS
  <2>2. \A i : LinkOr(i, own) \in Links /\ (s \in LinkedSources => LinkOr(i, own) # "")
    BY DEF LinkOr, Links, IsLink
  <2>3. \A k \in DOMAIN t : u[k] \in Links /\ (s \in LinkedSources => u[k] # "")
    BY <2>1, <2>2
  <2>4. d = [k \in DOMAIN t |-> [item |-> t[k], url |-> u[k]]]
    BY <1>8, <2>1 DEF Docs, Doc
  <2> QED
    BY <2>3, <2>4, MadeBy
<1>10. PICK x : x = NaverNextCursor(p, Len(w))
  OBVIOUS
<1>11. PICK m : m = Len(w)
  OBVIOUS
<1>18. m \in Nat /\ (o + n <= Len(corpus) => m = n)
  <2>1. n \in Nat
    BY <1>2
  <2>2. WindowOf(w, o, n)
    BY <1>4, <1>6, <2>1, WindowIs
  <2> QED
    BY <1>2, <1>4, <1>11, <2>2 DEF WindowOf
<1>22. o + m < Len(corpus) => m = n
  <2>1. n \in Nat
    BY <1>2
  <2>2. WindowOf(w, o, n)
    BY <1>4, <1>6, <2>1, WindowIs
  <2> QED
    BY <1>2, <1>4, <1>11, <2>2 DEF WindowOf
<1>12. page = [docs |-> d, next |-> OnLast(d, x)]
  BY <1>1, <1>3, <1>6, <1>7, <1>8, <1>10, <1>19 DEF NaverPage
<1>13. page.docs = d /\ page.next = OnLast(d, x)
  BY <1>12
<1>14. x = NoCursor => MayEnd(s, o + n)
  <2>1. x = NoCursor => p + m > NaverLastStart \/ p + m > Len(corpus)
    BY <1>4, <1>10, <1>11, <1>18 DEF NaverNextCursor, NoCursor
  <2>2. m = n \/ o + n > Len(corpus)
    BY <1>2, <1>4, <1>18
  <2>3. NaverLastStart \in Nat
    BY AdaptersAssumption
  <2>4. x = NoCursor => o + n >= NaverLastStart \/ o + n >= Len(corpus)
    BY <1>2, <1>4, <1>18, <2>1, <2>2, <2>3
  <2>5. o + n >= NaverLastStart => Capped(s, o + n)
    BY DEF Capped, NaverLists
  <2> QED
    BY <2>4, <2>5 DEF MayEnd
<1>15. ASSUME x # NoCursor PROVE x \in Nat \ {0} /\ Offset(s, x) = o + n
  <2>1. x = p + m /\ p + m <= Len(corpus)
    BY <1>4, <1>10, <1>11, <1>15, <1>18 DEF NaverNextCursor
  <2>2. Offset(s, x) = x - 1
    BY <1>15 DEF Offset, NaverLists, GitHubSources
  <2>3. m = n
    BY <1>2, <1>4, <1>18, <1>22, <2>1
  <2> QED
    BY <1>2, <1>4, <2>1, <2>2, <2>3
<1>16. MadeOf(d, Window(o, n))
  BY <1>6, <1>7, <1>9
<1>17. \/ s \in Dropping /\ MadeOf(d, Kept(Window(o, n)))
       \/ s \notin Dropping /\ MadeOf(d, Window(o, n))
  BY <1>16 DEF Dropping, GitHubSources, NaverLists
<1> QED
  BY ONLY corpus \in Seq(Items), <1>1, <1>2, <1>4, <1>5, <1>9, <1>13, <1>14, <1>15, <1>17, SoundBy

(* Every page of an adapter that hands out a cursor.                       *)
LEMMA PagedSound ==
    ASSUME corpus \in Seq(Items), ask \in Int, NEW s \in Paged, NEW c, Cursor(c)
    PROVE  PageSound(s, c, Page(s, c))
<1>1. s \in {"hackernews", "arxiv", "reddit", "youtube", "bluesky", "searxng", "x-official", "twitterapi"}
            \cup GitHubSources \cup NaverLists
  BY DEF Paged, Sources, GitHubSources, NaverLists
<1>2. CASE s = "hackernews"
  BY <1>2, HNPageSound
<1>3. CASE s = "arxiv"
  <2>1. Page(s, c) = ArxivPage(c, Limit("arxiv"))
    BY <1>3 DEF Page
  <2> QED
    BY <1>3, <2>1, ArxivPageSound
<1>4. CASE s = "reddit"
  <2>1. Page(s, c) = RedditPage(c, Limit("reddit"))
    BY <1>4 DEF Page
  <2> QED
    BY <1>4, <2>1, RedditPageSound
<1>5. CASE s = "youtube"
  <2>1. Page(s, c) = YouTubePage(c, Limit("youtube"))
    BY <1>5 DEF Page
  <2> QED
    BY <1>5, <2>1, YouTubePageSound
<1>6. CASE s = "bluesky"
  <2>1. Page(s, c) = BlueskyPage(c, Limit("bluesky"))
    BY <1>6 DEF Page
  <2> QED
    BY <1>6, <2>1, BlueskyPageSound
<1>7. CASE s = "searxng"
  <2>1. Page(s, c) = SearxngPage(c, Limit("searxng"))
    BY <1>7 DEF Page
  <2> QED
    BY <1>7, <2>1, SearxngPageSound
<1>8. CASE s \in {"x-official", "twitterapi"}
  <2>1. Page(s, c) = SearchX(XTweets(c, Limit(s)))
    BY <1>8 DEF Page, XOfficialSearch, TwitterAPISearch
  <2> QED
    BY <1>8, <2>1, XPageSound
<1>9. CASE s \in GitHubSources
  <2>1. PICK own : own = IF s = "github commits" THEN GitHubCommitUrl ELSE ""
    OBVIOUS
  <2>2. Page(s, c) = GitHubPage(c, Limit(s), own)
    BY <1>9, <2>1 DEF GitHubSources, Page, GitHubCode, GitHubIssues, GitHubRepos, GitHubCommits
  <2>3. own \in Links /\ (s \in LinkedSources => IsLink(own))
    BY <1>9, <2>1 DEF GitHubSources, LinkedSources, IsLink, Links, GitHubCommitUrl
  <2> QED
    BY <1>9, <2>2, <2>3, GitHubPageSound
<1>10. CASE s \in NaverLists
  <2>1. PICK own : own = IF s = "naver news" THEN NaverNewsUrl ELSE ""
    OBVIOUS
  <2>2. Page(s, c) = NaverPage(c, Limit(s), own)
    BY <1>10, <2>1 DEF NaverLists, Page, NaverBlog, NaverNews, NaverWeb, NaverShop
  <2>3. own \in Links /\ (s \in LinkedSources => IsLink(own))
    BY <1>10, <2>1 DEF NaverLists, LinkedSources, IsLink, Links, NaverNewsUrl
  <2> QED
    BY <1>10, <2>2, <2>3, NaverPageSound
<1> QED
  BY <1>1, <1>2, <1>3, <1>4, <1>5, <1>6, <1>7, <1>8, <1>9, <1>10

(* Documents made of a page are documents.                                 *)
LEMMA MadeDocuments ==
    ASSUME NEW t \in Seq(Nat), NEW d, MadeOf(d, t)
    PROVE  d \in Seq(DocSet) /\ DOMAIN d = DOMAIN t
<1>1. PICK m : m = Len(t)
  OBVIOUS
<1>2. m \in Nat /\ DOMAIN t = 1..m /\ \A k \in 1..m : t[k] \in Nat
  BY <1>1
<1>3. \A k \in 1..m : d[k] \in DocSet
  BY <1>2 DEF MadeOf, DocSet
<1>4. d = [k \in 1..m |-> d[k]]
  BY <1>2 DEF MadeOf
<1>5. d \in [1..m -> DocSet]
  BY <1>3, <1>4
<1> QED
  BY <1>2, <1>5

(* The adapters without a cursor: one page of linked documents.            *)
LEMMA OnePage ==
    ASSUME corpus \in Seq(Items), ask \in Int, NEW s \in Sources \ Paged, NEW c
    PROVE  /\ Page(s, c).next = NoCursor /\ Page(s, c).docs \in Seq(DocSet)
           /\ s \in LinkedSources => \A k \in DOMAIN Page(s, c).docs : Page(s, c).docs[k].url # ""
<1>1. s \in {"reddit-rss", "naver datalab", "threads", "facebook"}
  BY DEF Paged
<1>2. PICK l : l = Len(corpus)
  OBVIOUS
<1>3. PICK zero : zero = 0
  OBVIOUS
<1>4. l \in Nat /\ zero \in Nat /\ DOMAIN corpus = 1..l
  BY <1>2, <1>3
<1>5. PICK w : w = Window(zero, l)
  OBVIOUS
<1>6. w \in Seq(Nat) /\ (\A k \in DOMAIN w : w[k] = k) /\ Len(w) = l
  <2>1. WindowOf(w, zero, l)
    BY <1>4, <1>5, WindowIs
  <2> QED
    BY <1>2, <1>3, <1>4, <2>1 DEF WindowOf
<1>7. CASE s = "reddit-rss"
  <2>1. PICK I : I = {i \in DOMAIN corpus : corpus[i] = "linked"}
    OBVIOUS
  <2>2. PICK t : t = KeepAt(w, I)
    OBVIOUS
  <2>3. I \subseteq DOMAIN w
    BY <1>4, <1>6, <2>1
  <2>4. t \in Seq(Nat) /\ \E g : KeptBy(g, t, w, I)
    BY <1>6, <2>2, <2>3, KeepAtIs
  <2>5. PICK g : KeptBy(g, t, w, I)
    BY <2>4
  <2>6. \A k \in DOMAIN t : corpus[t[k]] = "linked"
    <3>1. \A k \in DOMAIN t : g[k] \in I /\ t[k] = w[g[k]]
      BY <2>4, <2>5 DEF KeptBy, InOrder
    <3>2. \A k \in DOMAIN t : t[k] \in I
      BY <1>6, <2>3, <3>1
    <3> QED
      BY <2>1, <3>2
  <2>7. PICK d : d = Docs(t, LinkOnly)
    OBVIOUS
  <2>8. MadeOf(d, t) /\ \A k \in DOMAIN d : d[k].url # ""
    <3>1. PICK u : u = [k \in DOMAIN t |-> LinkOnly(t[k])]
      OBVIOUS
    <3>2. \A k \in DOMAIN t : u[k] = "link"
      BY <2>6, <3>1 DEF LinkOnly
    <3>3. \A k \in DOMAIN t : u[k] \in Links /\ u[k] # ""
      BY <3>2 DEF Links
    <3>4. d = [k \in DOMAIN t |-> [item |-> t[k], url |-> u[k]]]
      BY <2>7, <3>1 DEF Docs, Doc
    <3> QED
      BY <3>3, <3>4, MadeBy
  <2>9. Page(s, c) = [docs |-> d, next |-> NoCursor]
    BY <1>2, <1>3, <1>5, <1>7, <2>1, <2>2, <2>7 DEF Page, RedditFeed
  <2>10. d \in Seq(DocSet)
    BY <2>4, <2>8, MadeDocuments
  <2>11. Page(s, c).next = NoCursor /\ Page(s, c).docs = d
    BY <2>9
  <2> QED
    BY <2>8, <2>10, <2>11
<1>8. CASE s = "naver datalab"
  <2>1. PICK d : d = Docs(w, NaverDatalabUrl)
    OBVIOUS
  <2>2. MadeOf(d, w) /\ \A k \in DOMAIN d : d[k].url # ""
    <3>1. PICK u : u = [k \in DOMAIN w |-> NaverDatalabUrl(w[k])]
      OBVIOUS
    <3>2. \A k \in DOMAIN w : u[k] \in Links /\ u[k] # ""
      BY <3>1 DEF NaverDatalabUrl, Links
    <3>3. d = [k \in DOMAIN w |-> [item |-> w[k], url |-> u[k]]]
      BY <2>1, <3>1 DEF Docs, Doc
    <3> QED
      BY <3>2, <3>3, MadeBy
  <2>3. Page(s, c) = [docs |-> d, next |-> NoCursor]
    BY <1>2, <1>3, <1>5, <1>8, <2>1 DEF Page, NaverDatalab
  <2>4. d \in Seq(DocSet)
    BY <1>6, <2>2, MadeDocuments
  <2>5. Page(s, c).next = NoCursor /\ Page(s, c).docs = d
    BY <2>3
  <2> QED
    BY <2>2, <2>4, <2>5
<1>9. CASE s = "threads"
  <2>1. PICK n : n = Limit(s)
    OBVIOUS
  <2>2. n \in Nat
    BY <2>1, LimitIsPositive
  <2>3. PICK v : v = Window(zero, n)
    OBVIOUS
  <2>4. v \in Seq(Nat)
    BY <1>4, <2>2, <2>3, WindowIs DEF WindowOf
  <2>5. PICK d : d = Docs(v, ThreadsPostUrl)
    OBVIOUS
  <2>6. MadeOf(d, v)
    <3>1. PICK u : u = [k \in DOMAIN v |-> ThreadsPostUrl(v[k])]
      OBVIOUS
    <3>2. \A k \in DOMAIN v : u[k] \in Links
      BY <3>1 DEF ThreadsPostUrl, LinkOnly, Links
    <3>3. d = [k \in DOMAIN v |-> [item |-> v[k], url |-> u[k]]]
      BY <2>5, <3>1 DEF Docs, Doc
    <3> QED
      BY <3>2, <3>3, MadeBy
  <2>7. Page(s, c) = [docs |-> d, next |-> NoCursor]
    BY <1>3, <1>9, <2>1, <2>3, <2>5 DEF Page, ThreadsPage
  <2>8. d \in Seq(DocSet)
    BY <2>4, <2>6, MadeDocuments
  <2>9. Page(s, c).next = NoCursor /\ Page(s, c).docs = d
    BY <2>7
  <2> QED
    BY <1>9, <2>8, <2>9 DEF LinkedSources
<1>10. CASE s = "facebook"
  <2>1. Page(s, c) = [docs |-> <<>>, next |-> NoCursor]
    BY <1>10 DEF Page
  <2>2. Page(s, c).next = NoCursor /\ Page(s, c).docs = <<>>
    BY <2>1
  <2>3. <<>> \in Seq(DocSet)
    OBVIOUS
  <2> QED
    BY <1>10, <2>2, <2>3 DEF LinkedSources
<1> QED
  BY <1>1, <1>7, <1>8, <1>9, <1>10

(* What a sequence lists, behind what another one does.                    *)
LEMMA ListsBoth ==
    ASSUME NEW a, NEW b, NEW I, NEW J, ListsItems(a, I), ListsItems(b, J),
           \A i \in I, j \in J : i < j
    PROVE  ListsItems(a \o b, I \cup J)
<1>1. PICK c : c = a \o b
  OBVIOUS
<1>2. PICK m : m = Len(a)
  OBVIOUS
<1>3. PICK n : n = Len(b)
  OBVIOUS
<1>4. a \in Seq(DocSet) /\ b \in Seq(DocSet)
  BY DEF ListsItems
<1>5. /\ m \in Nat /\ n \in Nat /\ DOMAIN a = 1..m /\ DOMAIN b = 1..n
      /\ c \in Seq(DocSet) /\ DOMAIN c = 1..(m + n)
      /\ \A k \in 1..m : c[k] = a[k]
      /\ \A k \in 1..n : c[m + k] = b[k]
  BY <1>1, <1>2, <1>3, <1>4
<1>6. \A k \in 1..(m + n) : k \in 1..m \/ (k - m \in 1..n /\ m + (k - m) = k)
  BY <1>5
<1>7. \A k \in 1..m : c[k].item \in I
  BY <1>5 DEF ListsItems
<1>8. \A k \in 1..n : c[m + k].item \in J
  BY <1>5 DEF ListsItems
<1>9. ASSUME NEW j \in 1..(m + n), NEW k \in 1..(m + n), j < k PROVE c[j].item < c[k].item
  <2>1. CASE k \in 1..m
    <3>1. j \in 1..m
      BY <1>5, <1>9, <2>1
    <3> QED
      BY <1>5, <1>9, <2>1, <3>1 DEF ListsItems
  <2>2. CASE k \notin 1..m /\ j \in 1..m
    BY <1>6, <1>7, <1>8, <2>2
  <2>3. CASE k \notin 1..m /\ j \notin 1..m
    <3>1. j - m \in 1..n /\ k - m \in 1..n /\ m + (j - m) = j /\ m + (k - m) = k
      BY <1>6, <2>3
    <3>2. j - m < k - m
      BY <1>5, <1>9
    <3>3. c[j] = b[j - m] /\ c[k] = b[k - m]
      BY <1>5, <3>1
    <3>4. \A x, y \in 1..n : x < y => b[x].item < b[y].item
      BY <1>5 DEF ListsItems
    <3>5. b[j - m].item < b[k - m].item
      BY ONLY <3>1, <3>2, <3>4
    <3> QED
      BY <3>3, <3>5
  <2> QED
    BY <2>1, <2>2, <2>3
<1>10. ASSUME NEW i \in I \cup J PROVE \E k \in 1..(m + n) : c[k].item = i
  <2>1. CASE i \in I
    <3>1. PICK k \in 1..m : a[k].item = i
      BY <1>5, <2>1 DEF ListsItems
    <3>2. k \in 1..(m + n)
      BY <1>5
    <3> QED
      BY <1>5, <3>1, <3>2
  <2>2. CASE i \in J
    <3>1. PICK k \in 1..n : b[k].item = i
      BY <1>5, <2>2 DEF ListsItems
    <3>2. m + k \in 1..(m + n)
      BY <1>5
    <3> QED
      BY <1>5, <3>1, <3>2
  <2> QED
    BY <2>1, <2>2
<1>11. ASSUME NEW k \in 1..(m + n) PROVE c[k].item \in I \cup J
  BY <1>6, <1>7, <1>8
<1>12. ListsItems(c, I \cup J)
  BY <1>5, <1>9, <1>10, <1>11 DEF ListsItems
<1> QED
  BY <1>1, <1>12

(* A caller who follows the cursors has everything up to some place in the *)
(* list, where the next page starts, or the walk may end.                  *)
UpTo(s, p) == {i \in DOMAIN corpus : i <= p /\ (s \in Dropping => corpus[i] # "dropped")}
WalkAt(p) ==
    /\ ListsItems(got, UpTo(source, p))
    /\ walk = "done" => MayEnd(source, p)
    /\ walk \in {"ready", "failed"} => Offset(source, cursor) = p
WalkInv ==
    /\ source \in Sources /\ corpus \in Seq(Items) /\ ask \in Int
    /\ got \in Seq(DocSet) /\ Cursor(cursor)
    /\ source \in LinkedSources => \A k \in DOMAIN got : got[k].url # ""
    /\ source \in Paged => \E p \in Nat : WalkAt(p)

(* The next page's documents come behind what the caller has.              *)
LEMMA PageAdds ==
    ASSUME corpus \in Seq(Items), NEW s, NEW p \in Nat, NEW n \in Nat \ {0}, NEW a, NEW b,
           ListsItems(a, UpTo(s, p)), ListsItems(b, Span(p, n, s))
    PROVE  ListsItems(a \o b, UpTo(s, p + n))
<1>1. DOMAIN corpus \subseteq Nat
  OBVIOUS
<1>2. \A i \in UpTo(s, p), j \in Span(p, n, s) : i < j
  BY <1>1 DEF UpTo, Span
<1>3. UpTo(s, p) \cup Span(p, n, s) = UpTo(s, p + n)
  <2>1. \A i \in DOMAIN corpus : i <= p \/ (p < i /\ i <= p + n) <=> i <= p + n
    BY <1>1
  <2> QED
    BY <2>1 DEF UpTo, Span
<1> QED
  BY <1>2, <1>3, ListsBoth

(* The caller's place does not move while the list and the limit stand.    *)
LEMMA SamePlaces ==
    ASSUME corpus' = corpus, ask' = ask, source' = source, NEW c, cursor' = c
    PROVE  /\ Offset(source, cursor)' = Offset(source, c)
           /\ \A p : MayEnd(source, p)' = MayEnd(source, p) /\ UpTo(source, p)' = UpTo(source, p)
<1>1. Limit(source)' = Limit(source)
  BY DEF Limit, HNLimit, LimitOrDefault, RedditLimit, NaverDisplay, ThreadsLimit, ArxivLimit
<1>2. Offset(source, cursor)' = Offset(source, c)
  BY <1>1 DEF Offset, FirstItem
<1>3. ASSUME NEW p PROVE MayEnd(source, p)' = MayEnd(source, p) /\ UpTo(source, p)' = UpTo(source, p)
  BY DEF MayEnd, LastDropped, Capped, UpTo
<1> QED
  BY <1>2, <1>3

(* Every search keeps the caller's place.                                  *)
LEMMA WalkInvInit == AdaptersInit => WalkInv
<1> SUFFICES ASSUME AdaptersInit PROVE WalkInv
  OBVIOUS
<1>1. source \in Sources /\ corpus \in Seq(Items) /\ ask \in Int /\ got = <<>> /\ cursor = NoCursor
  BY AdaptersAssumption DEF AdaptersInit
<1>2. got \in Seq(DocSet) /\ DOMAIN got = {}
  BY <1>1
<1>3. ListsItems(got, UpTo(source, 0))
  <2>1. DOMAIN corpus \subseteq Nat \ {0}
    BY <1>1
  <2>2. UpTo(source, 0) = {}
    BY <2>1 DEF UpTo
  <2> QED
    BY <1>2, <2>2 DEF ListsItems
<1>4. ASSUME source \in Paged PROVE Offset(source, cursor) = 0
  <2>1. PICK n : n = Limit(source)
    OBVIOUS
  <2>2. n \in Nat /\ 0 * n = 0
    BY <1>1, <2>1, LimitIsPositive
  <2> QED
    BY <1>1, <2>1, <2>2 DEF Offset, FirstItem
<1>5. walk = "ready"
  BY DEF AdaptersInit
<1>6. source \in Paged => WalkAt(0)
  BY <1>3, <1>4, <1>5 DEF WalkAt
<1>7. Cursor(cursor)
  BY <1>1 DEF Cursor
<1> QED
  BY <1>1, <1>2, <1>6, <1>7 DEF WalkInv

(* A page is added where the caller is, and nothing else moves it.         *)
LEMMA WalkInvStep == WalkInv /\ [AdaptersNext]_adapterVars => WalkInv'
<1> SUFFICES ASSUME WalkInv, [AdaptersNext]_adapterVars PROVE WalkInv'
  OBVIOUS
<1>1. /\ source' = source /\ corpus' = corpus /\ ask' = ask
  BY DEF AdaptersNext, SearchRefused, SearchFails, SearchAgain, SearchSucceeds, adapterVars
<1>2. /\ source \in Sources /\ corpus \in Seq(Items) /\ ask \in Int
      /\ got \in Seq(DocSet) /\ Cursor(cursor)
      /\ source \in LinkedSources => \A k \in DOMAIN got : got[k].url # ""
      /\ source \in Paged => \E p \in Nat : WalkAt(p)
  BY DEF WalkInv
<1>3. CASE /\ got' = got /\ cursor' = cursor
           /\ walk' = walk \/ (walk \in {"ready", "failed"} /\ walk' \in {"ready", "failed", "refused"})
  <2>1. ASSUME source \in Paged PROVE \E p \in Nat : WalkAt(p)'
    <3>1. PICK p \in Nat : WalkAt(p)
      BY <1>2, <2>1
    <3>2. /\ Offset(source, cursor)' = Offset(source, cursor)
          /\ MayEnd(source, p)' = MayEnd(source, p) /\ UpTo(source, p)' = UpTo(source, p)
      BY <1>1, <1>3, SamePlaces
    <3>3. ListsItems(got, UpTo(source, p))'
      BY <1>3, <3>1, <3>2 DEF WalkAt, ListsItems
    <3>4. (walk = "done")' => MayEnd(source, p)'
      BY <1>3, <3>1, <3>2 DEF WalkAt
    <3>5. (walk \in {"ready", "failed"})' => (Offset(source, cursor) = p)'
      BY <1>3, <3>1, <3>2 DEF WalkAt
    <3> QED
      BY <3>3, <3>4, <3>5 DEF WalkAt
  <2> QED
    BY <1>1, <1>2, <1>3, <2>1 DEF WalkInv, Cursor
<1>4. CASE SearchSucceeds
  <2>1. PICK b : b = Page(source, cursor).docs
    OBVIOUS
  <2>2. PICK c : c = Page(source, cursor).next
    OBVIOUS
  <2>3. /\ walk = "ready" /\ got' = got \o b /\ cursor' = c
        /\ walk' = IF c = NoCursor THEN "done" ELSE "ready"
    BY <1>4, <2>1, <2>2 DEF SearchSucceeds
  <2>4. /\ b \in Seq(DocSet) /\ Cursor(c)
        /\ source \in LinkedSources => \A k \in DOMAIN b : b[k].url # ""
    <3>1. CASE source \in Paged
      <4>1. PageSound(source, cursor, Page(source, cursor))
        BY <1>2, <3>1, PagedSound
      <4> QED
        BY <2>1, <2>2, <4>1 DEF PageSound, ListsItems, Cursor
    <3>2. CASE source \notin Paged
      <4>1. source \in Sources \ Paged
        BY <1>2, <3>2
      <4> QED
        BY <1>2, <2>1, <2>2, <4>1, OnePage DEF Cursor
    <3> QED
      BY <3>1, <3>2
  <2>5. got' \in Seq(DocSet) /\ (source \in LinkedSources => \A k \in DOMAIN got' : got'[k].url # "")
    <3>1. PICK e : e = got \o b
      OBVIOUS
    <3>2. PICK m : m = Len(got)
      OBVIOUS
    <3>3. PICK n : n = Len(b)
      OBVIOUS
    <3>4. PICK g : g = got
      OBVIOUS
    <3>5. /\ m \in Nat /\ n \in Nat /\ DOMAIN g = 1..m /\ DOMAIN b = 1..n
          /\ e \in Seq(DocSet) /\ DOMAIN e = 1..(m + n)
          /\ \A k \in 1..m : e[k] = g[k]
          /\ \A k \in 1..n : e[m + k] = b[k]
      <4>1. g \in Seq(DocSet) /\ b \in Seq(DocSet) /\ e = g \o b /\ m = Len(g)
        BY <1>2, <2>4, <3>1, <3>2, <3>4
      <4> QED
        BY ONLY <3>3, <4>1
    <3>6. \A k \in 1..(m + n) : k \in 1..m \/ (k - m \in 1..n /\ m + (k - m) = k)
      BY <3>5
    <3>7. ASSUME source \in LinkedSources, NEW k \in 1..(m + n) PROVE e[k].url # ""
      <4>1. CASE k \in 1..m
        BY <1>2, <3>4, <3>5, <3>7, <4>1
      <4>2. CASE k - m \in 1..n /\ m + (k - m) = k
        <5>1. e[k] = b[k - m]
          BY <3>5, <4>2
        <5> QED
          BY <2>4, <3>5, <3>7, <4>2, <5>1
      <4> QED
        BY <3>6, <4>1, <4>2
    <3>8. got' = e
      BY <2>3, <3>1
    <3> QED
      BY <3>5, <3>7, <3>8
  <2>6. ASSUME source \in Paged PROVE \E p \in Nat : WalkAt(p)'
    <3>1. PICK p \in Nat : WalkAt(p)
      BY <1>2, <2>6
    <3>2. PICK n : n = Limit(source)
      OBVIOUS
    <3>3. n \in Nat \ {0}
      BY <1>2, <3>2, LimitIsPositive
    <3>4. PageSound(source, cursor, Page(source, cursor))
      BY <1>2, <2>6, PagedSound
    <3>5. Offset(source, cursor) = p /\ ListsItems(got, UpTo(source, p))
      BY <2>3, <3>1 DEF WalkAt
    <3>6. /\ ListsItems(b, Span(p, n, source))
          /\ c = NoCursor => MayEnd(source, p + n)
          /\ c # NoCursor => Offset(source, c) = p + n
      BY <2>1, <2>2, <3>2, <3>4, <3>5 DEF PageSound
    <3>7. ListsItems(got \o b, UpTo(source, p + n))
      BY <1>2, <3>3, <3>5, <3>6, PageAdds
    <3>8. PICK r : r = p + n
      OBVIOUS
    <3>9. r \in Nat
      BY <3>3, <3>8
    <3>10. /\ Offset(source, cursor)' = Offset(source, c)
           /\ MayEnd(source, r)' = MayEnd(source, r) /\ UpTo(source, r)' = UpTo(source, r)
      BY <1>1, <2>3, SamePlaces
    <3>11. ListsItems(got, UpTo(source, r))'
      BY <2>3, <3>7, <3>8, <3>10 DEF ListsItems
    <3>12. (walk = "done")' => MayEnd(source, r)'
      BY <2>3, <3>6, <3>8, <3>10
    <3>13. (walk \in {"ready", "failed"})' => (Offset(source, cursor) = r)'
      BY <2>3, <3>6, <3>8, <3>10
    <3>14. WalkAt(r)'
      BY <3>11, <3>12, <3>13 DEF WalkAt
    <3> QED
      BY <3>9, <3>14
  <2>7. Cursor(cursor)'
    BY <2>3, <2>4 DEF Cursor
  <2> QED
    BY <1>1, <1>2, <2>5, <2>6, <2>7 DEF WalkInv
<1> QED
  <2>1. CASE SearchRefused
    BY <1>3, <2>1 DEF SearchRefused
  <2>2. CASE SearchFails
    BY <1>3, <2>2 DEF SearchFails
  <2>3. CASE SearchAgain
    BY <1>3, <2>3 DEF SearchAgain
  <2>4. CASE UNCHANGED adapterVars
    BY <1>3, <2>4 DEF adapterVars
  <2> QED
    BY <1>4, <2>1, <2>2, <2>3, <2>4 DEF AdaptersNext

(* Such a caller has each item once, up to where the walk may end.         *)
LEMMA WalkInvSound == WalkInv => PagesSound
<1> SUFFICES ASSUME WalkInv PROVE PagesSound
  OBVIOUS
<1>1. /\ source \in Sources /\ corpus \in Seq(Items) /\ got \in Seq(DocSet)
      /\ source \in LinkedSources => \A k \in DOMAIN got : got[k].url # ""
      /\ source \in Paged => \E p \in Nat : WalkAt(p)
  BY DEF WalkInv
<1>2. LinkedWherePossible
  BY <1>1 DEF LinkedWherePossible, LinkedSources
<1>3. ASSUME source \in Paged PROVE WalkGetsEachOnce
  <2>1. PICK p \in Nat : WalkAt(p)
    BY <1>1, <1>3
  <2>2. PICK g : g = got
    OBVIOUS
  <2>3. PICK l : l = Len(corpus)
    OBVIOUS
  <2>4. PICK n : n = Len(g)
    OBVIOUS
  <2>18. corpus \in Seq(Items) /\ g \in Seq(DocSet)
    BY <1>1, <2>2
  <2>5. l \in Nat /\ n \in Nat /\ DOMAIN corpus = 1..l /\ DOMAIN g = 1..n
    BY ONLY <2>3, <2>4, <2>18
  <2>6. PICK U : U = UpTo(source, p)
    OBVIOUS
  <2>7. /\ \A j, k \in 1..n : j < k => g[j].item < g[k].item
        /\ \A i : i \in U <=> \E k \in 1..n : g[k].item = i
    BY <2>1, <2>2, <2>5, <2>6 DEF WalkAt, ListsItems
  <2>8. \A i : i \in U <=> i \in 1..l /\ i <= p /\ ~(source \in Dropping /\ corpus[i] = "dropped")
    BY <2>5, <2>6 DEF UpTo
  <2>9. PICK m : m = IF g = <<>> THEN 0 ELSE Last(g).item
    OBVIOUS
  <2>10. g = <<>> <=> n = 0
    BY ONLY <2>4, <2>18
  <2>11. ASSUME n # 0 PROVE m = g[n].item /\ m \in U /\ n \in 1..n
    <3>1. n \in 1..n
      BY <2>5, <2>11
    <3> QED
      BY <2>4, <2>7, <2>9, <2>10, <2>11, <3>1 DEF Last
  <2>12. ASSUME n = 0 PROVE m = 0
    BY <2>9, <2>10, <2>12
  <2>13. m \in 0..l /\ m <= p
    BY <2>5, <2>8, <2>11, <2>12
  <2>14. ASSUME NEW i \in U PROVE i <= m /\ i \in 1..m
    <3>1. PICK k \in 1..n : g[k].item = i
      BY <2>7
    <3>2. n # 0 /\ (k = n \/ k < n)
      BY <2>5
    <3>3. g[k].item = g[n].item \/ g[k].item < g[n].item
      BY <2>7, <2>11, <3>2
    <3>4. i = m \/ i < m
      BY <2>11, <3>1, <3>2, <3>3
    <3> QED
      BY <2>5, <2>8, <2>13, <3>4
  <2>15. ASSUME NEW i \in 1..m, ~(source \in Dropping /\ corpus[i] = "dropped") PROVE i \in U
    BY <2>5, <2>8, <2>13, <2>15
  <2>16. {g[i].item : i \in 1..n} = {i \in 1..m : ~(source \in Dropping /\ corpus[i] = "dropped")}
    <3>1. \A i : i \in {g[k].item : k \in 1..n} <=> i \in U
      BY <2>7
    <3> QED
      BY <2>8, <2>14, <2>15, <3>1
  <2>17. ASSUME walk = "done", m # l, ~Capped(source, m) PROVE source \in Dropping /\ corpus[m + 1] = "dropped"
    <3>1. MayEnd(source, p)
      BY <2>1, <2>17 DEF WalkAt
    <3>2. m + 1 \in 1..l /\ m + 1 \notin U
      BY <2>5, <2>13, <2>14, <2>17
    <3>3. CASE m < p
      BY <2>8, <2>13, <3>2, <3>3
    <3>4. CASE m = p
      <4>1. LastDropped(m) /\ source \in Dropping
        BY <2>3, <2>5, <2>13, <2>17, <3>1, <3>4 DEF MayEnd
      <4>2. m \in 1..l /\ corpus[m] = "dropped"
        BY <2>5, <4>1 DEF LastDropped
      <4>3. n # 0
        BY <2>5, <2>12, <4>2
      <4> QED
        BY <2>8, <2>11, <4>1, <4>2, <4>3
    <3> QED
      BY <2>13, <3>3, <3>4
  <2> QED
    BY <2>2, <2>3, <2>5, <2>7, <2>9, <2>16, <2>17 DEF WalkGetsEachOnce
<1>4. WalkGetsEachOnce
  BY <1>3 DEF WalkGetsEachOnce
<1> QED
  BY <1>2, <1>4 DEF PagesSound

-----------------------------------------------------------------------------
(* The Korean news adapter: what the sub-sources found is what their       *)
(* documents' addresses say, from the first feed to the merge.             *)
HasPage(t, key) == \E p \in DOMAIN t : t[p].page = key

NoneFailed == \A f \in Feeds : feedState[f] # "failed"
(* An empty error hides no failure.                                        *)
Unfailed ==
    /\ npc = "knc" /\ firstErr = NoErr => anySuccess \/ NoneFailed
    /\ npc = "daum" /\ firstErr = NoErr => anySuccess \/ (NoneFailed /\ ~nopts.knc)
    /\ npc = "merge" /\ firstErr = NoErr => anySuccess \/ (NoneFailed /\ ~nopts.knc /\ ~nopts.daum)

Begun ==
    /\ npc = "start" => (\A f \in Feeds : feedState[f] = "queued" /\ feedDocs[f] = <<>>) /\ found = {}
    /\ npc \in {"start", "rss"} => allDocs = <<>> /\ anySuccess = FALSE /\ firstErr = NoErr
    /\ npc = "rss" => \A f \in Feeds : feedState[f] # "ok" => feedDocs[f] = <<>>
    /\ npc = "rss" => \A key : key \in found <=> \E f \in Feeds : HasPage(feedDocs[f], key)

Gathered == npc \in {"knc", "daum", "merge"} => \A key : key \in found <=> HasPage(allDocs, key)

Reported ==
    npc = "done" /\ newsAnswer.err = NoErr =>
        /\ newsAnswer.docs = DedupNews(allDocs) /\ \A key : key \in found <=> HasPage(allDocs, key)
        /\ anySuccess \/ (NoneFailed /\ ~nopts.knc /\ ~nopts.daum)

NewsTypes ==
    /\ allDocs \in Seq(NewsItems)
    /\ feedDocs \in [Feeds -> Seq(NewsItems)]
    /\ DOMAIN feedState = Feeds
    /\ npc \in {"start", "rss", "knc", "daum", "merge", "done"}

NewsInv == NewsTypes /\ Begun /\ Unfailed /\ Gathered /\ Reported

(* A sub-source's answer: its documents and their addresses.               *)
LEMMA KeptArticles ==
    ASSUME NEW items \in Contents
    PROVE  FeedItemsToDocs(items) \in Seq(NewsItems) /\ KncArticlesToDocs(items) \in Seq(NewsItems)
<1>1. items \in Seq(NewsItems)
  <2>1. CASE items = <<>>
    BY <2>1
  <2>2. ASSUME NEW d \in NewsItems, items = <<d>> PROVE items \in Seq(NewsItems)
    BY <2>2
  <2> QED
    BY <2>1, <2>2 DEF Contents
<1>2. PICK I : I = {i \in DOMAIN items : items[i].page # "none" /\ items[i].match}
  OBVIOUS
<1>3. PICK J : J = {i \in DOMAIN items : items[i].page # "none"}
  OBVIOUS
<1>4. I \subseteq DOMAIN items /\ J \subseteq DOMAIN items
  BY <1>2, <1>3
<1>5. KeepAt(items, I) \in Seq(NewsItems) /\ KeepAt(items, J) \in Seq(NewsItems)
  BY <1>1, <1>4, KeepAtIs
<1> QED
  BY <1>2, <1>3, <1>5 DEF FeedItemsToDocs, KncArticlesToDocs

(* The addresses of a sequence of documents.                               *)
LEMMA KeysAre ==
    ASSUME NEW t
    PROVE  \A key : key \in {CanonicalKey(d) : d \in Range(t)} <=> HasPage(t, key)
BY DEF Range, CanonicalKey, HasPage

(* Two sequences of documents have the addresses of both.                  *)
LEMMA BothPages ==
    ASSUME NEW s \in Seq(NewsItems), NEW t \in Seq(NewsItems)
    PROVE  \A key : HasPage(s \o t, key) <=> HasPage(s, key) \/ HasPage(t, key)
<1> TAKE key
<1>1. PICK u : u = s \o t
  OBVIOUS
<1>2. /\ DOMAIN s \subseteq DOMAIN u /\ \A i \in DOMAIN s : u[i] = s[i]
      /\ \A i \in DOMAIN u \ DOMAIN s : i - Len(s) \in DOMAIN t /\ u[i] = t[i - Len(s)]
      /\ \A i \in DOMAIN t : Len(s) + i \in DOMAIN u /\ u[Len(s) + i] = t[i]
  BY <1>1, Concatenated
<1>3. HasPage(u, key) => HasPage(s, key) \/ HasPage(t, key)
  BY <1>2 DEF HasPage
<1>4. HasPage(s, key) \/ HasPage(t, key) => HasPage(u, key)
  BY <1>2 DEF HasPage
<1> QED
  BY <1>1, <1>3, <1>4

(* The feeds' documents, joined, have the addresses of each.               *)
LEMMA JoinedPages ==
    ASSUME NewsTypes
    PROVE  LET all == FlattenSeq([f \in Feeds |-> feedDocs[f]]) IN
           /\ all \in Seq(NewsItems)
           /\ \A key : HasPage(all, key) <=> \E f \in Feeds : HasPage(feedDocs[f], key)
<1>1. PICK n : n = Cardinality(Feeds)
  OBVIOUS
<1>2. n \in Nat /\ Feeds = 1..n /\ Feeds # {}
  BY <1>1, FS_CardinalityType, KoreaNewsAssumption
<1>3. PICK s : s = [f \in Feeds |-> feedDocs[f]]
  OBVIOUS
<1>4. DOMAIN s = Feeds /\ \A f \in Feeds : s[f] = feedDocs[f] /\ s[f] \in Seq(NewsItems)
  BY <1>3 DEF NewsTypes
<1>5. ASSUME NEW V, \A f \in Feeds : s[f] \in Seq(V)
      PROVE  s \in Seq(Seq(V)) /\ s # <<>> /\ FlattenSeq(s) \in Seq(V)
  <2>1. PICK W : W = Seq(V)
    OBVIOUS
  <2>2. s \in [1..n -> W]
    BY <1>2, <1>3, <1>4, <1>5, <2>1
  <2>3. s \in Seq(W) /\ Len(s) = n /\ n # 0
    BY <1>2, <2>2
  <2>4. s \in Seq(Seq(V)) /\ s # <<>>
    BY <2>1, <2>3
  <2> QED
    BY <2>4, Flattened
<1>6. PICK all : all = FlattenSeq(s)
  OBVIOUS
<1>7. s \in Seq(Seq(NewsItems)) /\ s # <<>> /\ all \in Seq(NewsItems)
  BY <1>4, <1>5, <1>6
<1>8. ASSUME NEW key, NEW f \in Feeds, HasPage(feedDocs[f], key) PROVE HasPage(all, key)
  <2>1. PICK p \in DOMAIN s[f] : s[f][p].page = key
    BY <1>4, <1>8 DEF HasPage
  <2>2. PICK x : x = s[f][p]
    OBVIOUS
  <2>3. HasItem(s[f], x)
    BY <2>2 DEF HasItem
  <2>4. HasItem(all, x)
    BY <1>4, <1>6, <1>7, <2>3, Flattened
  <2> QED
    BY <2>1, <2>2, <2>4 DEF HasItem, HasPage
<1>9. ASSUME NEW key, HasPage(all, key) PROVE \E f \in Feeds : HasPage(feedDocs[f], key)
  <2> DEFINE V == {d \in NewsItems : \E f \in Feeds : HasPage(feedDocs[f], d.page)}
  <2>1. \A f \in Feeds : s[f] \in Seq(V)
    <3> TAKE f \in Feeds
    <3>1. PICK t : t = s[f]
      OBVIOUS
    <3>2. t \in Seq(NewsItems) /\ t = feedDocs[f]
      BY <1>4, <3>1
    <3>3. \A p \in 1..Len(t) : t[p] \in NewsItems /\ p \in DOMAIN t
      BY <3>2
    <3>4. \A p \in 1..Len(t) : t[p] \in V
      BY <3>2, <3>3 DEF HasPage
    <3>5. Len(t) \in Nat /\ t = [p \in 1..Len(t) |-> t[p]]
      BY <3>2
    <3> HIDE DEF V
    <3>6. t \in [1..Len(t) -> V]
      BY <3>4, <3>5
    <3>7. t \in Seq(V)
      BY <3>5, <3>6
    <3> QED
      BY <3>1, <3>7
  <2>2. all \in Seq(V)
    <3> HIDE DEF V
    <3> QED
      BY <1>5, <1>6, <2>1
  <2>3. PICK p \in DOMAIN all : all[p].page = key
    BY <1>9 DEF HasPage
  <2>4. all[p] \in V
    <3> HIDE DEF V
    <3> QED
      BY <2>2, <2>3
  <2> QED
    BY <2>3, <2>4
<1> QED
  BY <1>3, <1>6, <1>7, <1>8, <1>9

(* dedupDocs keeps one document of each address.                           *)
LEMMA DedupWhole ==
    ASSUME NEW docs \in Seq(NewsItems), NEW keys, \A key : key \in keys <=> HasPage(docs, key)
    PROVE  /\ {CanonicalKey(d) : d \in DedupNews(docs)} = keys
           /\ Cardinality(DedupNews(docs)) = Cardinality(keys)
<1> DEFINE P == {d.page : d \in NewsItems}
<1>1. PICK k : k = [i \in DOMAIN docs |-> docs[i].page]
  OBVIOUS
<1>2. PICK n : n = Len(docs)
  OBVIOUS
<1>3. n \in Nat /\ DOMAIN docs = 1..n /\ DOMAIN k = 1..n /\ \A i \in 1..n : docs[i] \in NewsItems /\ k[i] = docs[i].page
  BY <1>1, <1>2
<1>4. k \in Seq(P)
  <2>1. \A i \in 1..n : k[i] \in P
    BY <1>3
  <2> HIDE DEF P
  <2>2. k \in [1..n -> P]
    BY <1>1, <1>3, <2>1
  <2> QED
    BY <1>3, <2>2
<1> HIDE DEF P
<1>5. PICK I : I = FirstPlaces(k)
  OBVIOUS
<1>6. /\ I \subseteq 1..n /\ \A i \in 1..n : \E j \in I : k[j] = k[i]
      /\ \A i, j \in I : k[i] = k[j] => i = j
  BY <1>3, <1>4, <1>5, FirstPlacesAre
<1>7. I = {j \in DOMAIN docs : \A i \in 1..(j - 1) : CanonicalKey(docs[i]) # CanonicalKey(docs[j])}
  <2>1. \A j \in 1..n : \A i \in 1..j - 1 : i \in 1..n /\ k[i] = docs[i].page
    BY <1>3
  <2> QED
    BY <1>3, <1>5, <2>1 DEF FirstPlaces, CanonicalKey
<1>8. PICK D : D = {docs[i] : i \in I}
  OBVIOUS
<1>9. DedupNews(docs) = D
  BY <1>7, <1>8 DEF DedupNews
<1>10. {CanonicalKey(d) : d \in D} = keys
  <2>1. \A key : key \in keys <=> \E i \in 1..n : k[i] = key
    BY <1>3 DEF HasPage
  <2>2. \A key : key \in keys <=> \E i \in I : k[i] = key
    BY <1>6, <2>1
  <2>3. \A i \in I : k[i] = docs[i].page
    BY <1>3, <1>6
  <2> QED
    BY <1>8, <2>2, <2>3 DEF CanonicalKey
<1>11. IsFiniteSet(I)
  BY <1>3, <1>6, FirstNumbers, FS_Subset
<1>12. Cardinality(D) = Cardinality(I)
  <2> DEFINE g == [i \in I |-> docs[i]]
  <2>1. \A i, j \in I : docs[i] = docs[j] => i = j
    <3>1. ASSUME NEW i \in I, NEW j \in I, docs[i] = docs[j] PROVE i = j
      <4>1. k[i] = docs[i].page /\ k[j] = docs[j].page
        BY <1>3, <1>6
      <4>2. k[i] = k[j]
        BY <3>1, <4>1
      <4> QED
        BY ONLY <1>6, <4>2, i \in I, j \in I
    <3> QED
      BY <3>1
  <2>2. g \in Bijection(I, D)
    BY <1>8, <2>1 DEF Bijection, Injection, Surjection, IsInjective
  <2> QED
    BY <1>11, <2>2, FS_Bijection DEF ExistsBijection
<1>13. Cardinality(keys) = Cardinality(I)
  <2> DEFINE g == [i \in I |-> k[i]]
  <2>1. \A key : key \in keys <=> \E i \in I : k[i] = key
    <3>1. \A key : key \in keys <=> \E i \in 1..n : k[i] = key
      BY <1>3 DEF HasPage
    <3> QED
      BY <1>6, <3>1
  <2>2. g \in Bijection(I, keys)
    BY <1>6, <2>1 DEF Bijection, Injection, Surjection, IsInjective
  <2> QED
    BY <1>11, <2>2, FS_Bijection DEF ExistsBijection
<1> QED
  BY <1>9, <1>10, <1>12, <1>13

(* Nothing is found yet.                                                   *)
LEMMA NewsInitInv == NewsInit => NewsInv
<1> SUFFICES ASSUME NewsInit PROVE NewsInv
  OBVIOUS
<1> USE DEF NewsInit
<1>1. NewsTypes
  BY DEF NewsTypes
<1>2. Begun /\ Unfailed /\ Gathered /\ Reported
  BY DEF Begun, Unfailed, Gathered, Reported
<1> QED
  BY <1>1, <1>2 DEF NewsInv

(* A feed's answer.                                                        *)
LEMMA FeedAnswered ==
    ASSUME NewsInv, NEW f \in Feeds, FeedAnswers(f) PROVE NewsInv'
<1>1. PICK items \in Contents :
         /\ feedDocs' = [feedDocs EXCEPT ![f] = FeedItemsToDocs(items)]
         /\ found' = found \cup {CanonicalKey(d) : d \in Range(FeedItemsToDocs(items))}
  BY DEF FeedAnswers
<1>2. PICK t : t = FeedItemsToDocs(items)
  OBVIOUS
<1>3. PICK keys : keys = {CanonicalKey(d) : d \in Range(t)}
  OBVIOUS
<1>4. t \in Seq(NewsItems) /\ \A key : key \in keys <=> HasPage(t, key)
  BY <1>2, <1>3, KeptArticles, KeysAre
<1>5. feedDocs' = [feedDocs EXCEPT ![f] = t] /\ found' = found \cup keys
  BY <1>1, <1>2, <1>3
<1>6. /\ npc = "rss" /\ feedState[f] = "fetching" /\ feedState' = [feedState EXCEPT ![f] = "ok"]
      /\ UNCHANGED <<nopts, nctx, npc, allDocs, firstErr, anySuccess, newsAnswer>>
  BY DEF FeedAnswers
<1>7. NewsTypes'
  BY <1>4, <1>5, <1>6 DEF NewsInv, NewsTypes
<1>8. npc' = "rss" /\ allDocs' = <<>> /\ anySuccess' = FALSE /\ firstErr' = NoErr
  BY <1>6 DEF NewsInv, Begun
<1>9. \A key : key \in found' <=> \E g \in Feeds : HasPage(feedDocs'[g], key)
  <2> TAKE key
  <2>1. key \in found <=> \E g \in Feeds : HasPage(feedDocs[g], key)
    BY <1>6 DEF NewsInv, Begun
  <2>2. feedDocs[f] = <<>>
    BY <1>6 DEF NewsInv, Begun
  <2>3. ~HasPage(feedDocs[f], key)
    BY <2>2 DEF HasPage
  <2>4. \A g \in Feeds : feedDocs'[g] = IF g = f THEN t ELSE feedDocs[g]
    BY <1>5 DEF NewsInv, NewsTypes
  <2> QED
    BY <1>4, <1>5, <2>1, <2>3, <2>4
<1>10. \A g \in Feeds : feedState'[g] # "ok" => feedDocs'[g] = <<>>
  BY <1>5, <1>6 DEF NewsInv, NewsTypes, Begun
<1>11. Begun'
  BY <1>8, <1>9, <1>10 DEF Begun, HasPage
<1> QED
  BY <1>7, <1>8, <1>11 DEF NewsInv, Unfailed, Gathered, Reported

(* The feeds joined.                                                       *)
LEMMA FeedsJoined ==
    ASSUME NewsInv, JoinFeeds PROVE NewsInv'
<1>1. PICK all : all = FlattenSeq([f \in Feeds |-> feedDocs[f]])
  OBVIOUS
<1>2. all \in Seq(NewsItems) /\ \A key : HasPage(all, key) <=> \E f \in Feeds : HasPage(feedDocs[f], key)
  BY <1>1, JoinedPages DEF NewsInv
<1>3. /\ npc = "rss" /\ npc' = "knc" /\ allDocs' = all /\ anySuccess' = (all # <<>>)
      /\ firstErr' = FirstError(IF all = <<>> /\ \E f \in Feeds : feedState[f] = "failed"
                                THEN "transient" ELSE NoErr)
      /\ UNCHANGED <<nopts, nctx, feedState, feedDocs, found, newsAnswer>>
  BY <1>1 DEF JoinFeeds
<1>4. NewsTypes'
  BY <1>2, <1>3 DEF NewsInv, NewsTypes
<1>5. \A key : key \in found' <=> HasPage(allDocs', key)
  BY <1>2, <1>3 DEF NewsInv, Begun
<1>6. firstErr = NoErr
  BY <1>3 DEF NewsInv, Begun
<1>7. firstErr' = NoErr => anySuccess' \/ NoneFailed'
  <2>1. "transient" # NoErr
    BY DEF NoErr
  <2> QED
    BY <1>3, <1>6, <2>1 DEF FirstError, NoneFailed
<1>8. Gathered'
  BY <1>5 DEF Gathered, HasPage
<1>9. Begun' /\ Unfailed' /\ Reported'
  BY <1>3, <1>7 DEF Begun, Unfailed, Reported
<1> QED
  BY <1>4, <1>8, <1>9 DEF NewsInv

(* The sidecar asked.                                                      *)
LEMMA SidecarAsked ==
    ASSUME NewsInv, AskKNC PROVE NewsInv'
<1> USE DEF NewsInv
<1>1. npc = "knc" /\ npc' = "daum" /\ UNCHANGED <<nopts, nctx, feedState, feedDocs, newsAnswer>>
  BY DEF AskKNC
<1>2. CASE ~nopts.knc /\ UNCHANGED <<allDocs, firstErr, anySuccess, found>>
  <2>1. NewsTypes' /\ Begun' /\ Reported'
    BY <1>1, <1>2 DEF NewsTypes, Begun, Reported
  <2>2. Gathered'
    BY <1>1, <1>2 DEF Gathered, HasPage
  <2>3. Unfailed'
    BY <1>1, <1>2 DEF Unfailed, NoneFailed
  <2> QED
    BY <2>1, <2>2, <2>3
<1>3. ASSUME NEW items \in Contents, allDocs' = allDocs \o KncArticlesToDocs(items),
             found' = found \cup {CanonicalKey(d) : d \in Range(KncArticlesToDocs(items))},
             anySuccess' = TRUE, UNCHANGED firstErr
      PROVE  NewsInv'
  <2>1. PICK t : t = KncArticlesToDocs(items)
    OBVIOUS
  <2>2. t \in Seq(NewsItems) /\ \A key : key \in {CanonicalKey(d) : d \in Range(t)} <=> HasPage(t, key)
    BY <2>1, KeptArticles, KeysAre
  <2>3. PICK s : s = allDocs
    OBVIOUS
  <2>4. s \in Seq(NewsItems) /\ \A key : HasPage(s \o t, key) <=> HasPage(s, key) \/ HasPage(t, key)
    BY <2>2, <2>3, BothPages DEF NewsTypes
  <2>5. allDocs' = s \o t /\ s \o t \in Seq(NewsItems)
    BY <1>3, <2>1, <2>2, <2>3, <2>4
  <2>6. NewsTypes'
    BY <1>1, <2>5 DEF NewsTypes
  <2>7. \A key : key \in found' <=> HasPage(s \o t, key)
    <3>1. \A key : key \in found <=> HasPage(s, key)
      BY <1>1, <2>3 DEF Gathered
    <3> QED
      BY <1>3, <2>1, <2>2, <2>4, <3>1
  <2>8. Gathered'
    BY <2>5, <2>7 DEF Gathered, HasPage
  <2>9. Begun' /\ Unfailed' /\ Reported'
    BY <1>1, <1>3 DEF Begun, Unfailed, Reported
  <2> QED
    BY <2>6, <2>8, <2>9
<1>4. ASSUME NEW e \in {"unavailable", "transient"}, firstErr' = FirstError(e),
             UNCHANGED <<allDocs, anySuccess, found>>
      PROVE  NewsInv'
  <2>1. firstErr' # NoErr
    BY <1>4 DEF FirstError, NoErr
  <2>2. NewsTypes' /\ Begun' /\ Unfailed' /\ Reported'
    BY <1>1, <1>4, <2>1 DEF NewsTypes, Begun, Unfailed, Reported
  <2>3. Gathered'
    BY <1>1, <1>4 DEF Gathered, HasPage
  <2> QED
    BY <2>2, <2>3
<1> QED
  BY <1>2, <1>3, <1>4 DEF AskKNC

(* The merge.                                                              *)
LEMMA NewsFinished ==
    ASSUME NewsInv, FinishNews PROVE NewsInv'
<1> USE DEF NewsInv
<1>1. /\ npc = "merge" /\ npc' = "done"
      /\ UNCHANGED <<nopts, nctx, feedState, feedDocs, allDocs, firstErr, anySuccess, found>>
  BY DEF FinishNews, Answered
<1>2. newsAnswer'.err = NoErr => /\ newsAnswer'.docs = DedupNews(allDocs)
                                 /\ anySuccess \/ firstErr = NoErr
  BY DEF FinishNews, Answered, NoErr
<1>3. NewsTypes' /\ Begun' /\ Unfailed' /\ Gathered'
  BY <1>1 DEF NewsTypes, Begun, Unfailed, Gathered
<1>4. \A key : key \in found' <=> HasPage(allDocs', key)
  BY <1>1 DEF Gathered, HasPage
<1>5. DedupNews(allDocs)' = DedupNews(allDocs)
  BY <1>1 DEF DedupNews
<1>6. firstErr = NoErr => anySuccess \/ (NoneFailed /\ ~nopts.knc /\ ~nopts.daum)
  BY <1>1 DEF Unfailed
<1>7. Reported'
  BY <1>1, <1>2, <1>4, <1>5, <1>6 DEF Reported, NoneFailed
<1> QED
  BY <1>3, <1>7

(* Every step keeps what is known of the search.                           *)
LEMMA NewsStep == NewsInv /\ [NewsNext]_newsVars => NewsInv'
<1> SUFFICES ASSUME NewsInv, [NewsNext]_newsVars PROVE NewsInv'
  OBVIOUS
<1> USE DEF NewsInv
<1>a. ASSUME UNCHANGED <<nopts, npc, feedState, feedDocs, allDocs, firstErr, anySuccess, found, newsAnswer>>
      PROVE  NewsInv'
  <2>1. NewsTypes' /\ Unfailed'
    BY <1>a DEF NewsTypes, Unfailed, NoneFailed
  <2>2. Begun' /\ Gathered'
    BY <1>a DEF Begun, Gathered, HasPage
  <2>3. DedupNews(allDocs)' = DedupNews(allDocs)
    BY <1>a DEF DedupNews
  <2>4. Reported'
    BY <1>a, <2>3 DEF Reported, NoneFailed, HasPage
  <2> QED
    BY <2>1, <2>2, <2>4
<1>1. CASE CallerGivesUp
  BY <1>1, <1>a DEF CallerGivesUp
<1>2. CASE RefuseNews
  <2>1. npc = "start" /\ npc' = "done" /\ newsAnswer'.err # NoErr
        /\ UNCHANGED <<nopts, feedState, feedDocs, allDocs, firstErr, anySuccess, found>>
    BY <1>2 DEF RefuseNews, Answered, NoErr
  <2> QED
    BY <2>1 DEF NewsTypes, Begun, Unfailed, Gathered, Reported
<1>3. CASE EnterRSS
  <2>1. /\ npc = "start" /\ npc' \in {"rss", "knc"}
        /\ UNCHANGED <<nopts, feedState, feedDocs, allDocs, firstErr, anySuccess, found, newsAnswer>>
    BY <1>3 DEF EnterRSS
  <2>2. (\A f \in Feeds : feedState[f] = "queued" /\ feedDocs[f] = <<>>) /\ found = {} /\ allDocs = <<>>
        /\ anySuccess = FALSE /\ firstErr = NoErr
    BY <2>1 DEF Begun
  <2>3. \A key : ~HasPage(<<>>, key)
    BY DEF HasPage
  <2>4. NewsTypes' /\ Reported'
    BY <2>1 DEF NewsTypes, Reported
  <2>5. Begun'
    BY <2>1, <2>2, <2>3 DEF Begun, HasPage
  <2>6. Gathered'
    BY <2>1, <2>2, <2>3 DEF Gathered, HasPage
  <2>7. Unfailed'
    BY <2>1, <2>2 DEF Unfailed, NoneFailed
  <2> QED
    BY <2>4, <2>5, <2>6, <2>7
<1>4. ASSUME NEW f \in Feeds, FetchFeed(f) \/ FeedFails(f) PROVE NewsInv'
  <2>1. /\ npc = "rss" /\ DOMAIN feedState' = Feeds
        /\ UNCHANGED <<nopts, npc, feedDocs, allDocs, firstErr, anySuccess, found, newsAnswer>>
    BY <1>4 DEF FetchFeed, FeedFails, NewsTypes
  <2>2. NewsTypes' /\ Unfailed' /\ Gathered' /\ Reported'
    BY <2>1 DEF NewsTypes, Unfailed, Gathered, Reported
  <2>3. \A g \in Feeds : feedState'[g] # "ok" => feedState[g] # "ok"
    BY <1>4 DEF FetchFeed, FeedFails, NewsTypes
  <2>4. Begun'
    BY <2>1, <2>3 DEF Begun, HasPage
  <2> QED
    BY <2>2, <2>4
<1>5. CASE \E f \in Feeds : FeedAnswers(f)
  BY <1>5, FeedAnswered
<1>6. CASE JoinFeeds
  BY <1>6, FeedsJoined
<1>7. CASE AskKNC
  BY <1>7, SidecarAsked
<1>8. CASE AskDaum
  <2>1. /\ npc = "daum" /\ npc' = "merge"
        /\ firstErr' = (IF nopts.daum THEN FirstError("permanent") ELSE firstErr)
        /\ UNCHANGED <<nopts, feedState, feedDocs, allDocs, anySuccess, found, newsAnswer>>
    BY <1>8 DEF AskDaum
  <2>2. firstErr' = NoErr => firstErr = NoErr /\ ~nopts.daum
    BY <2>1 DEF FirstError, NoErr
  <2>3. NewsTypes' /\ Begun' /\ Reported'
    BY <2>1 DEF NewsTypes, Begun, Reported
  <2>4. Gathered'
    BY <2>1 DEF Gathered, HasPage
  <2>5. Unfailed'
    BY <2>1, <2>2 DEF Unfailed, NoneFailed
  <2> QED
    BY <2>3, <2>4, <2>5
<1>9. CASE FinishNews
  BY <1>9, NewsFinished
<1>10. CASE UNCHANGED newsVars
  BY <1>10, <1>a DEF newsVars
<1> QED
  BY <1>1, <1>2, <1>3, <1>4, <1>5, <1>6, <1>7, <1>8, <1>9, <1>10 DEF NewsNext

(* What is known of the search at its end.                                 *)
LEMMA NewsInvWhole == NewsInv => NewsWhole
<1> SUFFICES ASSUME NewsInv, npc = "done", newsAnswer.err = NoErr
             PROVE  /\ {CanonicalKey(d) : d \in newsAnswer.docs} = found
                    /\ Cardinality(newsAnswer.docs) = Cardinality(found)
                    /\ anySuccess \/ (NoneFailed /\ ~nopts.knc /\ ~nopts.daum)
  BY DEF NewsWhole, NoneFailed
<1>1. /\ newsAnswer.docs = DedupNews(allDocs) /\ \A key : key \in found <=> HasPage(allDocs, key)
      /\ anySuccess \/ (NoneFailed /\ ~nopts.knc /\ ~nopts.daum)
  BY DEF NewsInv, Reported
<1>2. allDocs \in Seq(NewsItems)
  BY DEF NewsInv, NewsTypes
<1>3. PICK t : t = allDocs
  OBVIOUS
<1>4. PICK keys : keys = found
  OBVIOUS
<1>5. t \in Seq(NewsItems) /\ \A key : key \in keys <=> HasPage(t, key)
  BY <1>1, <1>2, <1>3, <1>4
<1>6. {CanonicalKey(d) : d \in DedupNews(t)} = keys /\ Cardinality(DedupNews(t)) = Cardinality(keys)
  BY <1>5, DedupWhole
<1> QED
  BY <1>1, <1>3, <1>4, <1>6

-----------------------------------------------------------------------------
(* Every step of the sources is a step of the adapters' searches or leaves *)
(* them alone, and the same of the Korean news.                            *)
LEMMA SearchesStep ==
    /\ SourcesInit => AdaptersInit /\ NewsInit
    /\ [SourcesNext]_sourcesVars => [AdaptersNext]_adapterVars /\ [NewsNext]_newsVars
<1>1. SourcesInit => AdaptersInit /\ NewsInit
  BY DEF SourcesInit
<1>2. ASSUME SourcesNext PROVE [AdaptersNext]_adapterVars /\ [NewsNext]_newsVars
  BY <1>2 DEF SourcesNext
<1>3. ASSUME UNCHANGED sourcesVars PROVE UNCHANGED adapterVars /\ UNCHANGED newsVars
  BY <1>3 DEF sourcesVars
<1> QED
  BY <1>1, <1>2, <1>3

(* The adapters' searches (Search of each adapter, and of koreanews): for  *)
(* any lists and page sizes a caller who follows next_cursor gets each     *)
(* item once and linked where it can be; for any response the error's      *)
(* category says whose fault it was; and for any feeds a Korean-news       *)
(* answer without an error has all that the sub-sources found.             *)
THEOREM SearchesSound == SourcesSpec => []AdaptersSound
<1>1. SourcesInit => WalkInv /\ ErrorInv /\ NewsInv
  BY SearchesStep, WalkInvInit, ErrorInvInit, NewsInitInv
<1>2. WalkInv /\ ErrorInv /\ NewsInv /\ [SourcesNext]_sourcesVars => (WalkInv /\ ErrorInv /\ NewsInv)'
  BY SearchesStep, WalkInvStep, ErrorStep, NewsStep
<1>3. WalkInv /\ ErrorInv /\ NewsInv => AdaptersSound
  BY WalkInvSound, ErrorInvTells, NewsInvWhole DEF AdaptersSound
<1> QED
  BY <1>1, <1>2, <1>3, PTL DEF SourcesSpec

-----------------------------------------------------------------------------
(* An adapter without a cursor lists what the service has.                 *)
LEMMA OnePageItems ==
    ASSUME corpus \in Seq(Items), ask \in Int, NEW s \in Sources \ Paged, NEW c
    PROVE  \A k \in DOMAIN Page(s, c).docs : Page(s, c).docs[k].item \in DOMAIN corpus
<1>1. s \in {"reddit-rss", "naver datalab", "threads", "facebook"}
  BY DEF Paged
<1>2. PICK l : l = Len(corpus)
  OBVIOUS
<1>3. PICK zero : zero = 0
  OBVIOUS
<1>4. l \in Nat /\ zero \in Nat /\ DOMAIN corpus = 1..l
  BY <1>2, <1>3
<1>5. ASSUME NEW n \in Nat, NEW w, w = Window(zero, n)
      PROVE  w \in Seq(Nat) /\ \A k \in DOMAIN w : w[k] = k /\ k \in DOMAIN corpus
  <2>1. WindowOf(w, zero, n)
    BY <1>4, <1>5, WindowIs
  <2> QED
    BY <1>2, <1>3, <1>4, <2>1 DEF WindowOf
<1>6. CASE s = "reddit-rss"
  <2>1. PICK w : w = Window(zero, l)
    OBVIOUS
  <2>2. PICK I : I = {i \in DOMAIN corpus : corpus[i] = "linked"}
    OBVIOUS
  <2>3. w \in Seq(Nat) /\ \A k \in DOMAIN w : w[k] \in DOMAIN corpus
    BY <1>4, <1>5, <2>1
  <2>4. I \cap DOMAIN w \subseteq DOMAIN w /\ I \subseteq DOMAIN w
    <3>1. WindowOf(w, zero, l)
      BY <1>4, <2>1, WindowIs
    <3> QED
      BY <1>2, <1>3, <1>4, <2>2, <3>1 DEF WindowOf
  <2>5. PICK t : t = KeepAt(w, I)
    OBVIOUS
  <2>6. \E g : KeptBy(g, t, w, I)
    BY <2>3, <2>4, <2>5, KeepAtIs
  <2>7. PICK g : KeptBy(g, t, w, I)
    BY <2>6
  <2>8. \A k \in DOMAIN t : t[k] \in DOMAIN corpus
    <3>1. \A k \in DOMAIN t : g[k] \in I /\ t[k] = w[g[k]]
      BY <2>7 DEF KeptBy, InOrder
    <3> QED
      BY <2>3, <2>4, <3>1
  <2>9. PICK d : d = Docs(t, LinkOnly)
    OBVIOUS
  <2>10. \A k \in DOMAIN d : d[k].item \in DOMAIN corpus
    BY <2>8, <2>9 DEF Docs, Doc
  <2>11. Page(s, c) = [docs |-> d, next |-> NoCursor]
    BY <1>2, <1>3, <1>6, <2>1, <2>2, <2>5, <2>9 DEF Page, RedditFeed
  <2>12. Page(s, c).docs = d
    BY <2>11
  <2> QED
    BY <2>10, <2>12
<1>7. CASE s = "naver datalab"
  <2>1. PICK w : w = Window(zero, l)
    OBVIOUS
  <2>2. PICK d : d = Docs(w, NaverDatalabUrl)
    OBVIOUS
  <2>3. \A k \in DOMAIN d : d[k].item \in DOMAIN corpus
    BY <1>4, <1>5, <2>1, <2>2 DEF Docs, Doc
  <2>4. Page(s, c) = [docs |-> d, next |-> NoCursor]
    BY <1>2, <1>3, <1>7, <2>1, <2>2 DEF Page, NaverDatalab
  <2>5. Page(s, c).docs = d
    BY <2>4
  <2> QED
    BY <2>3, <2>5
<1>8. CASE s = "threads"
  <2>1. PICK n : n = Limit(s)
    OBVIOUS
  <2>2. n \in Nat
    BY <2>1, LimitIsPositive
  <2>3. PICK w : w = Window(zero, n)
    OBVIOUS
  <2>4. PICK d : d = Docs(w, ThreadsPostUrl)
    OBVIOUS
  <2>5. \A k \in DOMAIN d : d[k].item \in DOMAIN corpus
    BY <1>5, <2>2, <2>3, <2>4 DEF Docs, Doc
  <2>6. Page(s, c) = [docs |-> d, next |-> NoCursor]
    BY <1>3, <1>8, <2>1, <2>3, <2>4 DEF Page, ThreadsPage
  <2>7. Page(s, c).docs = d
    BY <2>6
  <2> QED
    BY <2>5, <2>7
<1>9. CASE s = "facebook"
  <2>1. Page(s, c) = [docs |-> <<>>, next |-> NoCursor]
    BY <1>9 DEF Page
  <2>2. Page(s, c).docs = <<>>
    BY <2>1
  <2> QED
    BY <2>2
<1> QED
  BY <1>1, <1>6, <1>7, <1>8, <1>9

(* Whatever adapter is asked, its page lists items of the service.         *)
LEMMA PageItems ==
    ASSUME WalkInv
    PROVE  \A k \in DOMAIN Page(source, cursor).docs : Page(source, cursor).docs[k].item \in DOMAIN corpus
<1>1. source \in Sources /\ corpus \in Seq(Items) /\ ask \in Int /\ Cursor(cursor)
  BY DEF WalkInv
<1>2. CASE source \in Paged
  <2>1. PageSound(source, cursor, Page(source, cursor))
    BY <1>1, <1>2, PagedSound
  <2>2. PICK d : d = Page(source, cursor).docs
    OBVIOUS
  <2>3. \E o, n : ListsItems(d, Span(o, n, source))
    BY <2>1, <2>2 DEF PageSound
  <2>4. PICK I : I \subseteq DOMAIN corpus /\ ListsItems(d, I)
    <3>1. \A o, n : Span(o, n, source) \subseteq DOMAIN corpus
      BY DEF Span
    <3> QED
      BY <2>3, <3>1
  <2>5. \A k \in DOMAIN d : d[k].item \in I
    BY <2>4 DEF ListsItems
  <2> QED
    BY <2>2, <2>4, <2>5
<1>3. CASE source \notin Paged
  <2>1. source \in Sources \ Paged
    BY <1>1, <1>3
  <2> QED
    BY <1>1, <2>1, OnePageItems
<1> QED
  BY <1>2, <1>3

(* Its documents are documents.                                            *)
LEMMA PageOfDocs ==
    ASSUME WalkInv PROVE Page(source, cursor).docs \in Seq(DocSet)
<1>1. source \in Sources /\ corpus \in Seq(Items) /\ ask \in Int /\ Cursor(cursor)
  BY DEF WalkInv
<1>2. CASE source \in Paged
  BY <1>1, <1>2, PagedSound DEF PageSound, ListsItems
<1>3. CASE source \notin Paged
  <2>1. source \in Sources \ Paged
    BY <1>1, <1>3
  <2> QED
    BY <1>1, <2>1, OnePage
<1> QED
  BY <1>2, <1>3

-----------------------------------------------------------------------------
(* The types of the adapters' searches.                                    *)
Categories == {"none", "rate_limited", "permanent", "transient", "unavailable", "unknown"}
OfCorpus == \A i \in DOMAIN got : got[i].item \in DOMAIN corpus
SearchTyped == WalkInv /\ ErrorInv /\ category \in Categories /\ OfCorpus

(* Every category an adapter makes of a response is one of the six.        *)
LEMMA CategoryTyped ==
    ASSUME NEW s, NEW r \in Responses, NEW e \in SearchError(s, r)
    PROVE  e \in Categories
<1>1. CommonCategory(r) \in Categories
  BY ResponseIs, CommonIs DEF Categories
<1>2. /\ HNCategory(r) \in Categories /\ ArxivCategory(r) \in Categories /\ RedditCategory(r) \in Categories
      /\ SearxngCategory(r) \in Categories /\ RedditRSSCategory(r) \in Categories /\ NaverCategory(r) \in Categories
      /\ BlueskyCategory(r) \in Categories /\ ThreadsCategory(r) \in Categories
      /\ GitHubCategory(r) \in Categories /\ YouTubeCategory(r) \in Categories
  BY <1>1 DEF HNCategory, ArxivCategory, RedditCategory, SearxngCategory, RedditRSSCategory, NaverCategory,
              BlueskyCategory, ThreadsCategory, GitHubCategory, YouTubeCategory, Categories
<1>3. ASSUME NEW k \in Categories, NEW rules, rules.redirect \in Categories, rules.deadline \in Categories,
             \A b \in Bodies : rules[b] \subseteq Categories
      PROVE  ErrorOf(r, k, rules) \subseteq Categories
  <2>1. r.body \in Bodies /\ r.status \in Statuses
    BY DEF Responses
  <2>2. rules[r.body] \subseteq Categories
    BY <1>3, <2>1
  <2>3. r.status = 0 \/ (r.status # 0 /\ r.status # 200) \/ r.status = 200
    OBVIOUS
  <2>4. CASE r.status = 0
    BY <1>3, <2>4 DEF ErrorOf
  <2>5. CASE r.status # 0 /\ r.status # 200
    BY <1>3, <2>5 DEF ErrorOf
  <2>6. CASE r.status = 200
    BY <2>2, <2>6 DEF ErrorOf
  <2> QED
    BY <2>4, <2>5, <2>6
<1>4. /\ HNError(r) \subseteq Categories /\ ArxivError(r) \subseteq Categories /\ RedditError(r) \subseteq Categories
      /\ SearxngError(r) \subseteq Categories
  <2>1. /\ HNError(r) \subseteq Categories /\ ArxivError(r) \subseteq Categories
        /\ SearxngError(r) \subseteq Categories /\ ErrorOf(r, RedditCategory(r), Rules) \subseteq Categories
    BY <1>2, <1>3 DEF HNError, ArxivError, SearxngError, Rules, Bodies, Categories
  <2>2. TokenError(r) \subseteq Categories
    BY DEF TokenError, Categories
  <2> QED
    BY <2>1, <2>2 DEF RedditError
<1>5. RedditRSSError(r) \subseteq Categories
  <2>1. PICK u : u = [Rules EXCEPT !.redirect = "unavailable", !.deadline = "transient",
                              !.unread = {"transient"}, !.malformed = {"transient"}]
    OBVIOUS
  <2>2. /\ u.redirect = "unavailable" /\ u.deadline = "transient" /\ u["good"] = {"none"}
        /\ u["unread"] = {"transient"} /\ u["malformed"] = {"transient"} /\ u["envelope"] = {"none"}
    BY <2>1 DEF Rules
  <2>3. \A b \in Bodies : u[b] \subseteq Categories
    BY <2>2 DEF Bodies, Categories, SidecarCategories
  <2>4. u.redirect \in Categories /\ u.deadline \in Categories
    BY <2>2 DEF Categories
  <2>5. RedditRSSError(r) = ErrorOf(r, RedditRSSCategory(r), u)
    BY <2>1 DEF RedditRSSError
  <2> QED
    BY <1>2, <1>3, <2>3, <2>4, <2>5
<1>6. NaverError(r) \subseteq Categories
  BY <1>2, <1>3 DEF NaverError, Rules, Bodies, Categories
<1>7. BlueskyError(r) \subseteq Categories
  BY <1>2, <1>3 DEF BlueskyError, Rules, Bodies, Categories
<1>8. ThreadsError(r) \subseteq Categories
  BY <1>2, <1>3 DEF ThreadsError, Rules, Bodies, Categories
<1>9. XError(r) \subseteq Categories
  <2>1. PICK u : u = [Rules EXCEPT !.redirect = "unavailable", !.envelope = {"permanent"}]
    OBVIOUS
  <2>2. /\ u.redirect = "unavailable" /\ u.deadline = "unavailable" /\ u["good"] = {"none"}
        /\ u["unread"] = {"unavailable"} /\ u["malformed"] = {"permanent"} /\ u["envelope"] = {"permanent"}
    BY <2>1 DEF Rules
  <2>3. \A b \in Bodies : u[b] \subseteq Categories
    BY <2>2 DEF Bodies, Categories, SidecarCategories
  <2>4. u.redirect \in Categories /\ u.deadline \in Categories
    BY <2>2 DEF Categories
  <2>5. XError(r) = ErrorOf(r, BlueskyCategory(r), u)
    BY <2>1 DEF XError
  <2> QED
    BY <1>2, <1>3, <2>3, <2>4, <2>5
<1>10. GitHubError(r) \subseteq Categories
  <2>1. PICK u : u = [Rules EXCEPT !.redirect = "unavailable", !.unread = {"unavailable", "permanent"}]
    OBVIOUS
  <2>2. /\ u.redirect = "unavailable" /\ u.deadline = "unavailable" /\ u["good"] = {"none"}
        /\ u["unread"] = {"unavailable", "permanent"} /\ u["malformed"] = {"permanent"} /\ u["envelope"] = {"none"}
    BY <2>1 DEF Rules
  <2>3. \A b \in Bodies : u[b] \subseteq Categories
    BY <2>2 DEF Bodies, Categories
  <2>4. u.redirect \in Categories /\ u.deadline \in Categories
    BY <2>2 DEF Categories
  <2>5. ErrorOf(r, GitHubCategory(r), u) \subseteq Categories
    BY <1>2, <1>3, <2>3, <2>4
  <2>6. {"permanent"} \subseteq Categories
    BY DEF Categories
  <2> QED
    BY <2>1, <2>5, <2>6 DEF GitHubError
<1>11. YouTubeError(r) \subseteq Categories
  <2>1. PICK u : u = [Rules EXCEPT !.redirect = "unavailable", !.envelope = SidecarCategories]
    OBVIOUS
  <2>2. /\ u.redirect = "unavailable" /\ u.deadline = "unavailable" /\ u["good"] = {"none"}
        /\ u["unread"] = {"unavailable"} /\ u["malformed"] = {"permanent"} /\ u["envelope"] = SidecarCategories
    BY <2>1 DEF Rules
  <2>3. \A b \in Bodies : u[b] \subseteq Categories
    BY <2>2 DEF Bodies, Categories, SidecarCategories
  <2>4. u.redirect \in Categories /\ u.deadline \in Categories
    BY <2>2 DEF Categories
  <2>5. ErrorOf(r, YouTubeCategory(r), u) \subseteq Categories
    BY <1>2, <1>3, <2>3, <2>4
  <2>6. {"unavailable"} \subseteq Categories
    BY DEF Categories
  <2> QED
    BY <2>1, <2>5, <2>6 DEF YouTubeError
<1>12. SearchError(s, r) \subseteq Categories
  BY <1>4, <1>5, <1>6, <1>7, <1>8, <1>9, <1>10, <1>11 DEF SearchError
<1> QED
  BY <1>12

(* A call only fails with an adapter's category, and a page only adds its  *)
(* own items.                                                              *)
LEMMA SearchTypedStep == SearchTyped /\ [AdaptersNext]_adapterVars => SearchTyped'
<1> SUFFICES ASSUME SearchTyped, [AdaptersNext]_adapterVars PROVE SearchTyped'
  OBVIOUS
<1>1. WalkInv' /\ ErrorInv'
  BY WalkInvStep, ErrorStep DEF SearchTyped
<1>2. category' \in Categories
  <2>1. CASE SearchFails
    <3>1. PICK r \in Responses : \E e \in SearchError(source, r) \ {"none"} : answer' = r /\ category' = e
      BY <2>1 DEF SearchFails
    <3> QED
      BY <3>1, CategoryTyped
  <2>2. CASE ~SearchFails
    BY <2>2 DEF AdaptersNext, SearchRefused, SearchAgain, SearchSucceeds, adapterVars, SearchTyped, Categories
  <2> QED
    BY <2>1, <2>2
<1>3. OfCorpus'
  <2>1. CASE SearchSucceeds
    <3>1. PICK b : b = Page(source, cursor).docs
      OBVIOUS
    <3>2. PICK g : g = got
      OBVIOUS
    <3>3. got' = g \o b /\ corpus' = corpus
      BY <2>1, <3>1, <3>2 DEF SearchSucceeds
    <3>4. \A k \in DOMAIN b : b[k].item \in DOMAIN corpus
      BY <3>1, PageItems DEF SearchTyped
    <3>5. \A k \in DOMAIN g : g[k].item \in DOMAIN corpus
      BY <3>2 DEF SearchTyped, OfCorpus
    <3>6. g \in Seq(DocSet) /\ b \in Seq(DocSet)
      <4>1. g \in Seq(DocSet)
        BY <3>2 DEF SearchTyped, WalkInv
      <4>2. b \in Seq(DocSet)
        BY <3>1, PageOfDocs DEF SearchTyped
      <4> QED
        BY <4>1, <4>2
    <3>7. PICK e : e = g \o b
      OBVIOUS
    <3>8. \A k \in DOMAIN e : \/ k \in DOMAIN g /\ e[k] = g[k]
                             \/ \E i \in DOMAIN b : e[k] = b[i]
      <4>1. PICK m : m = Len(g)
        OBVIOUS
      <4>2. PICK n : n = Len(b)
        OBVIOUS
      <4>3. /\ m \in Nat /\ n \in Nat /\ DOMAIN g = 1..m /\ DOMAIN b = 1..n /\ DOMAIN e = 1..(m + n)
            /\ \A k \in 1..m : e[k] = g[k]
            /\ \A k \in 1..n : e[m + k] = b[k]
        BY <3>6, <3>7, <4>1, <4>2
      <4>4. \A k \in 1..(m + n) : k \in 1..m \/ (k - m \in 1..n /\ m + (k - m) = k)
        BY <4>3
      <4> QED
        BY <4>3, <4>4
    <3>9. \A k \in DOMAIN e : e[k].item \in DOMAIN corpus
      BY <3>4, <3>5, <3>8
    <3> QED
      BY <3>3, <3>7, <3>9 DEF OfCorpus
  <2>2. CASE ~SearchSucceeds
    <3>1. got' = got /\ corpus' = corpus
      BY <2>2 DEF AdaptersNext, SearchRefused, SearchAgain, SearchFails, adapterVars
    <3> QED
      BY <3>1 DEF SearchTyped, OfCorpus
  <2> QED
    BY <2>1, <2>2
<1> QED
  BY <1>1, <1>2, <1>3 DEF SearchTyped

(* The types of a search hold at first.                                    *)
LEMMA SearchTypedInit == AdaptersInit => SearchTyped
  BY WalkInvInit, ErrorInvInit DEF AdaptersInit, SearchTyped, Categories, OfCorpus

(* What is known of the searches has their types.                          *)
LEMMA SearchTypedOK == SearchTyped => AdaptersTypeOK
<1> SUFFICES ASSUME SearchTyped PROVE AdaptersTypeOK
  OBVIOUS
<1>1. cursor \in Int
  <2>1. Cursor(cursor)
    BY DEF SearchTyped, WalkInv
  <2> QED
    BY <2>1 DEF Cursor, NoCursor
<1> QED
  BY <1>1 DEF SearchTyped, ErrorInv, AdaptersTypeOK, Categories, OfCorpus

-----------------------------------------------------------------------------
(* The types of the waits: a feed that may try again has attempts left.    *)
FeedTyped ==
    /\ feedAttempts \in 0..Attempts
    /\ fpc \in {"idle", "cooling"} => feedAttempts < Attempts
WaitsTyped == RedditInv /\ ArxivInv /\ issued <= MaxTokens /\ now \in 0..Horizon /\ FeedTyped
              /\ \A c \in Callers : Len(uses[c]) <= 2

(* There is at least one attempt.                                          *)
LEMMA SomeAttempt == Attempts \in Nat /\ Attempts >= 1
<1>1. PICK one : one = 1
  OBVIOUS
<1>2. one \in Int /\ MaxAttempts \in Int
  BY <1>1, WaitsAssumption
<1>3. Max({one, MaxAttempts}) \in {one, MaxAttempts} /\ Max({one, MaxAttempts}) >= one
  BY ONLY <1>2, MaxOfTwo
<1> QED
  BY <1>1, <1>2, <1>3 DEF Attempts

(* A search uses two tokens at most, a feed as many attempts as it has.    *)
LEMMA WaitsTypedStep == WaitsTyped /\ [WaitsNext]_waitsVars => WaitsTyped'
<1> SUFFICES ASSUME WaitsTyped, [WaitsNext]_waitsVars PROVE WaitsTyped'
  OBVIOUS
<1>1. RedditInv' /\ ArxivInv'
  BY WaitsKept DEF WaitsTyped
<1>2. issued' <= MaxTokens
  <2>1. issued \in Int /\ MaxTokens \in Int
    BY WaitsAssumption DEF WaitsTyped, RedditInv, RedditTypes
  <2>2. CASE issued' = issued
    BY <2>2 DEF WaitsTyped
  <2>3. CASE \E c \in Callers : TokenAcquired(c)
    BY <2>1, <2>3 DEF TokenAcquired
  <2> QED
    BY <2>2, <2>3 DEF WaitsNext, RedditNext, ArxivNext, FeedNext, GetCached, AcquireToken, AcquisitionFails,
                      RedditAnswers, Invalidate, TokenExpires, ServiceDropsToken, WaitsTick, BookSlot, SendRequest,
                      TryFeed, FeedCancelled, waitsVars, redditVars
<1>3. now' \in 0..Horizon
  <2>1. now \in 0..Horizon /\ Horizon \in Nat
    BY WaitsAssumption DEF WaitsTyped
  <2>2. CASE now' = now
    BY <2>1, <2>2
  <2>3. CASE WaitsTick
    BY <2>1, <2>3 DEF WaitsTick
  <2> QED
    BY <2>2, <2>3 DEF WaitsNext, RedditNext, ArxivNext, FeedNext, GetCached, AcquireToken, AcquisitionFails,
                      RedditAnswers, Invalidate, TokenExpires, ServiceDropsToken, BookSlot, SendRequest,
                      TokenAcquired, TryFeed, FeedCancelled, waitsVars
<1>4. FeedTyped'
  <2>1. Attempts' = Attempts /\ Attempts \in Nat /\ Attempts >= 1
    BY SomeAttempt DEF Attempts
  <2>2. CASE TryFeed
    <3>1. feedAttempts \in 0..Attempts /\ feedAttempts < Attempts
      BY <2>2 DEF WaitsTyped, FeedTyped, TryFeed
    <3>2. /\ feedAttempts' = feedAttempts + 1
          /\ fpc' \in {"done", "failed", "limited"} \/ (fpc' = "cooling" /\ feedAttempts' < Attempts)
      BY <2>2 DEF TryFeed
    <3> QED
      BY <2>1, <3>1, <3>2 DEF FeedTyped
  <2>3. CASE FeedCancelled
    BY <2>1, <2>3 DEF WaitsTyped, FeedTyped, FeedCancelled
  <2>4. CASE UNCHANGED feedVars
    BY <2>1, <2>4 DEF WaitsTyped, FeedTyped, feedVars
  <2> QED
    BY <2>2, <2>3, <2>4 DEF WaitsNext, RedditNext, ArxivNext, FeedNext, GetCached, AcquireToken, AcquisitionFails,
                      RedditAnswers, Invalidate, TokenExpires, ServiceDropsToken, WaitsTick, BookSlot, SendRequest,
                      TokenAcquired, waitsVars
<1>5. ASSUME NEW c \in Callers PROVE Len(uses'[c]) <= 2
  <2>1. uses \in [Callers -> Seq(Nat)] /\ rpc \in [Callers -> Places] /\ Len(uses[c]) <= 2
    BY DEF WaitsTyped, RedditInv, RedditTypes
  <2>2. CASE uses' = uses
    BY <2>1, <2>2
  <2>3. ASSUME NEW d \in Callers, NEW t, Take(d, t), rpc[d] \in Getting PROVE Len(uses'[c]) <= 2
    <3>1. Len(uses[d]) <= 1
      <4>1. UsesOK(d) /\ (rpc[d] = "idle" \/ rpc[d] = "again")
        BY <2>3 DEF WaitsTyped, RedditInv, Getting
      <4>2. PICK n : n = Len(uses[d])
        OBVIOUS
      <4>3. n = 0 \/ n = 1
        BY <4>1, <4>2 DEF UsesOK
      <4>4. n <= 1
        BY ONLY <4>3
      <4> QED
        BY <4>2, <4>4
    <3>2. uses' = [uses EXCEPT ![d] = Append(@, t)]
      BY <2>3 DEF Take
    <3>3. CASE c = d
      <4>1. uses'[c] = Append(uses[d], t) /\ uses[d] \in Seq(Nat)
        BY <2>1, <3>2, <3>3
      <4>2. PICK s : s = uses[d]
        OBVIOUS
      <4>3. s \in Seq(Nat) /\ Len(s) <= 1
        BY <3>1, <4>1, <4>2
      <4>4. Len(Append(s, t)) = Len(s) + 1 /\ Len(s) \in Nat
        BY ONLY <4>3
      <4> QED
        BY <4>1, <4>2, <4>3, <4>4
    <3>4. CASE c # d
      BY <2>1, <3>2, <3>4
    <3> QED
      BY <3>3, <3>4
  <2>4. CASE \E d \in Callers : GetCached(d)
    BY <2>3, <2>4 DEF GetCached
  <2>5. CASE \E d \in Callers : TokenAcquired(d)
    <3>1. PICK d \in Callers : TokenAcquired(d)
      BY <2>5
    <3>2. Take(d, issued') /\ holder = d
      BY <3>1 DEF TokenAcquired
    <3>3. rpc[d] \in Getting
      BY <3>2, WaitsAssumption DEF WaitsTyped, RedditInv, HolderOK
    <3> QED
      BY <2>3, <3>2, <3>3
  <2> QED
    BY <2>2, <2>4, <2>5 DEF WaitsNext, RedditNext, ArxivNext, FeedNext, AcquireToken, AcquisitionFails,
                      RedditAnswers, Invalidate, TokenExpires, ServiceDropsToken, WaitsTick, BookSlot, SendRequest,
                      TryFeed, FeedCancelled, waitsVars, redditVars
<1> QED
  BY <1>1, <1>2, <1>3, <1>4, <1>5 DEF WaitsTyped

(* At first no token is used and no attempt made.                          *)
LEMMA WaitsTypedInit == WaitsInit => WaitsTyped
<1> SUFFICES ASSUME WaitsInit PROVE WaitsTyped
  OBVIOUS
<1>1. RedditInv /\ ArxivInv
  BY InitWaits
<1>2. issued = 0 /\ now = 0 /\ feedAttempts = 0 /\ uses = [c \in Callers |-> <<>>]
  BY DEF WaitsInit
<1>3. MaxTokens \in Nat /\ Horizon \in Nat
  BY WaitsAssumption
<1>4. \A c \in Callers : Len(uses[c]) <= 2
  BY <1>2
<1>5. FeedTyped
  BY <1>2, SomeAttempt DEF FeedTyped
<1> QED
  BY <1>1, <1>2, <1>3, <1>4, <1>5 DEF WaitsTyped

(* What is known of the waits has their types.                             *)
LEMMA WaitsTypedOK == WaitsTyped => WaitsTypeOK
<1> SUFFICES ASSUME WaitsTyped PROVE WaitsTypeOK
  OBVIOUS
<1>1. token \in Nat /\ issued \in Nat /\ token <= issued /\ refused \subseteq 1..issued /\ issued <= MaxTokens
      /\ MaxTokens \in Nat
  BY WaitsAssumption DEF WaitsTyped, RedditInv, RedditTypes
<1>2. holder \in Callers \cup {Nobody}
  BY DEF WaitsTyped, RedditInv, HolderOK
<1>3. \A c \in Callers : Len(uses[c]) <= 2 /\ slot[c] \in Int
  BY DEF WaitsTyped, ArxivInv
<1>4. now \in 0..Horizon /\ feedAttempts \in 0..Attempts
  BY DEF WaitsTyped, FeedTyped
<1> QED
  BY <1>1, <1>2, <1>3, <1>4 DEF WaitsTypeOK
(* The types of the Korean news: the pool of feeds bounds what is fetched  *)
(* at once, and an answer has articles and one of four errors.             *)
NewsErrors == {NoErr, "permanent", "transient", "unavailable"}
NewsTyped ==
    /\ NewsInv /\ nctx \in {"live", "deadline", "cancelled"}
    /\ firstErr \in NewsErrors
    /\ Cardinality(Fetching) <= MaxParallelFeeds
    /\ newsAnswer.err \in NewsErrors /\ newsAnswer.docs \subseteq NewsItems

(* One more feed is fetched only while there is room.                      *)
LEMMA FetchingBounded ==
    ASSUME NewsTyped, [NewsNext]_newsVars
    PROVE  Cardinality(Fetching)' <= MaxParallelFeeds
<1>1. DOMAIN feedState = Feeds /\ IsFiniteSet(Feeds) /\ MaxParallelFeeds \in Nat
  BY KoreaNewsAssumption DEF NewsTyped, NewsInv, NewsTypes
<1>2. IsFiniteSet(Fetching) /\ Cardinality(Fetching) \in Nat /\ Cardinality(Fetching) <= MaxParallelFeeds
  <2>1. Fetching \subseteq Feeds
    BY DEF Fetching
  <2> QED
    BY <1>1, <2>1, FS_Subset, FS_CardinalityType DEF NewsTyped
<1>3. CASE feedState' = feedState
  BY <1>2, <1>3 DEF Fetching
<1>4. CASE \E f \in Feeds : FetchFeed(f)
  <2>1. PICK f \in Feeds : FetchFeed(f)
    BY <1>4
  <2>2. /\ feedState[f] = "queued" /\ Cardinality(Fetching) < MaxParallelFeeds
        /\ feedState' = [feedState EXCEPT ![f] = "fetching"]
    BY <2>1 DEF FetchFeed
  <2>3. Fetching' = Fetching \cup {f}
    BY <1>1, <2>2 DEF Fetching
  <2>4. Cardinality(Fetching \cup {f}) = Cardinality(Fetching) + 1
    <3>1. f \notin Fetching
      BY <2>2 DEF Fetching
    <3> QED
      BY <1>2, <3>1, FS_AddElement
  <2> QED
    BY <1>1, <1>2, <2>2, <2>3, <2>4
<1>5. CASE \E f \in Feeds : FeedAnswers(f) \/ FeedFails(f)
  <2>1. PICK f \in Feeds : FeedAnswers(f) \/ FeedFails(f)
    BY <1>5
  <2>2. feedState' = [feedState EXCEPT ![f] = "ok"] \/ feedState' = [feedState EXCEPT ![f] = "failed"]
    BY <2>1 DEF FeedAnswers, FeedFails
  <2>3. Fetching' \subseteq Fetching
    BY <1>1, <2>2 DEF Fetching
  <2>4. Cardinality(Fetching') <= Cardinality(Fetching) /\ Cardinality(Fetching') \in Nat
    BY <1>2, <2>3, FS_Subset, FS_CardinalityType
  <2> QED
    BY <1>1, <1>2, <2>4
<1> QED
  BY <1>3, <1>4, <1>5
     DEF NewsNext, CallerGivesUp, RefuseNews, EnterRSS, JoinFeeds, AskKNC, AskDaum, FinishNews, newsVars

(* The first error stands.                                                 *)
LEMMA FirstErrorTyped ==
    ASSUME firstErr \in NewsErrors, NEW e \in NewsErrors PROVE FirstError(e) \in NewsErrors
  BY DEF FirstError

(* Every step keeps the types.                                             *)
LEMMA NewsTypedStep == NewsTyped /\ [NewsNext]_newsVars => NewsTyped'
<1> SUFFICES ASSUME NewsTyped, [NewsNext]_newsVars PROVE NewsTyped'
  OBVIOUS
<1>1. NewsInv' /\ Cardinality(Fetching)' <= MaxParallelFeeds
  BY NewsStep, FetchingBounded DEF NewsTyped
<1>2. nctx' \in {"live", "deadline", "cancelled"}
  BY DEF NewsTyped, NewsNext, CallerGivesUp, RefuseNews, EnterRSS, JoinFeeds, AskKNC, AskDaum, FinishNews,
         FetchFeed, FeedAnswers, FeedFails, newsVars
<1>3. firstErr' \in NewsErrors
  <2>1. firstErr \in NewsErrors /\ {NoErr, "transient", "permanent", "unavailable"} \subseteq NewsErrors
    BY DEF NewsTyped, NewsErrors
  <2>2. CASE firstErr' = firstErr
    BY <2>1, <2>2
  <2>3. CASE JoinFeeds
    <3>1. firstErr' = FirstError("transient") \/ firstErr' = FirstError(NoErr)
      BY <2>3 DEF JoinFeeds
    <3> QED
      BY <2>1, <3>1, FirstErrorTyped
  <2>4. CASE AskKNC
    <3>1. firstErr' = firstErr \/ firstErr' = FirstError("transient") \/ firstErr' = FirstError("unavailable")
      BY <2>4 DEF AskKNC
    <3> QED
      BY <2>1, <3>1, FirstErrorTyped
  <2>5. CASE AskDaum
    <3>1. firstErr' = firstErr \/ firstErr' = FirstError("permanent")
      BY <2>5 DEF AskDaum
    <3> QED
      BY <2>1, <3>1, FirstErrorTyped
  <2> QED
    BY <2>2, <2>3, <2>4, <2>5 DEF NewsNext, CallerGivesUp, RefuseNews, EnterRSS, FinishNews,
       FetchFeed, FeedAnswers, FeedFails, newsVars
<1>4. newsAnswer'.err \in NewsErrors /\ newsAnswer'.docs \subseteq NewsItems
  <2>1. CASE newsAnswer' = newsAnswer
    BY <2>1 DEF NewsTyped
  <2>2. ASSUME NEW e \in NewsErrors, NEW d, d \subseteq NewsItems, Answered(e, d)
        PROVE  newsAnswer'.err \in NewsErrors /\ newsAnswer'.docs \subseteq NewsItems
    <3>1. newsAnswer' = [err |-> e, docs |-> d]
      BY <2>2 DEF Answered
    <3> QED
      BY <2>2, <3>1
  <2>3. CASE RefuseNews
    <3>1. Answered("permanent", {})
      BY <2>3 DEF RefuseNews
    <3> QED
      BY <2>2, <3>1 DEF NewsErrors
  <2>4. CASE FinishNews
    <3>1. \/ Answered(firstErr, {}) \/ Answered("transient", {}) \/ Answered("unavailable", {})
          \/ Answered(NoErr, DedupNews(allDocs))
      BY <2>4 DEF FinishNews
    <3>2. DedupNews(allDocs) \subseteq NewsItems
      <4>1. PICK t : t = allDocs
        OBVIOUS
      <4>2. t \in Seq(NewsItems)
        BY <4>1 DEF NewsTyped, NewsInv, NewsTypes
      <4>3. \A i \in DOMAIN t : t[i] \in NewsItems
        BY <4>2
      <4> QED
        BY <4>1, <4>3 DEF DedupNews
    <3>3. firstErr \in NewsErrors /\ "transient" \in NewsErrors /\ "unavailable" \in NewsErrors /\ NoErr \in NewsErrors
      BY DEF NewsTyped, NewsErrors
    <3> QED
      BY <2>2, <3>1, <3>2, <3>3
  <2> QED
    BY <2>1, <2>3, <2>4 DEF NewsNext, CallerGivesUp, EnterRSS, JoinFeeds, AskKNC, AskDaum,
       FetchFeed, FeedAnswers, FeedFails, newsVars
<1> QED
  BY <1>1, <1>2, <1>3, <1>4 DEF NewsTyped

(* At first no feed is fetched.                                            *)
LEMMA NewsTypedInit == NewsInit => NewsTyped
<1> SUFFICES ASSUME NewsInit PROVE NewsTyped
  OBVIOUS
<1>1. NewsInv
  BY NewsInitInv
<1>2. Fetching = {} /\ firstErr = NoErr /\ nctx = "live" /\ newsAnswer.err = NoErr /\ newsAnswer.docs = {}
  BY DEF NewsInit, Fetching, Nothing
<1>3. Cardinality(Fetching) = 0 /\ MaxParallelFeeds \in Nat
  BY <1>2, FS_EmptySet, KoreaNewsAssumption
<1> QED
  BY <1>1, <1>2, <1>3 DEF NewsTyped, NewsErrors

(* What is known of the news has its types.                                *)
LEMMA NewsTypedOK == NewsTyped => NewsTypeOK
<1> SUFFICES ASSUME NewsTyped PROVE NewsTypeOK
  OBVIOUS
<1>1. PICK t : t = allDocs
  OBVIOUS
<1>2. t \in Seq(NewsItems) /\ npc \in {"start", "rss", "knc", "daum", "merge", "done"}
  BY <1>1 DEF NewsTyped, NewsInv, NewsTypes
<1>3. Range(t) \subseteq NewsItems
  BY <1>2 DEF Range
<1> QED
  BY <1>1, <1>2, <1>3 DEF NewsTyped, NewsTypeOK, NewsErrors

-----------------------------------------------------------------------------
(* The types of the registry: only what is registered is toggled or        *)
(* reported, and a request that was let through names what is registered.  *)
Codes == {-1, 0, 200, 400, 403, 404, 405, 502, 503}
CallCounts == [ok : Nat, failed : Nat]
RegistryTyped ==
    /\ registered \subseteq ProbedSources /\ disabled \subseteq registered
    /\ calls \in [ProbedSources -> CallCounts]
    /\ \A n \in ProbedSources : calls[n].ok + calls[n].failed <= MaxCalls
    /\ DOMAIN req = Admins
    /\ \A a \in Admins : /\ DOMAIN req[a] = {"kind", "id", "seen", "code", "view"}
                         /\ req[a].kind \in Kinds /\ req[a].code \in Codes
                         /\ req[a].kind \in {"resync", "toggle"} => req[a].id \in registered
    /\ DOMAIN report \subseteq registered

(* What a reply changes of a request.                                      *)
LEMMA Replied ==
    ASSUME RegistryTyped, NEW a \in Admins, NEW k \in Codes, NEW v, Reply(a, k, v), registered' = registered
    PROVE  /\ DOMAIN req' = Admins
           /\ \A b \in Admins : /\ DOMAIN req'[b] = {"kind", "id", "seen", "code", "view"}
                                /\ req'[b].kind \in Kinds /\ req'[b].code \in Codes
                                /\ req'[b].kind \in {"resync", "toggle"} => req'[b].id \in registered'
<1>1. req' = [req EXCEPT ![a].code = k, ![a].view = v]
  BY DEF Reply
<1>2. DOMAIN req = Admins /\ DOMAIN req[a] = {"kind", "id", "seen", "code", "view"}
  BY DEF RegistryTyped
<1>3. DOMAIN req' = Admins /\ \A b \in Admins \ {a} : req'[b] = req[b]
  BY <1>1, <1>2
<1>4. req'[a] = [req[a] EXCEPT !.code = k, !.view = v]
  BY <1>1, <1>2
<1>5. /\ DOMAIN req'[a] = {"kind", "id", "seen", "code", "view"}
      /\ req'[a].kind = req[a].kind /\ req'[a].id = req[a].id /\ req'[a].code = k
  BY <1>2, <1>4
<1> QED
  BY <1>3, <1>5 DEF RegistryTyped
(* Registering and searching: names are only added, and an adapter is      *)
(* searched a bounded number of times.                                     *)
LEMMA RegisterTyped ==
    ASSUME RegistryTyped, NEW n \in ProbedSources, NEW skipped \in BOOLEAN,
           Register(n, skipped) \/ RegistrySearch(n)
    PROVE  RegistryTyped'
<1>1. CASE Register(n, skipped)
  <2>1. registered' = registered \cup {n} /\ UNCHANGED <<disabled, calls, req, report>>
    BY <1>1 DEF Register, adminVars, probeVars
  <2> QED
    BY <2>1 DEF RegistryTyped
<1>2. CASE RegistrySearch(n)
  <2>1. calls[n].ok + calls[n].failed < MaxCalls /\ UNCHANGED <<registered, disabled, req, report>>
    BY <1>2 DEF RegistrySearch, adminVars, probeVars
  <2>2. PICK o \in {"ok", "failed"} : calls' = [calls EXCEPT ![n][o] = @ + 1]
    BY <1>2 DEF RegistrySearch
  <2>3. calls \in [ProbedSources -> CallCounts] /\ calls[n] \in CallCounts
    BY DEF RegistryTyped
  <2>4. /\ \A m \in ProbedSources \ {n} : calls'[m] = calls[m]
        /\ calls'[n] = [calls[n] EXCEPT ![o] = @ + 1]
        /\ DOMAIN calls' = ProbedSources /\ calls' = [m \in ProbedSources |-> calls'[m]]
    BY <2>2, <2>3
  <2>5. calls'[n] \in CallCounts /\ calls'[n].ok + calls'[n].failed = calls[n].ok + calls[n].failed + 1
    <3>1. CASE o = "ok"
      <4>1. calls'[n] = [ok |-> calls[n].ok + 1, failed |-> calls[n].failed]
        BY <2>3, <2>4, <3>1 DEF CallCounts
      <4> QED
        BY <2>3, <4>1 DEF CallCounts
    <3>2. CASE o = "failed"
      <4>1. calls'[n] = [ok |-> calls[n].ok, failed |-> calls[n].failed + 1]
        BY <2>3, <2>4, <3>2 DEF CallCounts
      <4> QED
        BY <2>3, <4>1 DEF CallCounts
    <3> QED
      BY <3>1, <3>2
  <2>6. calls[n].ok \in Nat /\ calls[n].failed \in Nat /\ MaxCalls \in Nat
    BY <2>3, RegistryAssumption DEF CallCounts
  <2>7. calls' \in [ProbedSources -> CallCounts]
    BY <2>3, <2>4, <2>5
  <2>8. \A m \in ProbedSources : calls'[m].ok + calls'[m].failed <= MaxCalls
    <3>1. calls'[n].ok + calls'[n].failed <= MaxCalls
      BY <2>1, <2>5, <2>6
    <3> QED
      BY <2>4, <3>1 DEF RegistryTyped
  <2> QED
    BY <2>1, <2>7, <2>8 DEF RegistryTyped
<1> QED
  BY <1>1, <1>2

(* How a request is refused, by its path and what it asks for.             *)
Refusal(k, id, loopback, method, wellFormed) ==
    IF ~loopback THEN 403
    ELSE IF ~method THEN 405
    ELSE IF k \in {"resync", "toggle"} /\ id = "" THEN 400
    ELSE IF k = "audit" /\ ~wellFormed THEN 400
    ELSE IF k \in {"resync", "toggle"} /\ id \notin registered THEN 404
    ELSE 0

(* The request as the handlers get it, or with the code of its refusal.    *)
Asked(a, k, id, loopback, method, wellFormed) ==
    LET refusal == Refusal(k, id, loopback, method, wellFormed)
    IN  req' = [req EXCEPT ![a] =
                  [kind |-> IF refusal = 0 THEN k ELSE "rejected", id |-> id, code |-> refusal, view |-> None,
                   seen |-> IF k \in {"adapters", "health"}
                            THEN {n \in ProbedSources : ClassifyHealth(calls[n]) = "unhealthy"} ELSE {}]]

(* A refusal is a code; what is not refused names a registered adapter.    *)
LEMMA RefusalIs ==
    ASSUME NEW k, NEW id, NEW loopback, NEW method, NEW wellFormed
    PROVE  \/ Refusal(k, id, loopback, method, wellFormed) \in {400, 403, 404, 405}
           \/ /\ Refusal(k, id, loopback, method, wellFormed) = 0
              /\ k \in {"resync", "toggle"} => id \in registered
<1>1. CASE ~loopback
  <2>1. Refusal(k, id, loopback, method, wellFormed) = 403
    BY ONLY <1>1 DEF Refusal
  <2> QED
    BY <2>1
<1>2. CASE loopback /\ ~method
  <2>1. Refusal(k, id, loopback, method, wellFormed) = 405
    BY ONLY <1>2 DEF Refusal
  <2> QED
    BY <2>1
<1>3. CASE loopback /\ method /\ k \in {"resync", "toggle"} /\ id = ""
  <2>1. Refusal(k, id, loopback, method, wellFormed) = 400
    BY ONLY <1>3 DEF Refusal
  <2> QED
    BY <2>1
<1>4. CASE loopback /\ method /\ ~(k \in {"resync", "toggle"} /\ id = "") /\ k = "audit" /\ ~wellFormed
  <2>1. Refusal(k, id, loopback, method, wellFormed) = 400
    BY ONLY <1>4 DEF Refusal
  <2> QED
    BY <2>1
<1>5. CASE /\ loopback /\ method /\ ~(k \in {"resync", "toggle"} /\ id = "") /\ ~(k = "audit" /\ ~wellFormed)
           /\ k \in {"resync", "toggle"} /\ id \notin registered
  <2>1. Refusal(k, id, loopback, method, wellFormed) = 404
    BY ONLY <1>5 DEF Refusal
  <2> QED
    BY <2>1
<1>6. CASE /\ loopback /\ method /\ ~(k \in {"resync", "toggle"} /\ id = "") /\ ~(k = "audit" /\ ~wellFormed)
           /\ ~(k \in {"resync", "toggle"} /\ id \notin registered)
  <2>1. Refusal(k, id, loopback, method, wellFormed) = 0
    BY ONLY <1>6 DEF Refusal
  <2> QED
    BY <1>6, <2>1
<1> QED
  BY <1>1, <1>2, <1>3, <1>4, <1>5, <1>6

(* A request: what is let through names a registered adapter.              *)
LEMMA RequestTyped ==
    ASSUME RegistryTyped, NEW a \in Admins, RequestArrives(a) \/ RequestEnds(a)
    PROVE  RegistryTyped'
<1>1. UNCHANGED <<registered, disabled, calls, report>>
  BY DEF RequestArrives, RequestEnds, probeVars
<1>2. ASSUME NEW r, req' = [req EXCEPT ![a] = r], DOMAIN r = {"kind", "id", "seen", "code", "view"},
             r.kind \in Kinds, r.code \in Codes, r.kind \in {"resync", "toggle"} => r.id \in registered
      PROVE  RegistryTyped'
  <2>1. DOMAIN req' = Admins /\ req'[a] = r /\ \A b \in Admins \ {a} : req'[b] = req[b]
    BY <1>2 DEF RegistryTyped
  <2> QED
    BY <1>1, <1>2, <2>1 DEF RegistryTyped
<1>3. CASE RequestEnds(a)
  <2>1. req' = [req EXCEPT ![a] = NoRequest]
    BY <1>3 DEF RequestEnds
  <2>2. DOMAIN NoRequest = {"kind", "id", "seen", "code", "view"} /\ NoRequest.kind = "none" /\ NoRequest.code = 0
    BY DEF NoRequest, None
  <2> QED
    BY <1>2, <2>1, <2>2 DEF Kinds, Codes
<1>4. CASE RequestArrives(a)
  <2>1. \E k \in Handlers, id \in ProbedSources \cup {""},
           loopback \in BOOLEAN, method \in BOOLEAN, wellFormed \in BOOLEAN :
             Asked(a, k, id, loopback, method, wellFormed)
    BY <1>4, Zenon DEF RequestArrives, Refusal, Asked
  <2>2. \E k \in Handlers : \E id, loopback, method, wellFormed : Asked(a, k, id, loopback, method, wellFormed)
    BY <2>1, Zenon
  <2>3. PICK k \in Handlers : \E id, loopback, method, wellFormed : Asked(a, k, id, loopback, method, wellFormed)
    BY <2>2
  <2>4. PICK id, loopback, method, wellFormed : Asked(a, k, id, loopback, method, wellFormed)
    BY <2>3
  <2>5. PICK code : code = Refusal(k, id, loopback, method, wellFormed)
    OBVIOUS
  <2>6. PICK kind : kind = IF code = 0 THEN k ELSE "rejected"
    OBVIOUS
  <2>7. PICK seen : seen = IF k \in {"adapters", "health"}
                           THEN {n \in ProbedSources : ClassifyHealth(calls[n]) = "unhealthy"} ELSE {}
    OBVIOUS
  <2>8. PICK r : r = [kind |-> kind, id |-> id, code |-> code, view |-> None, seen |-> seen]
    OBVIOUS
  <2>9. req' = [req EXCEPT ![a] = r]
    BY <2>4, <2>5, <2>6, <2>7, <2>8 DEF Asked
  <2>10. DOMAIN r = {"kind", "id", "seen", "code", "view"} /\ r.code = code /\ r.id = id /\ r.kind = kind
    BY <2>8
  <2>11. kind \in Kinds /\ code \in Codes /\ (kind \in {"resync", "toggle"} => id \in registered)
    <3>1. \/ code \in {400, 403, 404, 405}
          \/ code = 0 /\ (k \in {"resync", "toggle"} => id \in registered)
      BY <2>5, RefusalIs
    <3>2. CASE code = 0
      BY <2>6, <3>1, <3>2 DEF Kinds, Codes
    <3>3. CASE code \in {400, 403, 404, 405}
      <4>1. code # 0 /\ code \in Codes
        BY ONLY <3>3 DEF Codes
      <4>2. kind = "rejected"
        BY ONLY <2>6, <4>1
      <4>3. "rejected" \in Kinds /\ "rejected" \notin {"resync", "toggle"}
        BY ONLY TRUE DEF Kinds
      <4> QED
        BY ONLY <4>1, <4>2, <4>3
    <3> QED
      BY <3>1, <3>2, <3>3
  <2> QED
    BY <1>2, <2>9, <2>10, <2>11
<1> QED
  BY <1>3, <1>4

(* The handlers' answers, and the toggle's flip of a registered adapter.   *)
LEMMA AnswersTyped ==
    ASSUME RegistryTyped, NEW a \in Admins,
           \/ ListReplies(a) \/ HealthReplies(a) \/ ResyncReplies(a)
           \/ ToggleFlips(a) \/ ToggleReplies(a) \/ AuditReplies(a)
    PROVE  RegistryTyped'
<1>1. UNCHANGED <<registered, calls, report>>
  BY DEF ListReplies, HealthReplies, ResyncReplies, ToggleFlips, ToggleReplies, AuditReplies, probeVars
<1>2. CASE ToggleFlips(a)
  <2>1. /\ req[a].kind = "toggle"
        /\ disabled' = (IF req[a].id \in disabled THEN disabled \ {req[a].id} ELSE disabled \cup {req[a].id})
        /\ req' = [req EXCEPT ![a].view = "flipped"]
    BY <1>2 DEF ToggleFlips
  <2>2. disabled' \subseteq registered
    BY <2>1 DEF RegistryTyped
  <2>3. DOMAIN req' = Admins /\ req'[a] = [req[a] EXCEPT !.view = "flipped"] /\ \A b \in Admins \ {a} : req'[b] = req[b]
    BY <2>1 DEF RegistryTyped
  <2>4. DOMAIN req[a] = {"kind", "id", "seen", "code", "view"}
    BY DEF RegistryTyped
  <2>5. /\ DOMAIN req'[a] = {"kind", "id", "seen", "code", "view"}
        /\ req'[a].kind = req[a].kind /\ req'[a].id = req[a].id /\ req'[a].code = req[a].code
    BY <2>3, <2>4
  <2> QED
    BY <1>1, <2>2, <2>3, <2>5 DEF RegistryTyped
<1>3. CASE ListReplies(a) \/ HealthReplies(a) \/ ResyncReplies(a) \/ ToggleReplies(a) \/ AuditReplies(a)
  <2>1. disabled' = disabled
    BY <1>3 DEF ListReplies, HealthReplies, ResyncReplies, ToggleReplies, AuditReplies
  <2>2. \E k \in Codes : \E v : Reply(a, k, v)
    <3>1. CASE ListReplies(a) \/ ToggleReplies(a) \/ AuditReplies(a)
      BY <3>1 DEF ListReplies, ToggleReplies, AuditReplies, Codes
    <3>2. CASE HealthReplies(a)
      BY <3>2 DEF HealthReplies, Codes
    <3>3. CASE ResyncReplies(a)
      <4>1. CASE health[req[a].id] = "healthy"
        BY <3>3, <4>1 DEF ResyncReplies, Codes
      <4>2. CASE health[req[a].id] = "panics"
        BY <3>3, <4>2 DEF ResyncReplies, Codes
      <4>3. CASE health[req[a].id] # "healthy" /\ health[req[a].id] # "panics"
        BY <3>3, <4>3 DEF ResyncReplies, Codes
      <4> QED
        BY <4>1, <4>2, <4>3
    <3> QED
      BY <1>3, <3>1, <3>2, <3>3
  <2>3. PICK k \in Codes : \E v : Reply(a, k, v)
    BY <2>2
  <2>4. /\ DOMAIN req' = Admins
        /\ \A b \in Admins : /\ DOMAIN req'[b] = {"kind", "id", "seen", "code", "view"}
                             /\ req'[b].kind \in Kinds /\ req'[b].code \in Codes
                             /\ req'[b].kind \in {"resync", "toggle"} => req'[b].id \in registered'
    BY <1>1, <2>3, Replied
  <2> QED
    BY <1>1, <2>1, <2>4 DEF RegistryTyped
<1> QED
  BY <1>2, <1>3

(* Every step keeps the registry's types.                                  *)
LEMMA RegistryTypedStep == RegistryTyped /\ [RegistryNext]_registryVars => RegistryTyped'
<1> SUFFICES ASSUME RegistryTyped, [RegistryNext]_registryVars PROVE RegistryTyped'
  OBVIOUS
<1>1. CASE \E n \in ProbedSources, skipped \in BOOLEAN : Register(n, skipped) \/ RegistrySearch(n)
  BY <1>1, RegisterTyped
<1>2. CASE \E n \in ProbedSources : ProbeEnds(n)
  <2>1. UNCHANGED <<registered, disabled, calls, req>> /\ DOMAIN report' = DOMAIN report
    BY <1>2 DEF ProbeEnds, adminVars
  <2> QED
    BY <2>1 DEF RegistryTyped
<1>3. CASE \E a \in Admins : RequestArrives(a) \/ RequestEnds(a)
  BY <1>3, RequestTyped
<1>4. CASE \E a \in Admins : \/ ListReplies(a) \/ HealthReplies(a) \/ ResyncReplies(a)
                             \/ ToggleFlips(a) \/ ToggleReplies(a) \/ AuditReplies(a)
  BY <1>4, AnswersTyped
<1>5. CASE StartProbes
  <2>1. UNCHANGED <<registered, disabled, calls, req>> /\ DOMAIN report' = registered
    BY <1>5 DEF StartProbes, adminVars
  <2> QED
    BY <2>1 DEF RegistryTyped
<1>6. CASE ProbesJoined \/ UNCHANGED registryVars
  <2>1. UNCHANGED <<registered, disabled, calls, req, report>>
    BY <1>6 DEF ProbesJoined, registryVars, adminVars
  <2> QED
    BY <2>1 DEF RegistryTyped
<1>7. CASE \E n \in ProbedSources : RegistrySearch(n)
  BY <1>1, <1>7, TRUE \in BOOLEAN
<1> QED
  BY <1>1, <1>2, <1>3, <1>4, <1>5, <1>6, <1>7 DEF RegistryNext

(* An empty registry is well typed.                                        *)
LEMMA RegistryTypedInit == RegistryInit => RegistryTyped
<1> SUFFICES ASSUME RegistryInit PROVE RegistryTyped
  OBVIOUS
<1>1. registered = {} /\ disabled = {} /\ DOMAIN report = {} /\ DOMAIN req = Admins /\ calls = ZeroCalls
  BY DEF RegistryInit
<1>2. calls \in [ProbedSources -> CallCounts] /\ \A n \in ProbedSources : calls[n].ok + calls[n].failed = 0
  BY <1>1 DEF ZeroCalls, CallCounts
<1>3. \A a \in Admins : req[a] = NoRequest
  BY DEF RegistryInit
<1>4. DOMAIN NoRequest = {"kind", "id", "seen", "code", "view"} /\ NoRequest.kind = "none" /\ NoRequest.code = 0
  BY DEF NoRequest, None
<1> QED
  BY <1>1, <1>2, <1>3, <1>4, RegistryAssumption DEF RegistryTyped, Kinds, Codes

-----------------------------------------------------------------------------
(* Every step of the sources is a step of each part or leaves it alone.    *)
LEMMA SourcePartsStep ==
    /\ SourcesInit => Init /\ WaitsInit /\ RegistryInit
    /\ [SourcesNext]_sourcesVars => [Next]_vars /\ [WaitsNext]_waitsVars /\ [RegistryNext]_registryVars
<1>1. SourcesInit => Init /\ WaitsInit /\ RegistryInit
  BY DEF SourcesInit
<1>2. ASSUME SourcesNext PROVE [Next]_vars /\ [WaitsNext]_waitsVars /\ [RegistryNext]_registryVars
  BY <1>2 DEF SourcesNext, WaitsNext
<1>3. ASSUME UNCHANGED sourcesVars PROVE UNCHANGED vars /\ UNCHANGED waitsVars /\ UNCHANGED registryVars
  BY <1>3 DEF sourcesVars
<1> QED
  BY <1>1, <1>2, <1>3

(* The types of every part of the sources, with the bounds they carry: the *)
(* attempts of a Fetch and the browsers (cascade.go), an item a page lists *)
(* is one the service has (parse.go), two tokens of a search (oauth.go),   *)
(* the feeds fetched at once (rss.go), and what is toggled or reported is  *)
(* registered (registry.go).                                               *)
THEOREM SourcesTyped == SourcesSpec => []SourcesTypesOK
<1> DEFINE Inv == AInv /\ SearchTyped /\ WaitsTyped /\ NewsTyped /\ RegistryTyped
<1>1. SourcesInit => Inv
  BY SourcePartsStep, SearchesStep, InitInv, SearchTypedInit, WaitsTypedInit, NewsTypedInit, RegistryTypedInit
<1>2. Inv /\ [SourcesNext]_sourcesVars => Inv'
  BY SourcePartsStep, SearchesStep, FetcherStep, SearchTypedStep, WaitsTypedStep, NewsTypedStep, RegistryTypedStep
<1>3. Inv => SourcesTypesOK
  <2>1. AInv => TypeOK
    BY InvTypes
  <2>2. RegistryTyped => RegistryTypeOK
    BY DEF RegistryTyped, RegistryTypeOK, Codes
  <2> QED
    BY <2>1, <2>2, SearchTypedOK, WaitsTypedOK, NewsTypedOK DEF SourcesTypesOK
<1> QED
  BY <1>1, <1>2, <1>3, PTL DEF SourcesSpec
=============================================================================
