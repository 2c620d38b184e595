----------------------------- MODULE AnswerCache -----------------------------
(***************************************************************************)
(* The semantic answer cache (internal/idx5). A request looks the answer   *)
(* up before the fan-out; a miss is answered by the fan-out and written    *)
(* back by a goroutine nobody waits for. The mapping from a request to the *)
(* answer it was served from the cache is kept in a bounded LRU, so that   *)
(* negative feedback can mark the answer stale. External are the stores    *)
(* behind the lookup and the write-back, and the middleware: the package   *)
(* has no caller yet; SPEC-IDX-005 has it call Set when it serves a hit.   *)
(***************************************************************************)
EXTENDS Integers, Sequences, FiniteSets, SequencesExt

CONSTANTS AskIds,         \* requests
          AnswerTeams, Asked,  \* teams; distinct questions
          Categories,     \* category -> TTL in ticks, of those configured
          DefaultTTL,
          Threshold,      \* team -> similarity, in hundredths
          Scores,         \* similarities the search may return
          LRUCapacity, LRULife,
          MaxAge          \* bound: the age after which answers stop ageing

ASSUME AnswerAssumption ==
    /\ \A c \in DOMAIN Categories : Categories[c] \in Nat
    /\ DefaultTTL \in Nat \ {0} /\ LRUCapacity \in Nat \ {0} /\ LRULife \in Nat \ {0}
    /\ Asked # {} /\ AnswerTeams # {} /\ MaxAge \in Nat
    /\ Threshold \in [AnswerTeams -> 0..100] /\ Scores \subseteq 0..100

VARIABLES answers,   \* CacheDocID -> the stored answer
          ask,       \* request -> idle, looked, served, writing, done
          asks,      \* request -> the CacheDocID of its question and team
          outcome,   \* request -> LookupOutcome, until it was acted on
          lru,       \* RequestLRU: entries, most recently used first
          downvoted  \* history: answers marked stale and not written since

answerVars == <<answers, ask, asks, outcome, lru, downvoted>>

(* CacheDocID: the question's hash and the team.                           *)
CacheDocIDs == Asked \X AnswerTeams
NoAnswer == [age |-> MaxAge, category |-> "none", ttl |-> 0, forced |-> FALSE, stored |-> FALSE]

AnswerInit ==
    /\ answers = [d \in CacheDocIDs |-> NoAnswer]
    /\ ask = [r \in AskIds |-> "idle"]
    /\ asks = [r \in AskIds |-> CHOOSE d \in CacheDocIDs : TRUE]
    /\ outcome = [r \in AskIds |-> "none"]
    /\ lru = <<>> /\ downvoted = {}

-----------------------------------------------------------------------------
(* effectiveTTL: the category's, else the stored one, else the default.    *)
EffectiveTTL(a) == IF a.category \in DOMAIN Categories THEN Categories[a.category]
                   ELSE IF a.ttl > 0 THEN a.ttl ELSE DefaultTTL

(* EvaluateStaleness; the middle of the TTL is compared without rounding.  *)
EvaluateStaleness_AgeFirst(a) ==
    IF 2 * a.age < EffectiveTTL(a) THEN "fresh"
    ELSE IF a.forced \/ a.age >= EffectiveTTL(a) THEN "hard_stale" ELSE "soft_stale"
EvaluateStaleness(a) ==
    IF a.forced \/ a.age >= EffectiveTTL(a) THEN "hard_stale"
    ELSE IF 2 * a.age >= EffectiveTTL(a) THEN "soft_stale" ELSE "fresh"

OutcomeOf(staleness) == CASE staleness = "fresh" -> "hit"
                          [] staleness = "soft_stale" -> "soft_hit"
                          [] staleness = "hard_stale" -> "hard_stale"

(* Lookup: the search is scoped to the team and returns the most similar   *)
(* answer, which may be the one to another question.                       *)
CacheLookup(d) ==
    {"miss"} \cup        \* the embedder or the search fails, or nothing is found
    UNION {IF score < Threshold[d[2]] THEN {"miss"} ELSE {OutcomeOf(EvaluateStaleness(answers[d]))}
           : score \in IF answers[d].stored THEN Scores ELSE {}}

LookupWithBypass(r) ==
    /\ ask[r] = "idle"
    /\ \E d \in CacheDocIDs : \E o \in {"bypassed"} \cup CacheLookup(d) :
          /\ asks' = [asks EXCEPT ![r] = d]
          /\ outcome' = [outcome EXCEPT ![r] = o]
    /\ ask' = [ask EXCEPT ![r] = "looked"]
    /\ UNCHANGED <<answers, lru, downvoted>>

-----------------------------------------------------------------------------
Keys == {lru[i].key : i \in DOMAIN lru}
Place(key) == CHOOSE i \in DOMAIN lru : lru[i].key = key
Mapping(key) == lru[Place(key)]
Without(key) == IF key \in Keys THEN RemoveAt(lru, Place(key)) ELSE lru

(* RequestLRU.Set: a known key moves to the front with a new life; a new   *)
(* one takes the place of the least recently used when there is no room.   *)
Set(r, d) ==
    LET kept == IF r \notin Keys /\ Len(lru) >= LRUCapacity THEN Front(lru) ELSE Without(r)
    IN  <<[key |-> r, doc |-> d, left |-> LRULife]>> \o kept

(* ServeCached writes a fresh or a soft-stale answer, as it was when it    *)
(* was looked up, and the request is mapped to it ...                      *)
Serve(r) ==
    /\ ask[r] = "looked" /\ outcome[r] \in {"hit", "soft_hit"}
    /\ ask' = [ask EXCEPT ![r] = "served"]
    /\ lru' = Set(r, asks[r])
    /\ outcome' = [outcome EXCEPT ![r] = "none"]
    /\ UNCHANGED <<answers, asks, downvoted>>

(* ... anything else (ServeMISS, ServeBypassed) goes to the fan-out, and   *)
(* back with FireAndForget; no request is mapped to such an answer.        *)
FanoutAnswered(r) ==
    /\ ask[r] = "looked" /\ outcome[r] \notin {"hit", "soft_hit"}
    /\ ask' = [ask EXCEPT ![r] = "writing"]
    /\ outcome' = [outcome EXCEPT ![r] = "none"]
    /\ UNCHANGED <<answers, asks, lru, downvoted>>

(* The write-back: it stores a new answer, fails, or panics and recovers.  *)
WriteBack(r) ==
    /\ ask[r] = "writing"
    /\ ask' = [ask EXCEPT ![r] = "done"]
    /\ \/ UNCHANGED <<answers, downvoted>>
       \/ /\ \E c \in DOMAIN Categories \cup {"none"}, ttl \in {0, MaxAge} :
                /\ c = "none" \/ ttl = 0
                /\ answers' = [answers EXCEPT ![asks[r]] =
                       [age |-> 0, category |-> c, ttl |-> ttl, forced |-> FALSE, stored |-> TRUE]]
          /\ downvoted' = downvoted \ {asks[r]}
    /\ UNCHANGED <<asks, outcome, lru>>

(* HandleFeedback of a negative score (others are ignored): the LRU drops  *)
(* an entry it finds expired, and moves one it finds alive to the front.   *)
MayMark(r, team) == Mapping(r).doc[2] = team
Feedback(r, team) ==
    /\ r \in Keys
    /\ IF Mapping(r).left = 0
       THEN lru' = Without(r) /\ UNCHANGED <<answers, downvoted>>       \* "unmapped"
       ELSE /\ lru' = <<Mapping(r)>> \o Without(r)
            /\ IF MayMark(r, team) /\ answers[Mapping(r).doc].stored
               THEN \/ /\ answers' = [answers EXCEPT ![Mapping(r).doc].forced = TRUE]
                       /\ downvoted' = downvoted \cup {Mapping(r).doc}
                    \/ UNCHANGED <<answers, downvoted>>                 \* MarkStale fails
               ELSE UNCHANGED <<answers, downvoted>>
    /\ UNCHANGED <<ask, asks, outcome>>

AnswerTick ==
    /\ answers' = [d \in CacheDocIDs |->
          IF answers[d].age < MaxAge THEN [answers[d] EXCEPT !.age = @ + 1] ELSE answers[d]]
    /\ lru' = [i \in DOMAIN lru |-> IF lru[i].left > 0 THEN [lru[i] EXCEPT !.left = @ - 1] ELSE lru[i]]
    /\ UNCHANGED <<ask, asks, outcome, downvoted>>

(* The middleware is asked again under the same request id.                *)
AskAgain(r) ==
    /\ ask[r] \in {"served", "done"}
    /\ ask' = [ask EXCEPT ![r] = "idle"]
    /\ UNCHANGED <<answers, asks, outcome, lru, downvoted>>

AnswerNext ==
    \/ \E r \in AskIds : \/ LookupWithBypass(r) \/ Serve(r) \/ FanoutAnswered(r) \/ WriteBack(r)
                         \/ AskAgain(r) \/ \E t \in AnswerTeams : Feedback(r, t)
    \/ AnswerTick

AnswerSpec == AnswerInit /\ [][AnswerNext]_answerVars

-----------------------------------------------------------------------------
AnswerTypeOK ==
    /\ ask \in [AskIds -> {"idle", "looked", "served", "writing", "done"}]
    /\ asks \in [AskIds -> CacheDocIDs]
    /\ outcome \in [AskIds -> {"none", "hit", "soft_hit", "miss", "hard_stale", "bypassed"}]
    /\ \A d \in CacheDocIDs : answers[d].age \in 0..MaxAge
    /\ \A i \in DOMAIN lru : lru[i].left \in 0..LRULife

(* REQ-IDX5-008 and -003: no lookup that comes after an answer was marked  *)
(* stale finds it a hit, however young it is, until a write-back replaced  *)
(* it; the LRU stays within its capacity and knows a request at most once, *)
(* and a request that was served from the cache by the answer it got, so   *)
(* that its vote marks that one, whatever expired or was evicted around    *)
(* it. (A hit found before the vote may be served after it, and any        *)
(* write-back lifts the mark, one begun before the vote too.)              *)
FeedbackRespected ==
    /\ \A d \in downvoted : CacheLookup(d) \subseteq {"miss", "hard_stale"}
    /\ Len(lru) <= LRUCapacity /\ Cardinality(Keys) = Len(lru)
    /\ \A r \in Keys : ask[r] = "served" => Mapping(r).doc = asks[r]
=============================================================================
