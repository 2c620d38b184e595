----------------------------- MODULE IndexStores -----------------------------
(***************************************************************************)
(* The hybrid index (internal/index): Upsert writes batches of documents   *)
(* to three stores at once, Search asks the three at once and fuses their  *)
(* rankings. A store that fails is recorded and never fails the call on    *)
(* its own. Writers and searchers run concurrently; Meilisearch queues     *)
(* what it is given and indexes it later.                                  *)
(***************************************************************************)
EXTENDS Integers, Sequences, FiniteSets, SequencesExt, FiniteSetsExt

CONSTANTS DocIds,          \* numbers, for their order
          Writers,         \* concurrent calls of Upsert
          Job,             \* writer -> the documents it is given
          IndexQueries,         \* what Search may be asked: [team, max, empty]
          BulkBatchSize,
          RRFWeights,      \* Options.RRFWeights: store -> weight
          RRFConstantK,
          RRFUnit          \* a score is counted in units of 1 / RRFUnit

NoTeam == "no team"
Stores == {"qdrant", "meili", "pg"}
IndexDoc == [id : DocIds, version : Nat \ {0}, team : STRING, valid : BOOLEAN]

ASSUME IndexAssumption ==
    /\ DocIds \subseteq Nat /\ IsFiniteSet(DocIds)
    /\ \A w \in Writers : Job[w] \in Seq(IndexDoc)
    /\ BulkBatchSize \in Nat \ {0} /\ RRFConstantK \in Nat \ {0}
    /\ \A s \in DOMAIN RRFWeights : RRFWeights[s] \in Int
    /\ RRFUnit \in Nat \ {0} /\ NoTeam \in STRING    \* true of any literal
    /\ \A r \in 1..Cardinality(DocIds) : RRFUnit % (RRFConstantK + r) = 0
    /\ \A q \in IndexQueries : q.max \in Nat /\ q.empty \in BOOLEAN

VARIABLES held,        \* store -> id -> what it holds; version 0 is nothing
          tasks,       \* Meilisearch's queue of accepted batches: [writer, at]
          wpc, from,   \* writer -> idle, writing, done; first document of its batch
          awaited,     \* writer -> stores whose partial is outstanding
          report,      \* writer -> UpsertResult
          taskFailed,  \* history: documents of a queued batch that failed
          query,       \* the query of the search under way
          lists,       \* store -> its ranked list, once it has answered
          searched     \* idle, searching, failed (embedder), allFailed or the IndexResult

upsertVars == <<held, tasks, wpc, from, awaited, report, taskFailed>>
searchVars == <<query, lists, searched>>
indexVars == <<upsertVars, searchVars>>

NoDoc == [version |-> 0, team |-> NoTeam]
NoReport == [inserted |-> 0, skipped |-> 0, ok |-> 0, errors |-> 0, failed |-> {}]
NoIndexQuery == [team |-> NoTeam, max |-> 0, empty |-> FALSE]

IndexInit ==
    /\ held = [s \in Stores |-> [d \in DocIds |-> NoDoc]]
    /\ tasks = <<>> /\ taskFailed = {}
    /\ wpc = [w \in Writers |-> "idle"]
    /\ from = [w \in Writers |-> 1]
    /\ awaited = [w \in Writers |-> {}]
    /\ report = [w \in Writers |-> NoReport]
    /\ query = NoIndexQuery /\ lists = [s \in {} |-> {}] /\ searched = [pc |-> "idle"]

-----------------------------------------------------------------------------
(* Upsert. A document is its position in the writer's job; a batch is the  *)
(* set of those that come next among the valid ones.                       *)
Valid(w) == {i \in DOMAIN Job[w] : Job[w][i].valid}
Ordinal(w, i) == Cardinality({j \in Valid(w) : j <= i})
Batch(w) == {i \in Valid(w) : from[w] <= Ordinal(w, i) /\ Ordinal(w, i) < from[w] + BulkBatchSize}

(* Documents that fail Validate are counted and left out.                  *)
StartUpsert(w) ==
    LET bad == Cardinality(DOMAIN Job[w] \ Valid(w)) IN
    /\ wpc[w] = "idle"
    /\ report' = [report EXCEPT ![w].skipped = bad,
                                ![w].failed = IF bad > 0 THEN {"validation"} ELSE {}]
    /\ wpc' = [wpc EXCEPT ![w] = IF Valid(w) = {} THEN "done" ELSE "writing"]
    /\ awaited' = [awaited EXCEPT ![w] = IF Valid(w) = {} THEN {} ELSE Stores]
    /\ UNCHANGED <<held, tasks, from, taskFailed, searchVars>>

(* The converters: only the Qdrant payload carries the team.               *)
Converted(s, d) == [version |-> d.version, team |-> IF s = "qdrant" THEN d.team ELSE NoTeam]

(* What a batch makes of a store: the last of its documents with an id. A  *)
(* row of PostgreSQL whose content hash does not differ is left alone,     *)
(* which is the same copy.                                                 *)
Of(w, at, id) == {i \in at : Job[w][i].id = id}
Written(s, content, w, at) ==
    [id \in DocIds |-> IF Of(w, at, id) = {} THEN content[id]
                       ELSE Converted(s, Job[w][Max(Of(w, at, id))])]
Changed(content, w, at) ==
    {i \in at : LET d == Job[w][i] IN
                Written("pg", content, w, {j \in at : j < i})[d.id].version # d.version}

Inserted(s, w) == Cardinality(IF s = "pg" THEN Changed(held["pg"], w, Batch(w)) ELSE Batch(w))

(* The write of one store, as the store sees it: Meilisearch only queues.  *)
Apply(s, w) ==
    IF s = "meili" THEN /\ tasks' = Append(tasks, [writer |-> w, at |-> Batch(w)]) /\ UNCHANGED held
    ELSE /\ held' = [held EXCEPT ![s] = Written(s, @, w, Batch(w))] /\ UNCHANGED tasks

StoreSucceeds(w, s) ==
    /\ s \in awaited[w]
    /\ Apply(s, w)
    /\ awaited' = [awaited EXCEPT ![w] = @ \ {s}]
    /\ report' = [report EXCEPT ![w].ok = @ + 1, ![w].inserted = @ + Inserted(s, w)]
    /\ UNCHANGED <<wpc, from, taskFailed, searchVars>>

(* An error or a timeout; a write whose answer was lost has taken effect.  *)
StoreFails_Forgotten(w, s) ==
    /\ s \in awaited[w]
    /\ UNCHANGED <<held, tasks>>
    /\ awaited' = [awaited EXCEPT ![w] = @ \ {s}]
    /\ report' = [report EXCEPT ![w].errors = @ + 1,
                                ![w].failed = IF from[w] = 1 THEN @ \cup {s} ELSE @]
    /\ UNCHANGED <<wpc, from, taskFailed, searchVars>>
StoreFails(w, s) ==
    /\ s \in awaited[w]
    /\ Apply(s, w) \/ UNCHANGED <<held, tasks>>
    /\ awaited' = [awaited EXCEPT ![w] = @ \ {s}]
    /\ report' = [report EXCEPT ![w].errors = @ + 1, ![w].failed = @ \cup {s}]
    /\ UNCHANGED <<wpc, from, taskFailed, searchVars>>

(* The three partials of a batch are in: the next batch, or the end.       *)
NextBatch(w) ==
    /\ wpc[w] = "writing" /\ awaited[w] = {}
    /\ IF from[w] + BulkBatchSize > Cardinality(Valid(w))
       THEN /\ wpc' = [wpc EXCEPT ![w] = "done"] /\ UNCHANGED <<from, awaited>>
       ELSE /\ from' = [from EXCEPT ![w] = @ + BulkBatchSize]
            /\ awaited' = [awaited EXCEPT ![w] = Stores] /\ UNCHANGED wpc
    /\ UNCHANGED <<held, tasks, report, taskFailed, searchVars>>

(* Meilisearch takes its tasks in order; nobody waits for one, and one     *)
(* that fails is not reported to anybody.                                  *)
RunTask ==
    /\ tasks # <<>>
    /\ tasks' = Tail(tasks)
    /\ LET t == Head(tasks) IN
       \/ /\ held' = [held EXCEPT !["meili"] = Written("meili", @, t.writer, t.at)]
          /\ UNCHANGED taskFailed
       \/ /\ taskFailed' = taskFailed \cup {Job[t.writer][i].id : i \in t.at}
          /\ UNCHANGED held
    /\ UNCHANGED <<wpc, from, awaited, report, searchVars>>

-----------------------------------------------------------------------------
(* Search.                                                                 *)
DefaultMaxResults == 50
Limit == IF query.max <= 0 THEN DefaultMaxResults ELSE query.max

(* buildQdrantFilter, buildMeiliFilter, buildPGFilters: the same terms.    *)
Matches(s) == {d \in DocIds : /\ held[s][d].version # 0
                              /\ query.team = NoTeam \/ held[s][d].team = query.team}

(* The query is embedded first, unless its text is empty.                  *)
StartSearch ==
    /\ searched.pc = "idle"
    /\ query' \in IndexQueries
    /\ \/ searched' = [pc |-> "searching"]
       \/ ~query'.empty /\ searched' = [pc |-> "failed"]
    /\ UNCHANGED <<upsertVars, lists>>

(* A store answers with documents it holds, ranked in some order, or fails:*)
(* its context has ended, or the caller's had already.                     *)
StoreAnswers(s, answer) ==
    /\ searched.pc = "searching" /\ s \notin DOMAIN lists
    /\ lists' = [t \in DOMAIN lists \cup {s} |-> IF t = s THEN answer ELSE lists[t]]
    /\ UNCHANGED <<upsertVars, query, searched>>
Answer(s) ==
    \E hits \in SUBSET Matches(s) : \E list \in SetToSeqs(hits) :
       /\ Len(list) <= Limit
       /\ StoreAnswers(s, [err |-> FALSE,
                       docs |-> [i \in DOMAIN list |-> [id |-> list[i], copy |-> held[s][list[i]]]]])
StoreSearchFails(s) == StoreAnswers(s, [err |-> TRUE, docs |-> <<>>])

(* fuseRRF. A sum of weight / (k + rank) over the stores, in RRFUnits; a   *)
(* missing or non-positive weight counts as 1.                             *)
Weight(s) == IF s \in DOMAIN RRFWeights /\ RRFWeights[s] > 0 THEN RRFWeights[s] ELSE 1
RankIn(s, d) == CHOOSE i \in DOMAIN lists[s].docs : lists[s].docs[i].id = d
RankedBy(d) == {s \in Stores : \E i \in DOMAIN lists[s].docs : lists[s].docs[i].id = d}
Term(s, d) == IF s \in RankedBy(d) THEN Weight(s) * (RRFUnit \div (RRFConstantK + RankIn(s, d))) ELSE 0
RRF(d) == Term("qdrant", d) + Term("meili", d) + Term("pg", d)

(* By score, ties by id.                                                   *)
Ranked == {d \in DocIds : RankedBy(d) # {}}
Fused == {order \in SetToSeqs(Ranked) :
            \A i, j \in DOMAIN order : i < j =>
                LET a == order[i]  b == order[j] IN RRF(a) > RRF(b) \/ (RRF(a) = RRF(b) /\ a < b)}

(* The copy of a document is the one of the store the map iteration meets  *)
(* first: any of those that rank it.                                       *)
Copies(d) == {lists[s].docs[RankIn(s, d)].copy : s \in RankedBy(d)}

AllFailed == \A s \in Stores : lists[s].err /\ lists[s].docs = <<>>

FinishSearch ==
    /\ searched.pc = "searching" /\ DOMAIN lists = Stores
    /\ IF AllFailed THEN searched' = [pc |-> "allFailed"]
       ELSE \E order \in Fused, copy \in [Ranked -> UNION {Copies(d) : d \in Ranked}] :
               /\ \A d \in Ranked : copy[d] \in Copies(d)
               /\ searched' = [pc |-> "result",
                               docs |-> [i \in 1..Min({Limit, Len(order)}) |->
                                            [id |-> order[i], copy |-> copy[order[i]]]],
                               errs |-> {s \in Stores : lists[s].err}]
    /\ UNCHANGED <<upsertVars, query, lists>>

UpsertNext ==
    \/ \E w \in Writers : StartUpsert(w) \/ NextBatch(w)
    \/ \E w \in Writers, s \in Stores : StoreSucceeds(w, s) \/ StoreFails(w, s)
    \/ RunTask
SearchNext ==
    \/ StartSearch \/ FinishSearch
    \/ \E s \in Stores : Answer(s) \/ StoreSearchFails(s)
IndexNext == UpsertNext \/ SearchNext

IndexSpec == IndexInit /\ [][IndexNext]_indexVars

-----------------------------------------------------------------------------
Copy == [version : Nat, team : STRING]
IndexTypeOK ==
    /\ \A s \in Stores : held[s] \in [DocIds -> Copy]
    /\ wpc \in [Writers -> {"idle", "writing", "done"}]
    /\ awaited \in [Writers -> SUBSET Stores]
    /\ \A w \in Writers : report[w].failed \subseteq Stores \cup {"validation"}
    /\ DOMAIN lists \subseteq Stores

OtherWriters(w, id) == \E v \in Writers \ {w} : \E i \in DOMAIN Job[v] : Job[v][i].id = id
LastVersion(w, id) == Job[w][Max(Of(w, Valid(w), id))].version

(* SPEC-IDX-001, index.go Upsert: a finished call that names no error of a *)
(* store has left every valid document of every batch there, in its last   *)
(* version, unless another writer wrote the same document; Meilisearch has *)
(* it or still has it queued, or lost the task.                            *)
UpsertReportTrue ==
    \A w \in Writers : wpc[w] = "done" =>
        \A i \in Valid(w) : LET id == Job[w][i].id IN ~OtherWriters(w, id) =>
            /\ \A s \in {"qdrant", "pg"} \ report[w].failed :
                  held[s][id].version = LastVersion(w, id)
            /\ "meili" \notin report[w].failed /\ tasks = <<>> /\ id \notin taskFailed =>
                  held["meili"][id].version = LastVersion(w, id)

(* Search (index.go, rrf.go): the call fails only when every store did;    *)
(* otherwise the documents are those of the stores that answered, each     *)
(* once, a document that every store of another one ranks higher is listed *)
(* before it, and nobody's query is answered with another team's document. *)
SearchAnswersTruly ==
    /\ searched.pc = "allFailed" => \A s \in Stores : lists[s].err
    /\ searched.pc = "result" =>
        LET docs == searched.docs
            Listed == {docs[i].id : i \in DOMAIN docs}
            Dominates(a, b) == \A s \in RankedBy(b) : s \in RankedBy(a) /\ RankIn(s, a) < RankIn(s, b)
        IN  /\ searched.errs = {s \in Stores : lists[s].err} /\ searched.errs # Stores
            /\ \A i, j \in DOMAIN docs : docs[i].id = docs[j].id => i = j
            /\ \A i \in DOMAIN docs : /\ docs[i].copy.version # 0
                                      /\ query.team # NoTeam => docs[i].copy.team = query.team
            /\ \A a, b \in Ranked : Dominates(a, b) =>
                  \A j \in DOMAIN docs : docs[j].id = b => \E i \in 1..(j - 1) : docs[i].id = a
            /\ Len(docs) < Limit => Listed = Ranked

(* Upsert's report and Search's answer are true of the stores (index.go).  *)
StoresHonest == UpsertReportTrue /\ SearchAnswersTruly
=============================================================================
