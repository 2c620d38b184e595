# Universal Search: formal models and proofs

TLA+ models of the concurrent and stateful parts of the Go code under
`src/internal` and `src/cmd`, TLC configurations that check them on small
instances, and TLAPS proofs of the results that hold for every value of the
constants. `PROJECT.json` maps every definition to the lines it translates and
lists the runs, the hazards and the theorems; this file says how they fit
together. All paths below are under `src/` unless they name a module here, and
under `src/internal` unless they start with `cmd`.

Contents: 1 inventory, 2 modules and code, 3 runs, 4 fairness, 5 proofs,
6 where code and documents disagree, 7 not modelled, 8 what is left.

## 1. Inventory

How a query travels: an entry point (CLI `cmd/usearch`, HTTP API
`cmd/usearch-api`, MCP server `cmd/usearch-mcp`) calls the search pipeline; the
intent router turns the query into a category and a set of adapters; the fanout
asks all of them at once and merges what comes back; synthesis turns the
documents into a cited answer, perhaps as a stream of server-sent events. A deep
query instead runs a pipeline of agents or expands a tree of sub-queries within
a token budget. LLM calls go through a router over providers; deep calls pass a
cost guard that keeps its counters in Redis. Documents, answers, audit events and
history have stores of their own.

Wired by non-test code today: the fanout (through the orchestrator, the pipeline
and the `query` command), the adapters and their registry, the LLM client (CLI
root), the deep handlers and the MCP server. The streaming synthesis handler is
mounted with a nil client and its heartbeat off (`cmd/usearch-api/main.go:69`).
Library code with tests only: the cost-guard middleware with its pre-screen, the
access cascade, the index and its tenancy, the answer cache, rbac and auth, and
the asynchronous history writer. They are modelled as the code stands.

| Component | State | Operations | Hard part | What makes it correct |
|---|---|---|---|---|
| fanout (`fanout`) | slots per adapter, errgroup pool, gauge | `Dispatch` | a bounded pool that blocks the supervisor, three nested contexts, panics, adapters that ignore cancellation | the result names exactly who answered and who failed; no failure touches a sibling; the pool's bound; the same answers give the same documents; it returns |
| llm (`llm`) | a breaker per provider | `Route`, `Complete`, `Embed`, `Stream` | breakers are consulted long before a call and told long after it; retries; a stream over a bounded channel | a breaker trips when due, holds, is probed and resolves; calls return; a stream has no gaps |
| costguard (`deepagent/costguard`) | counters with a TTL in Redis; the pre-screen's breaker | evaluation script, middleware, `Screen` | lost replies, expiry, retrying clients | caps hold in every window; a ban ends; a broken screen is left alone |
| deepagent | tree of nodes with a shared tracker; pipeline stage and draft; a file per tree | `ExpandTree`, `RunPipelineWithVerifier`, flush and load | siblings reserve and release concurrently; failing levels; verifier retries; crashes around a rename | the budget; breadth first; the draft returned is the one accepted; a reload has no open node |
| access (`access`) | robots cache, browser pool, background upserts | `Fetch`, `Close`, `Shutdown` | five phases that escalate, browsers that break, shutdown during a call | a phase is entered only when earned; browsers are not duplicated or leaked; upserts are drained |
| adapters (`adapters`) | registry with toggles; Reddit's token, arXiv's next slot, the feed's cooldown | twenty kinds of search, `Register`, toggle, probe | cursors of every kind, shared tokens and slots, sub-sources that fail apart | a walk over the cursors gets each item once; an error says whose fault it was; slots keep their distance |
| index (`index`) and tenancy | three stores; token cache with its worker; document payloads | `Upsert`, `Search`, `GetOrIssue`, `Revoke`, injection, filters | stores fail independently; `sync.Once` per key; two filter languages | reports and rankings tell the truth; a revoked token stays revoked; no search of a team shows another's documents |
| answer cache (`idx5`) | answers with age, request LRU, write-backs | lookup, feedback, write-back | feedback after eviction, write-backs nobody waits for | no lookup finds a downvoted answer until it is written anew |
| router and orchestrator (`router`, `orchestrator`, `pipeline`) | request-local | classify, route, shard, dispatch, synthesise | fallback order; what each failure leaves | somebody who speaks the language is asked; documents survive a failed synthesis |
| synthesis, synthcluster, deepreport, `streamsynth`, sse | the connection; request-local | HTTP clients with retries, streams, clustering | a caller that leaves mid-frame; two goroutines on one connection | errors name the attempt that decided them; streams account for themselves; no document lost in clustering |
| audit (`audit`) | events in monthly partitions, hash chain | reconcile, clean up, replay, verify | overlapping polls; a drop and its record | each call in the trail once; only the old and archived is dropped |
| auth, rbac, security | Redis revocation list, policy table, rate windows | middleware, logout, callback, member changes | Redis fails between two commands; servers with stale policies | a revoked token stays out while it lives; members are those the answers say |
| history (`usearch/history`) | JSONL file, buffer | append, list, clear, evict, drain | several processes, crash between truncate and rewrite | only cleared, expired or surplus entries go |
| mcpserver, commands | sessions, daily cap, document cache | tools, shutdown, four query surfaces | concurrent sessions, cap charged before the work | a pipeline that ran was charged once, a call the cap store did not fail is audited once; what a caller is told is true |
| observability, evaluation, shared types, Python services, web, deployment | | | outside the models, see 7 | |

## 2. Modules and the code they model

| Module | Models | Source |
|---|---|---|
| `DocMerge` | deduplication and the stable three-key sort, as folds | `fanout/dedup.go`, `sort.go` |
| `FanoutPromise` | abstract specification: each adapter's fate is settled once, then one reply names them | what `Dispatch` promises |
| `Fanout` | one `Dispatch`: supervisor, workers, contexts, slots, result | `fanout/dispatch.go`, `result.go` |
| `LLMRouter` | breakers, `Route`, `Complete` with retries, `Stream`/`Embed` as breakers see them | `llm/router.go`, `client.go`, `retry.go` |
| `LLMStream` | the goroutine behind one stream | `llm/stream.go` |
| `CostGuard` | the evaluation script, its caller and the middleware | `costguard/lua/cap_check.lua`, `cap_check.go`, `middleware.go` |
| `HaikuScreen` | the pre-screen and its breaker | `costguard/haiku_screen.go` |
| `DeepTree` | one `ExpandTree` with its tracker | `deepagent/tree.go`, `budget.go` |
| `AgentPipeline` | Researcher, Reviewer, Writer and Verifier with retries | `deepagent/orchestrator.go` and the agents |
| `TreeFile` | flushes, crash, reload of `tree.json` | `deepagent/persistence.go` |
| `ReportStream` | the deep handler's modes, the long-form stream and the parser of events | `cmd/usearch-api/handlers/deep.go`, `streamsynth/longform.go`, `synthesis/stream.go` |
| `SidecarClients` | retry loops and error classes of five HTTP clients | `synthesis/client.go`, `embedder`, `deepreport`, `index/tokenizer`, `synthesis/faithfulness.go` |
| `SynthCluster` | near-duplicate clustering: union-find, embedding refinement, representatives | `synthcluster/*.go` |
| `SSEStream` | one streamed answer and its heartbeat | `cmd/usearch-api/handlers/synthesis.go`, `streamsynth`, `sse` |
| `AccessFetch` | concurrent `Fetch`es, robots cache, browser pool, upserts, `Close`/`Shutdown` | `access/*.go` |
| `Adapters` | one search of every adapter: refusals, error category, page, cursor, link | `adapters/*/search.go`, `parse.go` |
| `AdapterWaits` | Reddit's token, arXiv's interval, the feed's cooldown | `adapters/reddit/oauth.go`, `arxiv/search.go`, `reddit_rss/search.go` |
| `KoreaNews` | parallel feeds, the KNC sidecar, Daum, the merge | `adapters/koreanews/*.go` |
| `AdapterRegistry` | registry, admin API, the sources command's probes | `adapters/registry.go`, `api/admin`, `cmd/usearch/sources_cmd.go` |
| `Subsequences` | what filters and stable sorts of a list compute, by position; used by `Adapters`, `KoreaNews`, `SearchPipeline`, `HistoryStore` | the loops that filter and the `sort` calls those modules map |
| `SearchPipeline` | one search on four surfaces: CLI, API, stream, MCP | `orchestrator`, `cmd/usearch/query.go`, `cmd/usearch-api/api_handlers.go`, `mcpserver` |
| `IntentRouter` | rules, LLM fallback, adapter choice; shards of the Korean index and their merge | `router/*.go`, `index/router` |
| `McpServer` | HTTP sessions, `deep_research` with cap and audit, shutdown | `mcpserver/*.go` |
| `IndexStores` | batched upserts to three stores; search, team filter and RRF | `index/index.go`, `dispatch.go`, `rrf.go` and the store clients |
| `Tenancy` | injection of a team, what an upsert stores of it, searches by team and by the two tenancy filters | `index/tenancy/enforcer.go`, `filter.go`, `context.go`, `mode.go`; `index/dispatch.go` |
| `TokenCache` | `GetOrIssue`, the refresh worker, `Revoke` | `index/tenancy/token_cache.go` |
| `AnswerCache` | lookup, staleness, serving, feedback, write-back | `idx5/*.go` |
| `HistoryStore` | the JSONL file under several processes; the asynchronous writer | `usearch/history/*.go` |
| `AuditTrail` | reconciliation, retention, replay, hash chain | `audit/*.go` |
| `AuthGate` | JWT middleware, revocation list, logout, rate limits | `auth/*.go`, `security/ratelimit` |
| `TeamMembers` | servers, administrators and one policy table | `auth/rbac/*.go` |
| `SubsequenceLemmas` | proofs about `Subsequences`, and about folds and flattening of sequences | |
| `FanoutProofs` | about `Fanout`, `DocMerge` | |
| `LLMProofs` | about `LLMRouter`, `LLMStream` | |
| `DeepProofs` | about `DeepTree`, `CostGuard`, `HaikuScreen`, `AgentPipeline`, `TreeFile`, `ReportStream`, `SidecarClients`, `SynthCluster` | |
| `SourceProofs` | about `AccessFetch`, `Adapters`, `AdapterWaits`, `KoreaNews`, `AdapterRegistry` | |
| `IndexProofs` | about `Tenancy`, `TokenCache`, `AnswerCache`, `IntentRouter`, `IndexStores` | |
| `GateProofs` | about `AuthGate`, `TeamMembers` | |
| `SurfaceProofs` | about `SearchPipeline`, `McpServer`, `AuditTrail`, `HistoryStore`; the types of all of `MCService` | |
| `MCFanout`, `MCLLMRouter`, `MCProgress`, `MCCostGuard`, `MCDeep`, `MCSources`, `MCService` | instances for TLC | |

`X_Suffix` next to a definition `X` is a deliberately wrong variant of it, used
to show that the properties notice such a bug. No specification uses one.

How state and actions correspond, where it is not obvious:

**Fanout.** The supervisor (`pc`, `next`) walks the adapter set. `Skip` is the
context check at the top of the loop, `EnterGo` the call of `errgroup.Go`, which
blocks until `PoolHasRoom`; `Return` is the join with the assembly,
deduplication and sorting that follow it. `docs` and `errs` are the code's
per-index slots. `fate` is a history variable: what really became of the
adapter, which the code has to reconstruct from the slots, where an untouched
slot looks like a success without documents. `Stubborn` names the adapters that
may outlive a cancelled context.

**LLMRouter.** `state`, `obs` and `openAge` are the breaker (the observations as
a sequence of ages), `call[c]` what caller `c` is doing. `RouteNext` asks one
breaker under its own lock, so calls interleave inside `Route`; asking an expired
open breaker turns it half-open at once. `Record` prunes, appends, then compares,
or decides the half-open state. A cancelled caller goes on through the remaining
providers and is recorded against each, as `retry.go:80` and `client.go:88` have it.

**LLMStream.** Producer states `next` (reading the provider), `send` (the select
of send, timeout and cancellation), `stalled`, `fail`, `closed`; `ch` is the channel.

**CostGuard.** `Evaluate` is the Lua script: one atomic step that compares, then
charges tenant and user and renews their lives. The reply may be lost. `Tick`
moves time; counters die after `TTL` without a charge. `counted[k]` is the
history of the requests a counter stands for.

**DeepTree.** A node is its path. `Decompose` returns any number of sub-queries
up to `MaxChildren`, which may exceed the breadth, since the code does not
truncate before the check. An error cancels the level's group, so any sibling's
search may fail.

**AgentPipeline.** `stage` is the agent that runs next; each of its actions is
one call of an agent with every outcome it may have, the cancellation check
before it included. A draft carries the attempt that wrote it and the feedback
that attempt was given, so that the property can tell a stale draft.

**TreeFile.** A flush is two steps, the write of the temporary file and the
rename, so flushers and a crash come in between; a file written by two is `Partial`.

**AccessFetch.** `Cascade` runs the phases in order; an attempt has an outcome
and the signal that makes the escalation rules move on. Phase 5 is `waiting` on
the pool, `browsing`, and `refilling` after a broken browser is discarded; the
refill may fail. `Close` and `Shutdown` begin alike (`Begin`); `Drain` ends the
wait of either, `GiveUp` that of `Shutdown` when its deadline passes first.

**Adapters.** The service behind an adapter keeps a list of items and serves it
in pages; an item is kept, kept although the service gave no link, or dropped by
the parser. The rules that differ between adapters (limit, first page, cursor,
the statuses each maps to which category) are operators by source; the caller
follows cursors until there is none.

**SearchPipeline** gives router, fanout and synthesis any answer their own
modules allow; `Fanout` implements `FanoutPromise`, and what the pipeline uses of
it is that promise: some adapters answered, the others are named with an error.

**IndexStores.** A store holds a version and a team for each id. A document is
its position in the writer's job, a batch the set of the next valid positions
(`Ordinal` counts them). Meilisearch queues a batch, `[writer, at]`, and indexes it
later (`tasks`), and may lose it (`taskFailed`). A score of the rank fusion is
counted in units of 1/`RRFUnit`, a common multiple of the denominators, so that
every quotient is exact.

**TokenCache.** A caller's steps are the critical sections of `GetOrIssue`; the
Onces a triplet ever had are numbered, since callers may still hold an old one.
`revoked` and `before` are histories: what a `Revoke` found, and what had been
revoked when a call began.

**Tenancy.** A document has the team its metadata claims until `InjectTeamID`
replaces it; `home` is a history variable, the team it was injected with. `Upsert`
stores what the metadata then has, in Qdrant only. Since nothing in the repository
calls `InjectTeamID`, `EnforceSearch` or the tenancy filters outside tests, the
caller may take these steps in any order and leave any of them out.

**HistoryStore.** An append, the read that decides what is kept, the truncation and
the flush of a rewrite are four steps, so another process or a crash comes in
between; the flush is one, as the buffer is flushed once (entries of more than a
buffer's 4 KB go out in several writes, which the model joins). Ids count the
entries, and `born` has the day of each. **AuditTrail**: `Reconcile` looks
each request up and inserts it in two steps; a cleanup reads, archives, drops and
records a partition in four. **AuthGate**: `SADD` and `EXPIRE` are two calls,
each of which may fail. **TeamMembers**: a change is a row, then a rewrite of the
table from the server's memory.

## 3. Runs

TLC, two workers, each under five minutes. Deadlock is checked only in
`sse_torn` and `costguard_window`, whose specifications always have a step; the
other systems stop by design when their calls have returned.

| Run | Module | Properties |
|---|---|---|
| `fanout_dispatch` | `MCFanout` | types; `InflightBounded`; `ResultIsTruthful`; `ResultDocsCanonical`; `ImplementsPromise` (refinement of `FanoutPromise`); `Terminates` |
| `llm_breakers` | `MCLLMRouter` | types; `TrippedWhenDue`; `OpenHolds` |
| `progress` | `MCProgress` | `StreamDelivers`; `TokensSound`; `OpenIsProbed`; `LLMReturns`; `ExpiredIsRenewed` |
| `deep_research` | `MCDeep` | types; `CapHolds`; `RecentCounted`; `TreeBudget`; `DraftKept`; `BreakerOpens`; `SynthesisSound`; `NobodyWaitsForEver` |
| `sources` | `MCSources` | types; `FetcherAccounted`; `PhasesHonest`; `AdaptersSound`; `WaitsSound`; `SiblingsIndependent`; `CallsReturn` |
| `service` | `MCService` | types; `SurfacesHonest`; `StreamWellFormed`; `RoutingSound`; `StoresHonest`; `TenantIsolation`; `FeedbackRespected`; `HistoryKept`; `TrailSound`; `AccessSound`; `SessionsDistinct` |
| `llm_half_open` | `MCLLMRouter` | `HalfOpenResolves` is violated, see 6 |
| `costguard_window` | `MCCostGuard` | `RefusedOnlyAtCap` is violated, see 6 |
| `deeptree_committed` | `DeepTree` | `CommittedWithinBudget` is violated, see 6 |
| `access_close` | `AccessFetch` | `NoUpsertAfterClose` is violated, see 6 |
| `sse_torn` | `SSEStream` | `NoTornEvent` is violated, see 6 |
| `audit_late_poll` | `AuditTrail` | `LatePollCatchesUp` is violated, see 6 |

**Why some runs hold several parts.** `MCDeep`, `MCSources`, `MCService` and
`MCProgress` put the modules of one side of the system into one instance. In the
models those parts share no variable (a search sees the fanout as its promise,
`deep_research` the cap as one atomic step), so the product of their behaviours
would repeat each of them many times and say no more than each alone. A
behaviour therefore picks a part, the constant variable `focus`, and runs that
part only; the parts out of focus keep one initial state. A property that joins
several names (`SynthesisSound`, `TrailSound`, ...) is the conjunction of one
property per part, each stated and commented in its module.

**Bounds**, and why they are enough for the questions asked:

- *Fanout.* Four positions over a pool of two: the supervisor blocks with
  launches left, and both places can be held by the two stubborn adapters. One
  name is unknown to the registry. `PerAdapterTimeout` 2 lies between the parent
  deadlines 1 and 3 and none. `MaxNow` 4 is past every deadline that can bind.
  Replies overlap in a key so that deduplication across adapters matters.
- *LLMRouter.* Two callers are what a breaker needs to hear a late outcome; two
  providers give a first choice and a fallback. `Window` 2 > `OpenTimeout` 1 keeps
  the code's order (60 s, 30 s). `MinSamples` 2 (code: 10) keeps a tie, a strict
  majority and too few samples apart; `MaxObs` caps the traffic per window. Ages
  are capped one past the last value any guard compares with, so time is
  unbounded. `MCProgress` uses one class and the kind whose outcomes are
  recorded, to afford the liveness checking.
- *LLMStream.* Four chunks over a channel of two (code: 16): the channel is
  empty, half full, full, and wraps.
- *CostGuard.* Four requests, of which two (`FewLost`) may meet a failing Redis
  or lose their answer, two tenants and a capped user with requests in
  both; at 7 usd a call the tenant's calls and the user's usd are what binds, and
  either may refuse first; `TTL` 2 lets a counter be renewed once and still
  expire. `FailOpen` is FALSE, as the caps are promised only then.
  `costguard_window` uses `TTL` 3, enough for a request to leave the window while
  its counter lives on.
- *DeepTree.* Breadth 1 with up to two sub-queries per answer over two levels:
  concurrent siblings, over-production, reservations derived from the parent's
  tokens. Budget 8 is tight enough that both caps refuse nodes.
- *AgentPipeline.* `MaxRetries` -1 (the environment may give any number), 0, 2.
- *TreeFile.* Two flushers, three flushes: overlapping and consecutive, with a
  crash between any two steps.
- *HaikuScreen.* Three concurrent calls over a breaker that opens at two
  failures: all three may be in flight through the half-open state.
- *ReportStream.* An empty report, one with a section none of whose citations
  resolve, one with an empty section; the caller leaves, or the connection
  breaks, before or inside any frame.
- *SidecarClients.* Every status the clients tell apart, two retries (as in the
  code), one call at a time, since calls share nothing.
- *SynthCluster.* Four documents, every relation of near pairs, every subset
  with vectors: chains and triangles, a group that the refinement splits.
- *AccessFetch.* Two calls to one host and one browser: one waits while the
  other holds, breaks or replaces it. Only the first call has options or a context
  that ends, not both, and the robots entry expires while that call is past it
  (`FewExtras`), which keeps the instance small; the proofs are without them.
- *Adapters.* All twenty sources; corpora up to six items, and every mixture of
  kept, unlinked and dropped ones up to three; a default of 2 and a cap of 4
  (code: 25 and 100) with limits asked of 0, below, between and above both.
- *AdapterWaits.* Three callers, three tokens: a caller that drops the fresh
  token of another. Interval and cooldown 2, requested delays below and above.
- *KoreaNews.* Two feeds, one at a time in flight, two articles under plain and
  tracked addresses.
- *AdapterRegistry.* Three sources, one needing a key it lacks; one
  administrator with one request, beside the probes; searches reach one adapter
  (`OneSearched`), which alone may fail, panic or hang.
- *SearchPipeline.* One run: runs share only the document cache and the history,
  which only grow; two adapters, answers with resolvable, dangling and repeated markers.
- *IntentRouter.* Hangul shares around 10, 30, 40 and the threshold of the rules;
  four adapters of which one is a generalist; titles up to 12 runes with tags of
  two, seven and ten letters (`ko`, `zh-Hant`, `zh-Hant-TW`): the document's ratio
  counts the tag, the query's does not, and seven is the last length at which the
  two cannot part.
- *McpServer.* Two clients, two sessions; three calls over a cap of one.
- *IndexStores.* Two writers of one document in batches of one and at most two
  failing writes (`FewFailures`); the search is checked over every small filling
  of the stores instead of those two writers leave. `RRFUnit` is 3782 = 61 * 62,
  the denominators of two ranks.
- *Tenancy.* Two teams, two members, two documents, with and without metadata and
  claims, three modes, no default team; contexts may carry the public sentinel.
  A behaviour ends with its search (`OneSearch`): a search leaves the documents
  alone, so every filling of the stores is still searched in every way.
- *TokenCache* (in `MCProgress`). Two callers, three issues, two Onces, one `Revoke`; a life of
  two ticks with a margin of one.
- *AnswerCache.* Two requests of two teams, one place in the LRU.
- *HistoryStore.* Two processes, three entries over a limit of two; three days
  under a retention of two, so that entries of the first day expire while those of
  the next do not; a buffer of two.
- *AuditTrail.* Two pollers, one call, five minutes; two months, and a retention
  longer than a month; three links of the chain, in behaviours without rows of the
  trail (`RowsOrChain`), of which the chain's steps read nothing.
- *AuthGate.* One token, two handlers and three requests, so that one may follow
  two logouts that overlapped; three seconds, every mode and failure mode, a
  callback limiter with and without Redis. *TeamMembers.* Two servers, two administrators, two
  changes, a roster of three entries.

What the less obvious properties say:

- `ResultIsTruthful`: an empty slot reads as success, so every path that leaves
  a slot untouched would be reported as one. The property compares with `fate`.
- `ResultDocsCanonical`: the documents depend on who answered what, never on who
  answered first. The reference is declarative (`FirstOccurrences`,
  `IsStableArrangement`), not the fold.
- `Terminates` is conditional: an adapter that ignores its context is assumed to
  answer in the end, and not after its own deadline. Otherwise `Dispatch` waits
  for it, and the property says that nothing else can hold it.
- `CapHolds` counts admitted requests over a sliding window of length `TTL`,
  while the code keeps one counter with a renewed life. `RecentCounted` is why it
  works: expiry can only forget what left the window.
- `TreeBudget` has, for the bound on what was used, the premise that no node uses
  more than it reserved; the code cannot prevent that, it can only account for
  it. That the tracker covers what the nodes hold is unconditional.
- `DraftKept`: its part about the file is about flushes that do not overlap;
  overlapping ones may leave a torn file, see 6.
- `PhasesHonest` reads the whole history of attempts: no GET without robots
  permission or an explicit skip, no browser without two refusals that asked
  for one.
- `AdaptersSound`: a walk over the cursors may end early only before an item
  the adapter drops, which is what the code does; see 6.
- `HistoryKept` holds while commands run one after the other and to their end
  (`disturbed` remembers otherwise), `TrailSound` while polls do not overlap, and
  `AccessSound`, for members, while no server writes from a stale memory: a save
  that overwrites another server's (`enforcer.go:180`) is in the model, and since no
  document promises otherwise nothing is stated of the table after one. The
  interleavings outside are in the models; what they lead to is in 6.
- `HistoryKept`: an entry that is missing was, itself, written at least
  `RetentionDays` ago, or older than the cutoff of a completed Clear, or has
  `MaxEntries` newer ones. Of the asynchronous writer it says that what was
  accepted was given to the backend; a write the backend fails is logged and gone
  (`async.go:82`, `:93`), and named so.
- `FeedbackRespected` is about lookups: a hit found before the vote may still be
  served after it, and any write-back lifts the mark, one of the answer voted down
  included when it was begun before the vote. Its part about the LRU is that a vote
  reaches the answer its request was served.
- `DeepAccounted` (in `SurfacesHonest`): when the cap store fails, its script may
  have run and its reply be lost (`deep_research.go:72`). Such a call ends as an
  internal error without an audit line, perhaps charged; all others have one line,
  and each pipeline that ran was charged once.
- `LimitsHold` (in `AccessSound`): a fixed window lets through up to twice the
  limit in a sliding one. It is about a limiter without Redis; with it there is no
  limit, see 6.
- `SidecarTruthful` is about the code's own rule of what is retried; where comments
  promise another one, 6 has it. `EarnedPhases` (in
  `PhasesHonest`) leaves out the escalations about which the documents and the
  table of SPEC-CACHE-001 3.4 disagree, and `ErrorsTellWhoseFault` (in
  `AdaptersSound`) the responses of 6 whose category is another than the rest's.

## 4. Fairness

| Specification | Assumed | Because |
|---|---|---|
| `Fanout` | weak, for the supervisor, the clock, and per worker its start, its return once its context is done, and its exit | runnable goroutines are scheduled, timers fire; adapters that respect contexts return. An adapter's own answer is not assumed, nor cancellation |
| `MCProgress`, router | weak, for routing, for the end of an attempt and for the clock; strong, for a caller to start a call of each class | HTTP attempts have timeouts. That callers keep calling is an assumption on the load that only `OpenIsProbed` needs; strong because starting is enabled only between a caller's calls |
| `MCProgress`, stream | weak, for the producer | its waits end by a timeout, a read or the cancellation |
| `MCDeep`, caps | weak, for time only | a ban must end whatever the clients do |
| `MCDeep`, tree | weak, for every step of the loop and every node's expansion | agent calls carry a timeout; the loop waits for a group whose members all end |
| `MCSources`, fetcher | weak, per call: the cascade's next step, the end of waiting for a browser, the browser's steps, the upsert; and for `Drain`, never `GiveUp` | every phase runs under its own budget and upserts carry a timeout; `Close` has no deadline and must end by itself |
| `MCProgress`, tokens | weak, for the refresh worker's start and end | the worker's ticker fires and its HTTP client has a timeout. Callers are not assumed to come back |

## 5. Proofs

Checked by TLAPS for every value of the constants that satisfies the `ASSUME` of
the modules concerned, with no obligation left open. No proof limits the
constants to the sizes of section 3: where a composite specification (`DeepSpec`,
`SourcesSpec`, `ServiceSpec`) restricts its parts, the theorem is about a
specification with more behaviours or about that one, as its statement says. Each
module is laid out alike: the invariant and what its parts say, a lemma per action
(or group of actions), one that the invariant gives the property, the theorem.

Every invariant and every action property that a passing run checks is stated by
a theorem; only what needs fairness is left to TLC.

The assumptions are types, positive sizes and durations where the code validates
or defaults them, and TLC evaluates all of them on every run. Those that say more:

- `RepliesAssumption`, `PipeAssumption`, `ReportAssumption`, `AdaptersAssumption`:
  answers, texts, reports and corpora are sequences of what the models say they
  hold, and scores, ranks and times are numbers;
- `KoreaNewsAssumption`: at least one feed, numbered from 1, as the configured list is;
- `ClusterAssumption`: at least one document, since an empty list returns at once;
- `TenancyAssumption`: neither the empty name nor the public sentinel is a team's
  name; the configured default team is a team or one of these two, of which the code
  refuses the sentinel at its start;
- `AnswerAssumption`: somebody may ask something;
- `IndexAssumption` (its last conjunct on `NoTeam`) and `TeamNames`: that literals
  are strings, which is true of any but has no rule in the prover.

**`SubsequenceLemmas`**. A filter keeps the positions of a set in their order, a
stable sort puts an element behind those the comparison puts before it; both
number a finite set of positions by counting the members before each
(`Numbered`). `NumberedRanks` is what everything rests on: the counts of two
members differ and are less than the size, so they are an injection between finite
sets of one size and hence onto, which needs no induction. `KeepAtIs`,
`KeepAtOnly`, `KeepAtAppend`, `FirstPlacesAre`, `SortedByIs` say what a filter
returns, that nothing else is that, how it grows with the sequence, which elements
the first places hold, and that the sort is a stable permutation. The library's
`FoldLeft` and `FlattenSeq` are defined by recursive functions over subsets or
prefixes, whose equations are shown to have a solution (`FoldExists`, by the least
number of positions without one).

**`FanoutProofs`** (a non-empty sequence of adapters without repetitions, a
positive pool and timeout: `New` replaces other values by defaults). `IInv ==
TypeOK /\ SlotMatchesFate /\ Progress`. `ResultIsTruthful` alone says nothing
until the result exists; `SlotMatchesFate` carries the argument through the run:
an index is settled exactly when its worker returned or the supervisor skipped
it, has an error exactly when it failed, and indices from `next` on are
untouched. `TypeCorrect`, `Truthful`, `PoolIsBounded` (with `Gauge`, relating the
counter to the set of busy workers), `WrittenOnce`, and `Refinement`: every step
settles one index or stutters, and `Return` maps to the abstract reply.
`Canonical`: when the result exists the slots hold exactly what the answering
adapters returned, so the merged list is the concatenation of their answers in
the order of the adapter set, whoever came first. Of that list the fold of
`dedup.go` keeps the first occurrence of each key (its state after k documents is
the set of keys and of first places up to k) and the insertion of `sort.go` is a
stable permutation, the one `IsStableArrangement` asks for.

**`LLMProofs`** (positive window and samples; any number of chunks, any capacity).
`RouterInv == BreakerInv /\ CallInv /\ OpenAges`: observations are in the order
they were made, the oldest first, none older than the window unless all but the
last of them wait to be pruned, and a closed breaker is below the threshold. That
order is what makes pruning a prefix remove exactly the old ones. `Tripped`,
`HeldOpen`, `RouterTyped`. For a stream, `SInv` counts what is in the producer's
hand and orders what was delivered: `Delivers`.

**`DeepProofs`**
- *CostGuard* (finitely many requests, positive cost and life, natural limits with
  0 for none). `IInv == TypeOK /\ CountersExact /\ RecentCounted /\
  CountedEvaluated /\ CountersBounded`: the counters are exact for a ghost set of
  requests, every admission of the last window is in that set, a counter is never
  idle for longer than any request in it has been waiting (which is why expiry
  forgets nothing recent), and the script never lets a counter pass its cap.
  `TypeCorrect`, `NothingForgotten`, `CapsHold`.
- *HaikuScreen* (any number of concurrent screenings). `BreakerInv`: a closed
  breaker has counted at least the failures since the last answer and fewer than
  the limit; one that is not closed has counted the limit, which a late failure
  cannot take back. `Opens`.
- *AgentPipeline* (any integer for `MaxRetries`). `PipelineInv` says for each stage
  what the log and the draft look like: before the Writer runs again the last
  entry is a rejection, and the draft in hand is the one of the last attempt with
  the feedback of the attempt before. `Accepted`.
- *TreeFile* (any nodes and flushers). `TreeFileInv`: what a file or a flusher holds
  agrees with memory about every node that has ended (`Agrees`), since ends are
  final; without overlap one flusher is under way at a time (`OneFlush`), so the
  temporary file is torn only while that one writes, and never when renamed.
  `Readable`; both together, over the composition, are `DraftsKept`.

- *DeepTree* (depth 1 to 5 and breadth 1 to 8, as `New` validates them; any
  budget and number of sub-queries). `TreeInv == TreeTypes /\ TreeLevels /\
  TreeSums`: only the level being expanded holds nodes that may change; the used
  total is the sum of the nodes' tokens, the reserved total covers the nodes in
  flight, and, as long as no node passed its reservation, both sums together fit
  the budget. The sums are folds over a set of nodes; what is needed of them (one
  element added, taken out or changed) is proved from the recursive function
  behind the fold, by a smallest counterexample instead of an induction.
  `BudgetHeld`.
- *ReportStream* (any reports, sections and citations). `ReportInv`: the frames
  on the wire end where the handler stands, sections before its own are whole and
  closed in order, later ones not begun, and its two counts are the cardinalities
  of the sentence frames sent, of the section and in all.
- *SidecarClients* (any number of retries, any answers). `SidecarInv`: until a
  call returns there is one entry per attempt made, and each of them brought
  something its client retries; what a call returns is named after the last.
- *SynthCluster* (any finite number of documents, any near pairs, vectors and
  ranking). The union-find is a function of parents; `Rooted(u, cl)` says that
  `cl` is its root function, which path halving keeps and a union turns into the
  merge of two classes, whatever ranks say. After all pairs the classes are the
  connected components (`Components`), by the closure of the relation on one
  side and by the least class that is closed on the other; the refinement splits
  groups the same way. `ClusterInv` carries this from step to step.
- The last three together are `Synthesised`. `DeepTyped` states the types of all
  eight parts; beyond the invariants above it needs that the breaker's failures
  and the screens in flight are at most the screens begun, that the tracker's
  count is the number of nodes counted, and that a reader is not ahead of the wire.

**`SourceProofs`**
- *AccessFetch* (any number of concurrent calls and browsers). `AInv == Types /\
  (\A f : CallOK(f)) /\ PoolOK /\ OwedOK`: where a call stands agrees with the
  attempts it recorded (`Placed`), every attempt but the last asked for the next
  (`Climbed`), a result belongs to the last attempt (`Settled`); browsers in the pool
  and with calls are at most the maximum; what is owed to a drain is running or
  drained. `FetchInductive`, `Accounted`, `Honest`.
- *AdapterWaits* (any callers, tokens and interval). `RedditInv` says for each stage
  of a search how many tokens it used, which are refused, and that one back for
  another token finds none or a later one; `ArxivInv` that the next slot lies an
  interval behind every booked one. `Spaced`.
- *AdapterRegistry* (any sources, administrators and requests). `ProbeInv`: a place
  of the report is pending or what its own source makes of it, and the toggles were
  read once, at the start. `ProbesIndependent`.
- *Adapters* (any corpus, limits and page sizes, every kind of cursor).
  `WalkInv`: what the caller has is exactly the kept items up to some place of the
  list, once each and in order, and that place is where the next cursor starts
  or, when the walk is over, one where it may end. `ErrorInv`: an error's category
  is one the last response may be given.
- *KoreaNews* (any number of feeds, at most as many in flight as configured).
  `NewsInv`: each feed's slot holds what that feed answered and nothing before;
  the articles gathered are those of the sub-sources that answered, and without an
  error either one of them succeeded or none that was tried failed. Together with
  the walks of *Adapters* that is `SearchesSound`.
- `SourcesTyped`: the types of the five parts; the rest is that cursors are of
  their source's kind, that token numbers and clocks stay within their bounds, and
  that what the report and the admin API answer names registered sources.

**`IndexProofs`**
- *Tenancy* (any teams and members, any path of a document to the stores).
  `TenancyInv`: the team a document carries is the one it was injected with, or
  none, or what it claims as long as it was not injected (`Owned`); lemma
  `SameFilter` that the filters of the two query languages are the same conditions.
  `Isolated`.
- *TokenCache* (any callers, tokens, Onces, revocations). `TokenInv`: a caller that
  issues runs its Once and no other caller does; nothing revoked is in the cache.
  `TokensKept`.
- *AnswerCache* (any requests, teams, capacity). `MappingInv`: the LRU has no key
  twice and its entry is the answer the request was last given, which goes through
  removal, insertion in front and ageing of a sequence; `StaleInv`: an answer voted
  down is forced to be stale until it is written again. `FeedbackKept`.
- *IntentRouter* (shares of Hangul in steps of five hundredths, scores as integers
  of the model's unit). `RouteInv`: a decision still open has rules that were
  unsure. The shards a document is filed in and those a query looks in meet by
  arithmetic on the two ratios (`ShardsIntersect`); the merge by ranks, since the
  first of a list adds 62 parts and every other at most 61 (`BestRank`).
  `RoutingKept`.
- *IndexStores* (any writers, jobs, batch size, weights; any common multiple as
  unit). `UpsertInv`: for a document that is a writer's own, Qdrant and PostgreSQL
  hold the last version of what the writer has `Reached`, unless the store is
  reported as failed, and Meilisearch holds it or the last task with the document
  says it (`Comes`), unless a task with it was lost. `AskInv`: a list has no
  document twice and only what its store held for the team. A document every store
  ranks higher has the larger sum, as a better rank has a larger exact reciprocal
  (`BetterRank`, `MoreScore`), so it comes first and is cut off last. `StoresKept`.
- The types of these parts (`TenancyTypedStep`, `RouterTypedStep`,
  `AnswerTypedStep`, `StoresTypedStep`) are lemmas, put together in `ServiceTyped`.
  What they need beside the invariants: a score is between 0 and 1 and the winning
  category a category, a stamped team is a known one, a stored copy is one of a job.

**`GateProofs`** (over `ServiceSpec`). `MemberInv`: unless a stale server has written,
a server that misses no change remembers the table and the table has what was last
given or taken. `ListInv`: a request about to set an expiry has put its token on the
list, and a key lasts as long as its token or for ever. `WindowInv` bounds the calls
of the current and of every earlier fixed window, hence two limits in any sliding
one; `BucketInv` bounds what was let through since any second by what the bucket
held and was refilled; of a limiter with Redis
`WindowInv` has the types only. `AccessKept`. The types of both parts, with the counts of
requests and of changes within their bounds, are lemmas for `ServiceTyped`.

**`SurfaceProofs`** (over `ServiceSpec`). `SessionInv`: numbers handed out but not yet
entered are distinct, unused and below the counter: `SessionsKept`. `SearchInv` says
what a run may have shown and recorded at each stage, `DeepInv` that the counter is
at least the number of pipelines that ran, and larger by no more than the calls the
cap store failed, and that an ended call of the others has its one audit line:
`AnsweredHonestly`. `AuditInv == ReconcileInv /\ RetentionInv /\ ChainInv`: polls
that do not overlap are alone, one about to insert has seen no row, and a call
logged before the last poll is settled or in that poll's hands; what is gone was
old and archived when read, and still is; an unaltered chain has the hash of its
prefix at every link, and an altered one keeps a link that does not. `TrailKept`.

`StreamsInv`: what was streamed is, for some n, the first n sentences of the
answer, each with its resolved citations right behind it and nothing twice; n is
where the run stands, and all of them when it says it is complete. One more
sentence keeps that, because its distinct markers are first places of a filter.
`StreamsResolve`. `HistoryInv`: as long as the commands have not overlapped or
been cut off, one process is at work, and the file at rest (or the list it kept,
between truncation and flush) holds each entry at most once, none that was
cleared, and misses only what was cleared, is too old, or has at least
`MaxEntries` newer ones; `EvictKeeps` is that filtering and sorting lose nothing
else. `AsyncInv`: what was written or is buffered, in order and once and without the
late ones, is what was accepted and did not fail. `HistoryHeld`.

`ServiceTyped` states the types of all ten parts over `ServiceSpec`: the
invariants of `IndexProofs`, `GateProofs` and this module give most; the rest is
that only registered adapters are asked and only their documents found
(`PipeTyped`), that sessions and charged calls stay below their bounds
(`McpTyped`), that every line of the history's file has an id that was given out,
in any interleaving of processes and crashes (`KnownLines`), and that the buffer
never passes its size. The index's types hold of both its initial states, the
empty stores and the filled ones.

The composite statements follow where a composition is a disjunction of its parts'
steps, each leaving the others' variables alone. Not stated by any theorem, and
only model-checked:

- everything under fairness (`Terminates`, `OpenIsProbed`, `LLMReturns`,
  `ExpiredIsRenewed`, `NobodyWaitsForEver`, `CallsReturn`) and with it `ENABLED`:
  the prover has no rules for them.

Not shown either way: that the models are what the code does. That is what the
map, the mutants of the runs and section 6 are for.

## 6. Where code and documents disagree

Shown by a run:

- **A half-open breaker can stay so for ever** (`llm_half_open`). `Route` asks
  all breakers before any provider is tried (`llm/router.go:187`) and asking is
  what turns one half-open. If the earlier provider answers, nothing reports to
  the other's breaker, and every later call skips it. SPEC-LLM-001
  (`spec.md:131`) has it close or re-open on its probe.
- **The 24-hour count never slides** (`costguard_window`). Each admitted call
  renews the life of the whole counter (`cap_check.lua:47`), so a tenant that
  calls at least daily is eventually refused for requests of long ago.
  SPEC-DEEP-004 (`spec.md:220`) speaks of a 24 h sliding window.
- **Used tokens stay reserved** (`deeptree_committed`). `ReleaseOnComplete`
  (`budget.go:114`) gives back the reservation minus what was used, and adds the
  latter to the used total: it counts twice, and used + reserved passes the
  budget that SPEC-DEEP-003 (`spec.md:520`) says it never exceeds.
- **Upserts after Close** (`access_close`). `Fetch` looks at the shutdown
  channel on entry only (`cascade.go:41`); one in progress starts its
  write-through (`cache_writethrough.go:35`) after the drain.
- **Torn events** (`sse_torn`). `StreamSynthesize` makes a second `Writer`
  (`streamsynth.go:95`), so sentences and heartbeats lock different mutexes,
  against SPEC-SYN-004 (`spec.md:231`).
  That needs a handler whose heartbeat is on; `main.go:69` builds it off.
- **A late poll leaves a gap** (`audit_late_poll`). The window ends at now and
  begins an interval and a minute before it (`litellm_reconcile.go:49`), not a
  minute before the last run as SPEC-AUTH-003 (`spec.md:169`) has it.

In the models, so that the properties leave them out or say less than the document,
but without a run of their own:

- **Other server errors are retried.** The reporter's client wraps
  every status it has no name for as unreachable and sends it again
  (`deepreport/client.go:181`), where its comment (`:154`) says that only 503 is.
- **A failed probe ends the fetch.** A network error of the HEAD
  request fails phase 2, which escalates after a success or a skip only
  (`escalation.go:30`); `phase2_probe.go:85` says it escalates to phase 3.
- **GitHub's cut connection is permanent.** An EOF anywhere in the
  error's chain is taken for a malformed body (`github/client.go:147`); SPEC-ADP-004
  (`spec.md:396`) wants a connection error to be unavailable.
- **An upsert stores the team its caller claims.** `Upsert` copies
  `Metadata["team_id"]` (`index/dispatch.go:309`) and never injects; SPEC-IDX-004
  (`spec.md:225`) does not let the caller set it.
- **Overlapping commands lose entries.** A rewrite drops what
  another process appended since it read the file (`jsonl.go:223`); SPEC-CLI-002
  (`acceptance.md:720`) has both entries in the file.
- **A limiter with Redis limits nothing.** `allowRedis`
  (`callback.go:59`) returns true; SPEC-AUTH-001 (`spec.md:214`) has a sliding window in
  Redis, and the comments at `callback.go:25` and `:61` that or the window in memory. A
  test names the stub's behaviour as that of v1 (`phase_ef_test.go:408`).

Met while modelling, in the models where state is concerned, without a run:

- *fanout, pipeline*: the default deadline is stored (`fanout.go:45`) and never
  read, though `options.go:82` promises it; the API answers 200 with nothing when
  every adapter failed, where the command exits with 2; a command that times out
  after the fanout drops the documents it had; `/query/stream` is built without a
  synthesiser; a failed synthesis returns documents beside an error
  (`orchestrator/search.go:142`).
- *llm*: a stall's error delta is always dropped (`stream.go:51` against `:23`);
  the last send has no timeout (`stream.go:78` against `:27`); the late outcome of
  an older call decides a half-open state (`router.go:94`); a cancelled caller
  counts against the providers (`retry.go:80`, `client.go:88`).
- *costguard*: a refusal by the user's cap leaves the tenant charged
  (`cap_check.lua:62` against SPEC-DEEP-004 `spec.md:286`); a user limit of 0
  calls switches the usd limit off too (`cap_check.lua:73`); the pre-screen's
  half-open state admits every request (`haiku_screen.go:209`).
- *deepagent*: the node cap is compared with a count that grows when nodes
  finish, so an over-producing level passes it (`budget.go:82`); one child's error
  cancels its siblings' searches (`tree.go:155`); a negative `MaxRetries` yields a
  result without draft or error (`orchestrator.go:179`); all flushes of a run share
  one temporary path (`persistence.go:232`), so overlapping ones may leave a torn
  file (against NFR-DEEP3-008), and a node's transition rewrites the file with
  that node alone.
- *access*: an index hit is written back under a new id (against
  REQ-CACHE-009); a failed launch shrinks the browser pool for good
  (`phase5_browser.go:119`); a network error on robots.txt is cached as disallow
  for a day; a deadline in phase 3 or 4 is labelled failure (against REQ-CACHE-007).
  Documents disagree with each other about some escalations, and no property judges
  them: REQ-CACHE-004(h) of SPEC-CACHE-001 (`spec.md:479`) and a test named for it have
  a plain 5xx go on to phase 4, which the sentence after it and the table of 3.4 do
  not; the test that REQ-CACHE-011 names has a panic of phase 3 go on to phase 4,
  where `shouldEscalate` ends the cascade; `escalation.go:28` describes the probe's rule more widely than the code.
- *adapters*: GitHub's 429 without rate limit headers is permanent; every status of
  Reddit's token endpoint but 401 and 403 is unavailable, 429 and 404 included
  (`oauth.go:121`); YouTube reads the body before it looks at the status, so a broken
  body hides a 404 or 429 (`youtube/search.go:159`); GitHub, Hacker News, Reddit, YouTube and Bluesky lose their cursor
  when the items they drop were the last of a page; YouTube may refuse the cursor it
  hands out; Bluesky's session is never renewed; DataLab's documents share one
  URL; Reddit's `invalidate` drops another caller's fresh token (`oauth.go:76`)
  and its mutex is held over an HTTP call; the Korean news adapter returns nothing
  of what it has when the caller's deadline passes (against SPEC-ADP-009:415);
  toggling is answered from a second look under another lock, and nobody consults
  the toggle when dispatching (`registry.go:175`); the admin API's audit handler
  panics without a querier.
- *index*: stores fail softly, batch by batch (`index.go:296`); which copy of a
  document RRF shows is the first in map order (`rrf.go:34`); a Once stays done
  after a success, so until the worker renews it callers get an expired token
  (`token_cache.go:89`), a waiter of a failed issue gets neither token nor error
  (`:118`), and the worker's refresh stores a new token for a triplet revoked
  meanwhile (`:171`); a team-shared document has no user id, which the filter of a
  named user does not match; no document's user id reaches a store at all (null in
  v0.1, though `InjectUserID` writes it to the metadata, or leaves the caller's there),
  so a tenancy filter that names a user finds nothing; PostgreSQL and Meilisearch hold
  no team, so a search by team finds Qdrant's documents only; a search without a team
  shows everything outside the enforced tenancy filters; `InjectTeamID` without
  metadata does nothing, and it takes the public sentinel as a team
  while the filters refuse it (`enforcer.go:23`, `filter.go:21`); the ratio that
  files a document counts its language tag as text (`index/router/shard.go:43`, where the
  comment at `:24` has the title alone), so a tag of eight letters or more may file
  it under default only while a query with its title reads only ko.
- *answer cache*: feedback for a request the LRU no longer has is accepted and
  lost (`feedback.go:111`); a write-back in flight when its answer is voted down
  stores it anew, unmarked; the wait group may grow during its wait.
- *history*: a crash or another process between truncation and rewrite loses
  entries (`jsonl.go:223`); a line above 64 KB blocks reading and eviction
  (`jsonl.go:167`); a second `Close` panics and a write after the drain stays in
  the buffer (`async.go:46`, `:55`); an entry the backend fails to write is logged and
  lost (`async.go:82`); `History.Enabled` is ignored.
- *audit*: two reconcilers insert a call twice (`litellm_reconcile.go:76`); the
  cleanup compares a month's first day with the cutoff (`cleanup.go`), so up to a
  month of younger events goes with it; nobody sets `archived_at`; a partition is
  dropped before its event (`cleanup.go:63`); the counter of emitted events grows
  on failed inserts (`store.go:68`); `MaskQueryText` changes the caller's map;
  replay checks and submits nothing.
- *auth, rbac*: a logout answers success although its `SADD` failed, and a key
  whose `EXPIRE` failed lives for ever; the callback's "sliding window" is fixed
  (`callback.go:10`); a server with a stale policy overwrites the table with it
  (`enforcer.go:180`), and answers 500 for a change that is stored;
  `GlobalEnforcer` hands out the enforcer without its lock (`enforcer.go:115`).
- *synthesis, clients*: a deadline is a timeout in one place and unreachable in
  another (`types.go:66`, `client.go:139`, `:263`); the embedder never returns its
  own `ErrSidecarUnreachable`; the reporter retries 400, 404 and 500, and so does the
  synthesis client with 5xx (`synthesis/client.go:243`), about which SPEC-SYN-001 says
  both (`spec.md:32`, `:724`); both take a 200 whose body is garbled for unreachable
  and send it again; a torn `done` frame is
  delivered as the end of the stream; clustering shares the metadata map of a
  document with its input.
- *mcpserver*: the cap is charged when the pipeline then fails (against
  SPEC-MCP-001 `spec.md:180`); a call whose cap check lost its reply is charged, does
  not run and leaves no audit line (`deep_research.go:72`);
  sessions are never evicted; shutdown waits out its grace with nothing to wait for.

## 7. Abstractions and what is not modelled

- Documents, queries, prompts, pages and messages are records of what guards and
  properties look at, or nothing. Metrics other than the fanout gauge and the
  registry's call counters, logging and tracing are left out.
- Time is discrete. Timeouts keep their order, not their lengths.
- *Fanout*: URL canonicalisation is the key it yields; the rejection of an empty
  adapter set is an early return without state. *LLM*: cost headers change no
  decision but the over-budget outcome. *CostGuard*: one cost for all calls, one
  limit for all tenants; the reload replaces an immutable configuration.
- *DeepTree* and *TreeFile* are not composed, since `ExpandTree` does not call
  the persistence. *AccessFetch*: page validity, WAF profiles, URL guards and DNS
  pinning are an attempt's outcome and signal.
- *Adapters*: field mapping and wire formats. *IndexStores*: schemas, encodings,
  connection set-up and the fields of a document other than id, version and team;
  the resume file of the backfill. *AnswerCache*: the citation
  validator. *AuditTrail*: masking and SQL text. *AuthGate*: signatures and claims
  are sound or not. *TeamMembers*: Casbin's matcher.
- *SSE*: the JSON path, sentence segmentation. *McpServer*: JSON-RPC framing and
  the stdio transport. *Commands*: flag parsing, wiring, rendering. *security*: the
  address filter, the prompt filter and the resolvers keep no state.
- Not modelled at all: observability (output only; the counters that are read
  back are in `AdapterRegistry`), evaluation (an offline pool over independent
  queries that write one slot each), shared types and the client library (data),
  the Python services (separate processes, seen as calls that answer or fail), web,
  deployment and documentation.

## 8. What is left

In the order of their worth: the composition of `SearchPipeline` with
`FanoutPromise` as one instance rather than as its set of answers; an abstract
specification of the walk over an adapter's pages and of the index's search, with
the lemmas above as refinement proofs; `DeepTree` with `TreeFile` once the tree
calls it; a passing run for the order of the events of `SSEStream` once its
writers share a mutex.
