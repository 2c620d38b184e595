----------------------------- MODULE AccessFetch -----------------------------
(***************************************************************************)
(* The content fetcher (internal/access): concurrent calls of Fetch climb  *)
(* a cascade of five phases (index, robots and HEAD, GET, GET with browser *)
(* TLS, headless browser), share a robots cache and a pool of browsers,    *)
(* write what they fetched back to the index in the background, and may be *)
(* overtaken by Close or Shutdown.                                         *)
(***************************************************************************)
EXTENDS Naturals, Sequences, FiniteSets

CONSTANTS Fetches,               \* concurrent calls, all to one host
          Skips,                 \* FetchOptions a call may have: sets of "robots", "head"
          MaxBrowsers,
          PlaywrightEnabled,
          IndexWired,            \* Options.IndexLookup # nil
          WriteThrough           \* Options.CacheWriteThrough

ASSUME AccessAssumption ==
    /\ Skips \subseteq SUBSET {"robots", "head"}
    /\ MaxBrowsers \in Nat \ {0}
    /\ {PlaywrightEnabled, IndexWired, WriteThrough} \subseteq BOOLEAN

VARIABLES pc,        \* where each Fetch is
          skip,      \* its options: what phase 2 leaves out
          attempts,  \* PhaseAttempts, in order
          ctxDone,   \* the caller's context is cancelled or past its deadline
          outcome,   \* FetchResult.Outcome; "none" while the call runs
          content,   \* the phase FetchResult.Content came from; 0 is nil
          upsert,    \* its write-through goroutine: none, running, done
          robots,    \* the robots cache's entry of the host
          pool,      \* browsers in the pool
          closing,   \* open, draining, closed
          gaveUp,    \* Shutdown's deadline passed before the drain ended
          owed       \* upserts running when the drain began (history)

call == <<pc, skip, attempts, ctxDone, outcome, content, upsert>>
closer == <<closing, gaveUp, owed>>
vars == <<call, robots, pool, closer>>

Outcomes == {"success", "miss", "skipped", "blocked", "timeout", "cancelled", "failure"}
InPhase5 == {"waiting", "browsing", "refilling"}
Attempt == [outcome : Outcomes, signal : BOOLEAN]
Plain(o) == [outcome |-> o, signal |-> FALSE]
Phase(f) == Len(attempts[f]) + 1
Holders == {f \in Fetches : pc[f] \in {"browsing", "refilling"}}

Init ==
    /\ pc = [f \in Fetches |-> "idle"]
    /\ skip = [f \in Fetches |-> {}]
    /\ attempts = [f \in Fetches |-> <<>>]
    /\ ctxDone = [f \in Fetches |-> FALSE]
    /\ outcome = [f \in Fetches |-> "none"]
    /\ content = [f \in Fetches |-> 0]
    /\ upsert = [f \in Fetches |-> "none"]
    /\ robots = "unknown"
    /\ pool = IF PlaywrightEnabled THEN MaxBrowsers ELSE 0
    /\ closing = "open" /\ gaveUp = FALSE /\ owed = {}

-----------------------------------------------------------------------------
(* shouldEscalatePhase of an attempt a of phase p. The signal of phase 3   *)
(* is a TLS error or a WAF or challenge verdict, of phase 4 a JS challenge.*)
ShouldEscalate_Blocked(p, a) ==
    \/ p = 1 /\ a.outcome \in {"miss", "skipped", "failure"}
    \/ p = 2 /\ a.outcome # "failure"
    \/ p = 3 /\ a.signal
    \/ p = 4 /\ a.signal /\ PlaywrightEnabled
ShouldEscalate_PastBrowser(p, a) ==
    \/ p = 1 /\ a.outcome \in {"miss", "skipped", "failure"}
    \/ p = 2 /\ a.outcome \in {"success", "skipped"}
    \/ p \in {3, 4} /\ a.signal
    \/ p = 5 /\ a.outcome = "failure"
ShouldEscalate(p, a) ==
    \/ p = 1 /\ a.outcome \in {"miss", "skipped", "failure"}
    \/ p = 2 /\ a.outcome \in {"success", "skipped"}
    \/ p = 3 /\ a.signal
    \/ p = 4 /\ a.signal /\ PlaywrightEnabled

(* The end of the loop's body: escalate, or settle the call and start the  *)
(* write-through of its content.                                           *)
Finish(f, o, from) ==
    /\ pc' = [pc EXCEPT ![f] = "returned"]
    /\ outcome' = [outcome EXCEPT ![f] = o]
    /\ content' = [content EXCEPT ![f] = from]
    /\ upsert' = IF from # 0 /\ WriteThrough /\ IndexWired
                 THEN [upsert EXCEPT ![f] = "running"] ELSE upsert
    /\ UNCHANGED ctxDone

Escalate(f) ==
    /\ pc' = [pc EXCEPT ![f] = "next"]
    /\ UNCHANGED <<ctxDone, outcome, content, upsert>>

Conclude(f, a) ==
    /\ attempts' = [attempts EXCEPT ![f] = Append(@, a)]
    /\ IF ShouldEscalate(Phase(f), a) THEN Escalate(f)
       ELSE Finish(f, a.outcome, IF a.outcome = "success" THEN Phase(f) ELSE 0)

(* Fetch is called: the shutdown channel, then the caller's context.       *)
Enter(f) ==
    /\ pc[f] = "idle"
    /\ \E options \in Skips : skip' = [skip EXCEPT ![f] = options]
    /\ IF closing # "open"
       THEN /\ pc' = [pc EXCEPT ![f] = "refused"]
            /\ UNCHANGED <<ctxDone, outcome, content, upsert>>
       ELSE IF ctxDone[f] THEN Finish(f, "cancelled", 0) ELSE Escalate(f)
    /\ UNCHANGED <<attempts, robots, pool, closer>>

(* The top of the loop.                                                    *)
NextPhase(f) ==
    /\ pc[f] = "next"
    /\ IF ctxDone[f] THEN \E o \in {"timeout", "cancelled"} : Finish(f, o, 0)
       ELSE /\ pc' = [pc EXCEPT ![f] = IF Phase(f) = 5 THEN "waiting" ELSE "phase"]
            /\ UNCHANGED <<ctxDone, outcome, content, upsert>>
    /\ UNCHANGED <<skip, attempts, robots, pool, closer>>

(* Phases 1, 3 and 4: what the index or the site answers. A panic counts   *)
(* as a failure, a host that does not resolve or resolves to a private     *)
(* address as blocked.                                                     *)
IndexAnswers ==
    IF IndexWired THEN {Plain("success"), Plain("miss"), Plain("failure")}
    ELSE {Plain("skipped")}

GetAnswers == {Plain("success"), Plain("blocked"), Plain("failure"),
               [outcome |-> "failure", signal |-> TRUE]}   \* TLS error, WAF or challenge
TLSAnswers == GetAnswers                                   \* JS challenge

Answers(p) == CASE p = 1 -> IndexAnswers [] p = 3 -> GetAnswers [] OTHER -> TLSAnswers

RunPhase(f) ==
    /\ pc[f] = "phase" /\ Phase(f) # 2
    /\ \E a \in Answers(Phase(f)) : Conclude(f, a)
    /\ UNCHANGED <<skip, robots, pool, closer>>

-----------------------------------------------------------------------------
(* Phase 2: robots.txt, cached for the host, then the HEAD probe.          *)
Verdict(f, data) ==
    IF data = "disallow" THEN Conclude(f, Plain("blocked"))
    ELSE IF "head" \in skip[f] THEN Conclude(f, Plain("success"))
    ELSE /\ pc' = [pc EXCEPT ![f] = "head"]
         /\ UNCHANGED <<attempts, ctxDone, outcome, content, upsert>>

Probe(f) ==
    /\ pc[f] = "phase" /\ Phase(f) = 2
    /\ \/ skip[f] = {"robots", "head"} /\ Conclude(f, Plain("skipped"))
       \/ /\ skip[f] = {"robots"} \/ ("robots" \notin skip[f] /\ robots # "unknown")
          /\ Verdict(f, IF "robots" \in skip[f] THEN "allow" ELSE robots)
       \/ /\ "robots" \notin skip[f] /\ robots = "unknown"
          /\ pc' = [pc EXCEPT ![f] = "robots"]
          /\ UNCHANGED <<attempts, ctxDone, outcome, content, upsert>>
    /\ UNCHANGED <<skip, robots, pool, closer>>

(* A cache miss reads the file (a network error and a 5xx count as         *)
(* disallow) and overwrites whatever another call has cached meanwhile.    *)
FetchRobots(f) ==
    /\ pc[f] = "robots"
    /\ robots' \in {"allow", "disallow"}
    /\ Verdict(f, robots')
    /\ UNCHANGED <<skip, pool, closer>>

HeadProbe(f) ==
    /\ pc[f] = "head"
    /\ \E o \in {"success", "failure"} : Conclude(f, Plain(o))
    /\ UNCHANGED <<skip, robots, pool, closer>>

RobotsExpire ==
    /\ robots # "unknown" /\ robots' = "unknown"
    /\ UNCHANGED <<call, pool, closer>>

-----------------------------------------------------------------------------
(* Phase 5. A call takes a browser from the pool, or its phase context     *)
(* ends first.                                                             *)
TakeBrowser(f) ==
    /\ pc[f] = "waiting" /\ pool > 0
    /\ pool' = pool - 1
    /\ pc' = [pc EXCEPT ![f] = "browsing"]
    /\ UNCHANGED <<skip, attempts, ctxDone, outcome, content, upsert, robots, closer>>

PoolTimeout_Never(f) ==
    /\ pc[f] = "waiting" /\ ctxDone[f]
    /\ Conclude(f, Plain("timeout"))
    /\ UNCHANGED <<skip, robots, pool, closer>>
PoolTimeout(f) ==
    /\ pc[f] = "waiting"
    /\ Conclude(f, Plain("timeout"))
    /\ UNCHANGED <<skip, robots, pool, closer>>

(* The page was rendered: the browser goes back to the pool, even to the   *)
(* pool of a fetcher that is closed already.                               *)
Rendered(f) ==
    /\ pc[f] = "browsing"
    /\ pool' = pool + 1
    /\ Conclude(f, Plain("success"))
    /\ UNCHANGED <<skip, robots, closer>>

(* It was not: the browser is closed, and a new one is launched for the    *)
(* pool unless that fails.                                                 *)
Discard_IntoPool(f) ==
    /\ pc[f] = "browsing"
    /\ pc' = [pc EXCEPT ![f] = "refilling"]
    /\ pool' = pool + 1
    /\ UNCHANGED <<skip, attempts, ctxDone, outcome, content, upsert, robots, closer>>
Discard(f) ==
    /\ pc[f] = "browsing"
    /\ pc' = [pc EXCEPT ![f] = "refilling"]
    /\ UNCHANGED <<skip, attempts, ctxDone, outcome, content, upsert, robots, pool, closer>>

Refill(f) ==
    /\ pc[f] = "refilling"
    /\ \/ pool' = IF pool < MaxBrowsers THEN pool + 1 ELSE pool
       \/ pool' = pool
    /\ Conclude(f, Plain("failure"))
    /\ UNCHANGED <<skip, robots, closer>>

-----------------------------------------------------------------------------
(* The write-through ends by itself within its 30 seconds.                 *)
UpsertDone(f) ==
    /\ upsert[f] = "running"
    /\ upsert' = [upsert EXCEPT ![f] = "done"]
    /\ UNCHANGED <<pc, skip, attempts, ctxDone, outcome, content, robots, pool, closer>>

ContextEnds(f) ==
    /\ ~ctxDone[f] /\ pc[f] \notin {"returned", "refused"}
    /\ ctxDone' = [ctxDone EXCEPT ![f] = TRUE]
    /\ UNCHANGED <<pc, skip, attempts, outcome, content, upsert, robots, pool, closer>>

(* Close and Shutdown: refuse new calls ...                                *)
Begin ==
    /\ closing = "open" /\ closing' = "draining"
    /\ owed' = {f \in Fetches : upsert[f] = "running"}
    /\ UNCHANGED <<call, robots, pool, gaveUp>>

(* ... wait for the write-throughs, then empty the pool and stop the       *)
(* runtime. Calls in progress go on.                                       *)
Drained == \A f \in Fetches : upsert[f] # "running"
CloseNow ==
    /\ closing = "draining" /\ closing' = "closed"
    /\ pool' = 0
    /\ UNCHANGED <<call, robots, owed>>

Drain == Drained /\ CloseNow /\ UNCHANGED gaveUp

(* Shutdown, unlike Close, stops waiting at its context's deadline.        *)
GiveUp == ~Drained /\ CloseNow /\ gaveUp' = TRUE

Cascade(f) == \/ NextPhase(f) \/ RunPhase(f) \/ Probe(f) \/ FetchRobots(f) \/ HeadProbe(f)
Browse(f) == \/ TakeBrowser(f) \/ PoolTimeout(f) \/ Rendered(f) \/ Discard(f) \/ Refill(f)

Next == \/ \E f \in Fetches : \/ Enter(f) \/ Cascade(f) \/ Browse(f)
                              \/ UpsertDone(f) \/ ContextEnds(f)
        \/ RobotsExpire \/ Begin \/ Drain \/ GiveUp

Spec == Init /\ [][Next]_vars

(* Every phase runs under a context with its own budget, page.Goto under   *)
(* its own timeout, an upsert under 30 seconds; nothing is promised about  *)
(* who gets a browser.                                                     *)
Fairness ==
    /\ \A f \in Fetches : /\ WF_vars(Cascade(f)) /\ WF_vars(PoolTimeout(f))
                          /\ WF_vars(Rendered(f) \/ Discard(f) \/ Refill(f))
                          /\ WF_vars(UpsertDone(f))
    /\ WF_vars(Drain)
FairSpec == Spec /\ Fairness

-----------------------------------------------------------------------------
TypeOK ==
    /\ pc \in [Fetches -> {"idle", "next", "phase", "robots", "head", "returned",
                           "refused"} \cup InPhase5]
    /\ skip \in [Fetches -> SUBSET {"robots", "head"}]
    /\ \A f \in Fetches : attempts[f] \in Seq(Attempt) /\ Len(attempts[f]) <= 5
    /\ ctxDone \in [Fetches -> BOOLEAN]
    /\ outcome \in [Fetches -> {"none"} \cup Outcomes]
    /\ content \in [Fetches -> 0..5]
    /\ upsert \in [Fetches -> {"none", "running", "done"}]
    /\ robots \in {"unknown", "allow", "disallow"}
    /\ pool \in 0..MaxBrowsers
    /\ closing \in {"open", "draining", "closed"}
    /\ gaveUp \in BOOLEAN /\ owed \subseteq Fetches

(* phase5_browser.go: one browser per fetch in flight. Browsers in the     *)
(* pool, in use and being replaced are never more than MaxBrowsers,        *)
(* whatever fails, is discarded, refilled or returned late.                *)
BrowsersAccounted == pool + Cardinality(Holders) <= MaxBrowsers

(* escalation.go and SPEC-CACHE-001 3.4: no site is asked beyond what the  *)
(* phases before justify: no GET after robots.txt forbade it, phase 2 left *)
(* out only by both options, a browser only after a GET that met a         *)
(* JavaScript challenge. Nothing is said of a GET after a failed probe, or *)
(* of phase 4 after a plain 5xx or a panic: there comments and             *)
(* requirements ask for what the table of 3.4 rules out.                   *)
EarnedPhases ==
    \A f \in Fetches : LET tried == attempts[f] IN
        /\ Len(tried) >= 3 => /\ tried[2].outcome # "blocked"
                              /\ tried[2].outcome = "skipped" => skip[f] = {"robots", "head"}
        /\ Len(tried) = 5 \/ pc[f] \in InPhase5 => PlaywrightEnabled /\ tried[4].signal
        /\ \A i \in 1..Len(tried) - 1 : tried[i].outcome = "success" => i = 2

(* types.go: content comes with "success" and from the last phase tried,   *)
(* and only then is anything written to the index.                         *)
ContentIsSuccess ==
    \A f \in Fetches :
        /\ content[f] # 0 <=> outcome[f] = "success"
        /\ content[f] # 0 => content[f] = Len(attempts[f])
        /\ upsert[f] # "none" => content[f] # 0

(* access.go: Close returns only after the write-throughs that were in     *)
(* flight when it was called, and so does Shutdown before its deadline.    *)
OwedUpsertsDrained ==
    closing = "closed" /\ ~gaveUp => \A f \in owed : upsert[f] = "done"

(* NFR-CACHE-005 and REQ-CACHE-006: no call hangs, with an empty pool, a   *)
(* failing launch or a closing fetcher, and Close itself returns.          *)
CallsReturn ==
    /\ \A f \in Fetches : pc[f] \notin {"idle", "returned", "refused"} ~> pc[f] = "returned"
    /\ closing = "draining" ~> closing = "closed"

(* spec.md:503 (NFR-CACHE-005): write-through goroutines are tracked and   *)
(* drained on Shutdown: none runs once a drain has ended in time.          *)
NoUpsertAfterClose ==
    closing = "closed" /\ ~gaveUp => \A f \in Fetches : upsert[f] # "running"

(* access.go and phase5_browser.go: no browser is lost or counted twice,   *)
(* and Close returns only after the write-throughs it found running.       *)
FetcherAccounted == BrowsersAccounted /\ OwedUpsertsDrained

(* cascade.go: a phase is entered only when the ones before it justify it, *)
(* and content is returned, and written to the index, only on a success.   *)
PhasesHonest == EarnedPhases /\ ContentIsSuccess
=============================================================================
