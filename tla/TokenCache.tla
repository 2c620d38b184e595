----------------------------- MODULE TokenCache -----------------------------
(***************************************************************************)
(* The cache of Meilisearch tenant tokens of one (team, user, key) triplet *)
(* (internal/index/tenancy/token_cache.go): concurrent callers of          *)
(* GetOrIssue share one issue through a sync.Once, a worker refreshes what *)
(* is about to expire, and Revoke removes an entry. Triplets share nothing *)
(* but the locks; the worker handles one after the other.                  *)
(***************************************************************************)
EXTENDS Integers, Sequences

CONSTANTS TokenCallers,
          TokenLife,      \* ticks until a token expires
          RefreshMargin,
          MaxIssues,      \* bound: tokens issued
          MaxOnces,       \* bound: Onces the map ever held
          MaxRevokes      \* bound: calls of Revoke

ASSUME TokenAssumption ==
    /\ TokenLife \in Nat \ {0} /\ RefreshMargin \in 0..TokenLife
    /\ MaxIssues \in Nat /\ MaxOnces \in Nat /\ MaxRevokes \in Nat

VARIABLES entry,      \* the cached token and its ticks left; id 0 is no entry
          onceMap,    \* the Once of the triplet; 0 when the map has none
          doing,      \* Once -> fresh, running, done
          cpc,        \* caller -> idle, once, issuing, waiting, issued, failed, read, returned
          cOnce,      \* caller -> the Once it loaded
          got,        \* caller -> the token it returns; 0 is nil
          worker,     \* idle or refreshing
          issued,     \* tokens issued so far: the id of the last
          revoking,   \* Revoke is between its two deletions
          revokes,
          revoked,    \* history: tokens Revoke found in the cache
          before      \* history: caller -> revoked, as its call began

callerVars == <<cpc, cOnce, got, before>>
revokeVars == <<revoking, revokes, revoked>>
tokenVars == <<entry, onceMap, doing, callerVars, worker, issued, revokeVars>>

NoEntry == [id |-> 0, left |-> 0]
Usable == entry.id # 0 /\ entry.left > 0
Issuing == {c \in TokenCallers : cpc[c] = "issuing"}

TokenInit ==
    /\ entry = NoEntry /\ onceMap = 0 /\ doing = <<>>
    /\ cpc = [c \in TokenCallers |-> "idle"]
    /\ cOnce = [c \in TokenCallers |-> 0]
    /\ got = [c \in TokenCallers |-> 0]
    /\ before = [c \in TokenCallers |-> {}]
    /\ worker = "idle" /\ issued = 0
    /\ revoking = FALSE /\ revokes = 0 /\ revoked = {}

-----------------------------------------------------------------------------
Return(c, id) == /\ cpc' = [cpc EXCEPT ![c] = "returned"]
                 /\ got' = [got EXCEPT ![c] = id]

(* GetOrIssue: the fast path, or LoadOrStore of the triplet's Once.        *)
Lookup(c) ==
    /\ cpc[c] = "idle"
    /\ before' = [before EXCEPT ![c] = revoked]
    /\ IF Usable THEN Return(c, entry.id)
       ELSE /\ cpc' = [cpc EXCEPT ![c] = "miss"] /\ UNCHANGED got
    /\ UNCHANGED <<entry, onceMap, doing, cOnce, worker, issued, revokeVars>>

LoadOnce(c) ==
    /\ cpc[c] = "miss"
    /\ \/ /\ onceMap # 0
          /\ cOnce' = [cOnce EXCEPT ![c] = onceMap]
          /\ UNCHANGED <<onceMap, doing>>
       \/ /\ onceMap = 0 /\ Len(doing) < MaxOnces
          /\ doing' = Append(doing, "fresh")
          /\ onceMap' = Len(doing')
          /\ cOnce' = [cOnce EXCEPT ![c] = Len(doing')]
    /\ cpc' = [cpc EXCEPT ![c] = "once"]
    /\ UNCHANGED <<entry, got, before, worker, issued, revokeVars>>

(* once.Do: one caller runs the function, which looks again ...            *)
MayRun_Unguarded(c) == doing[cOnce[c]] # "done"
MayRun(c) == doing[cOnce[c]] = "fresh"
RunOnce(c) ==
    /\ cpc[c] = "once" /\ MayRun(c)
    /\ IF Usable THEN /\ Return(c, entry.id)
                      /\ doing' = [doing EXCEPT ![cOnce[c]] = "done"]
       ELSE /\ cpc' = [cpc EXCEPT ![c] = "issuing"]
            /\ doing' = [doing EXCEPT ![cOnce[c]] = "running"]
            /\ UNCHANGED got
    /\ UNCHANGED <<entry, onceMap, cOnce, before, worker, issued, revokeVars>>

(* ... and issues a token, which it stores ...                             *)
IssueOK(c) ==
    /\ cpc[c] = "issuing" /\ issued < MaxIssues
    /\ issued' = issued + 1
    /\ entry' = [id |-> issued', left |-> TokenLife]
    /\ doing' = [doing EXCEPT ![cOnce[c]] = "done"]
    /\ Return(c, issued')
    /\ UNCHANGED <<onceMap, cOnce, before, worker, revokeVars>>

(* ... or fails: the Once is done, and afterwards removed from the map,    *)
(* whichever Once the map then holds.                                      *)
IssueFails(c) ==
    /\ cpc[c] = "issuing"
    /\ doing' = [doing EXCEPT ![cOnce[c]] = "done"]
    /\ cpc' = [cpc EXCEPT ![c] = "failed"]
    /\ UNCHANGED <<entry, onceMap, cOnce, got, before, worker, issued, revokeVars>>

DropOnce(c) ==
    /\ cpc[c] = "failed"
    /\ onceMap' = 0
    /\ cpc' = [cpc EXCEPT ![c] = "error"]
    /\ UNCHANGED <<entry, doing, cOnce, got, before, worker, issued, revokeVars>>

(* A caller whose Once is done, however it went, returns what the cache    *)
(* holds by now: a token, one that has expired, or nothing and no error.   *)
ReadAfter(c) ==
    /\ cpc[c] = "once" /\ doing[cOnce[c]] = "done"
    /\ Return(c, entry.id)
    /\ UNCHANGED <<entry, onceMap, doing, cOnce, before, worker, issued, revokeVars>>

(* The caller comes back with another call.                                *)
CallAgain(c) ==
    /\ cpc[c] \in {"returned", "error"}
    /\ cpc' = [cpc EXCEPT ![c] = "idle"]
    /\ got' = [got EXCEPT ![c] = 0]
    /\ UNCHANGED <<entry, onceMap, doing, cOnce, before, worker, issued, revokeVars>>

-----------------------------------------------------------------------------
(* The worker: what needs a refresh is collected under the lock; its Once  *)
(* is dropped, a token issued outside the lock and stored.                 *)
NeedsRefresh_NotExpired == entry.left \in 1..RefreshMargin
NeedsRefresh == entry.left <= RefreshMargin

StartRefresh ==
    /\ worker = "idle" /\ entry.id # 0 /\ NeedsRefresh
    /\ worker' = "refreshing"
    /\ onceMap' = 0
    /\ UNCHANGED <<entry, doing, callerVars, issued, revokeVars>>

FinishRefresh ==
    /\ worker = "refreshing" /\ worker' = "idle"
    /\ \/ UNCHANGED <<entry, issued>>
       \/ /\ issued < MaxIssues
          /\ issued' = issued + 1
          /\ entry' = [id |-> issued', left |-> TokenLife]
    /\ UNCHANGED <<onceMap, doing, callerVars, revokeVars>>

(* Revoke deletes the entry under the lock and the Once after it.          *)
Revoke ==
    /\ ~revoking /\ revokes < MaxRevokes
    /\ revoking' = TRUE /\ revokes' = revokes + 1
    /\ revoked' = revoked \cup ({entry.id} \ {0})
    /\ entry' = NoEntry
    /\ UNCHANGED <<onceMap, doing, callerVars, worker, issued>>

RevokeOnce ==
    /\ revoking /\ revoking' = FALSE
    /\ onceMap' = 0
    /\ UNCHANGED <<entry, doing, callerVars, worker, issued, revokes, revoked>>

TokenTick ==
    /\ entry.left > 0
    /\ entry' = [entry EXCEPT !.left = @ - 1]
    /\ UNCHANGED <<onceMap, doing, callerVars, worker, issued, revokeVars>>

TokenNext ==
    \/ \E c \in TokenCallers : \/ Lookup(c) \/ LoadOnce(c) \/ RunOnce(c) \/ IssueOK(c)
                               \/ IssueFails(c) \/ DropOnce(c) \/ ReadAfter(c) \/ CallAgain(c)
    \/ StartRefresh \/ FinishRefresh \/ Revoke \/ RevokeOnce \/ TokenTick

TokenSpec == TokenInit /\ [][TokenNext]_tokenVars

-----------------------------------------------------------------------------
TokenTypeOK ==
    /\ entry \in [id : 0..MaxIssues, left : 0..TokenLife]
    /\ onceMap \in 0..Len(doing) /\ \A o \in DOMAIN doing : doing[o] \in {"fresh", "running", "done"}
    /\ got \in [TokenCallers -> 0..MaxIssues]
    /\ worker \in {"idle", "refreshing"} /\ revoking \in BOOLEAN

(* REQ-IDX4-009: a triplet's token is issued by one caller at a time for   *)
(* each Once, so two issues overlap only after a refresh, a Revoke or a    *)
(* failure dropped the Once of the first; and a call that begins after a   *)
(* Revoke never returns a token the Revoke found, whichever Once, refresh  *)
(* or reader was under way.                                                *)
TokensSound ==
    /\ \A c, d \in Issuing : cOnce[c] = cOnce[d] => c = d
    /\ \A c \in TokenCallers : cpc[c] = "returned" => got[c] \notin before[c]
    /\ entry.id \notin revoked

(* The refresh worker's promise (StartRefreshWorker): an entry whose Once  *)
(* is spent does not stay expired for ever; it is renewed, removed, or its *)
(* Once is dropped so that the next caller issues.                         *)
ExpiredIsRenewed ==
    (entry.id # 0 /\ entry.left = 0) ~> (entry.id = 0 \/ entry.left > 0 \/ onceMap = 0)
=============================================================================
