----------------------------- MODULE AdapterWaits -----------------------------
(***************************************************************************)
(* Where an adapter makes its callers wait: Reddit's shared OAuth token,   *)
(* replaced when the service refuses it; arXiv's minimum interval between  *)
(* requests; the cooldown of the Reddit feed between two attempts. The     *)
(* services and their clocks are external.                                 *)
(***************************************************************************)
EXTENDS Integers, Sequences, FiniteSets, FiniteSetsExt

CONSTANTS Callers,
          MaxTokens,     \* bound: the tokens the service ever issues
          MinInterval,   \* ticks between two arXiv requests, 0 for none
          Cooldown, MaxAttempts,   \* of the Reddit feed
          RetryAfters,   \* the delays the feed may ask for
          Horizon        \* bound: the last tick

Nobody == "nobody"

ASSUME WaitsAssumption ==
    /\ Nobody \notin Callers
    /\ MaxTokens \in Nat /\ MinInterval \in Nat /\ Cooldown \in Nat
    /\ MaxAttempts \in Int /\ RetryAfters \subseteq Nat /\ Horizon \in Nat

VARIABLES
    \* Reddit
    token,        \* tokenCache: the cached token, 0 when there is none
    fresh,        \* its expiry has not passed
    holder,       \* the caller inside tokenCache.get, or none
    issued, refused,   \* the service: tokens issued; those it no longer takes
    rpc, uses,    \* caller -> where it is; the tokens it has searched with
    \* arXiv and the feed share a clock
    now, nextRequest, slot, sent,
    fpc, feedAttempts, resumeAt

redditVars == <<token, fresh, holder, issued, refused, rpc, uses>>
arxivVars == <<nextRequest, slot, sent>>
feedVars == <<fpc, feedAttempts, resumeAt>>
waitsVars == <<redditVars, arxivVars, feedVars, now>>

NoSlot == -1

WaitsInit ==
    /\ token = 0 /\ fresh = FALSE /\ holder = Nobody /\ issued = 0 /\ refused = {}
    /\ rpc = [c \in Callers |-> "idle"] /\ uses = [c \in Callers |-> <<>>]
    /\ now = 0 /\ nextRequest = 0
    /\ slot = [c \in Callers |-> NoSlot] /\ sent = [c \in Callers |-> FALSE]
    /\ fpc = "idle" /\ feedAttempts = 0 /\ resumeAt = 0

-----------------------------------------------------------------------------
(* Reddit: Search takes the token, searches, and on a 401 drops the token, *)
(* takes another and searches once more.                                   *)
Getting == {"idle", "again"}
Then(pc) == IF pc = "idle" THEN "search" ELSE "retry"
Take(c, t) ==
    /\ rpc' = [rpc EXCEPT ![c] = Then(@)]
    /\ uses' = [uses EXCEPT ![c] = Append(@, t)]

GetCached(c) ==
    /\ rpc[c] \in Getting /\ holder = Nobody /\ token # 0 /\ fresh
    /\ Take(c, token)
    /\ UNCHANGED <<token, fresh, holder, issued, refused, arxivVars, feedVars, now>>

(* The mutex is held while the token is asked for.                         *)
AcquireToken(c) ==
    /\ rpc[c] \in Getting /\ holder = Nobody /\ ~(token # 0 /\ fresh)
    /\ holder' = c
    /\ UNCHANGED <<token, fresh, issued, refused, rpc, uses, arxivVars, feedVars, now>>
TokenAcquired(c) ==
    /\ holder = c /\ issued < MaxTokens
    /\ issued' = issued + 1 /\ token' = issued' /\ fresh' = TRUE /\ holder' = Nobody
    /\ Take(c, issued')
    /\ UNCHANGED <<refused, arxivVars, feedVars, now>>
AcquisitionFails(c) ==
    /\ holder = c
    /\ holder' = Nobody /\ rpc' = [rpc EXCEPT ![c] = "failed"]
    /\ UNCHANGED <<token, fresh, issued, refused, uses, arxivVars, feedVars, now>>

Accepted(c) == uses[c][Len(uses[c])] \notin refused
RedditAnswers(c) ==
    /\ rpc[c] \in {"search", "retry"}
    /\ \/ Accepted(c) /\ rpc' = [rpc EXCEPT ![c] = "done"]
       \/ rpc' = [rpc EXCEPT ![c] = "failed"]       \* any error but a 401
       \/ ~Accepted(c) /\ rpc' = [rpc EXCEPT ![c] = IF @ = "search" THEN "unauthorized" ELSE "exhausted"]
    /\ UNCHANGED <<token, fresh, holder, issued, refused, uses, arxivVars, feedVars, now>>

(* invalidate waits for the mutex and drops whatever token is there.       *)
Invalidate_Nothing(c) ==
    /\ rpc[c] = "unauthorized" /\ holder = Nobody
    /\ rpc' = [rpc EXCEPT ![c] = "again"]
    /\ UNCHANGED <<token, fresh, holder, issued, refused, uses, arxivVars, feedVars, now>>
Invalidate(c) ==
    /\ rpc[c] = "unauthorized" /\ holder = Nobody
    /\ token' = 0 /\ fresh' = FALSE
    /\ rpc' = [rpc EXCEPT ![c] = "again"]
    /\ UNCHANGED <<holder, issued, refused, uses, arxivVars, feedVars, now>>

(* The token's expiry, less the safety margin, passes; the service stops   *)
(* taking a token, before that or after.                                   *)
TokenExpires ==
    /\ fresh /\ fresh' = FALSE
    /\ UNCHANGED <<token, holder, issued, refused, rpc, uses, arxivVars, feedVars, now>>
ServiceDropsToken ==
    /\ \E t \in 1..issued \ refused : refused' = refused \cup {t}
    /\ UNCHANGED <<token, fresh, holder, issued, rpc, uses, arxivVars, feedVars, now>>

RedditNext ==
    \/ \E c \in Callers : \/ GetCached(c) \/ AcquireToken(c) \/ TokenAcquired(c)
                          \/ AcquisitionFails(c) \/ RedditAnswers(c) \/ Invalidate(c)
    \/ TokenExpires \/ ServiceDropsToken

-----------------------------------------------------------------------------
(* arXiv: waitForRateSlot books a slot under the mutex and waits for it    *)
(* outside; a caller that gives up leaves its slot unused.                 *)
BookSlot(c) ==
    /\ slot[c] = NoSlot
    /\ slot' = [slot EXCEPT ![c] = Max({now, nextRequest})]
    /\ nextRequest' = slot'[c] + MinInterval
    /\ UNCHANGED <<sent, redditVars, feedVars, now>>
SendRequest(c) ==
    /\ slot[c] # NoSlot /\ ~sent[c] /\ now >= slot[c]
    /\ sent' = [sent EXCEPT ![c] = TRUE]
    /\ UNCHANGED <<slot, nextRequest, redditVars, feedVars, now>>

-----------------------------------------------------------------------------
(* The Reddit feed: an attempt that is rate limited is repeated after the  *)
(* cooldown, or the delay the service asked for when that is longer.       *)
Attempts == Max({1, MaxAttempts})
TryFeed ==
    /\ fpc = "idle" \/ (fpc = "cooling" /\ now >= resumeAt)
    /\ feedAttempts' = feedAttempts + 1
    /\ \/ /\ fpc' \in {"done", "failed"}       \* an answer, or an error of another kind
          /\ UNCHANGED resumeAt
       \/ feedAttempts' = Attempts /\ fpc' = "limited" /\ UNCHANGED resumeAt
       \/ /\ feedAttempts' < Attempts /\ fpc' = "cooling"
          /\ \E ra \in RetryAfters : resumeAt' = now + Max({Cooldown, ra})
    /\ UNCHANGED <<redditVars, arxivVars, now>>
(* The caller's context ends before the first attempt or in the wait.      *)
FeedCancelled ==
    /\ fpc \in {"idle", "cooling"} /\ fpc' = "cancelled"
    /\ UNCHANGED <<feedAttempts, resumeAt, redditVars, arxivVars, now>>

WaitsTick ==
    /\ now < Horizon /\ now' = now + 1
    /\ UNCHANGED <<redditVars, arxivVars, feedVars>>

ArxivNext == WaitsTick \/ \E c \in Callers : BookSlot(c) \/ SendRequest(c)
FeedNext == WaitsTick \/ TryFeed \/ FeedCancelled
WaitsNext == RedditNext \/ ArxivNext \/ FeedNext
WaitsSpec == WaitsInit /\ [][WaitsNext]_waitsVars

-----------------------------------------------------------------------------
WaitsTypeOK ==
    /\ token \in 0..issued /\ issued \in 0..MaxTokens /\ holder \in Callers \cup {Nobody}
    /\ refused \subseteq 1..issued
    /\ \A c \in Callers : Len(uses[c]) <= 2 /\ slot[c] \in Int
    /\ now \in 0..Horizon /\ feedAttempts \in 0..Attempts

(* Search and tokenCache (oauth.go): a call that reports the refresh       *)
(* exhausted has been refused twice, with two tokens, and the second was   *)
(* issued after the first had been refused.                                *)
ExhaustedAfterTwoTokens ==
    \A c \in Callers :
        /\ rpc[c] \in {"retry", "exhausted"} => Len(uses[c]) = 2 /\ uses[c][1] < uses[c][2]
        /\ rpc[c] = "exhausted" => {uses[c][1], uses[c][2]} \subseteq refused

(* waitForRateSlot: however many callers book at once, and whether or not  *)
(* they use what they booked, no two slots are nearer than the interval.   *)
SlotsSpaced ==
    \A c, d \in Callers : c # d /\ slot[c] # NoSlot /\ slot[d] # NoSlot =>
        slot[c] - slot[d] >= MinInterval \/ slot[d] - slot[c] >= MinInterval

(* Reddit's token is renewed once before a search gives up (oauth.go), and *)
(* no two arXiv requests are nearer than the interval (arxiv.go).          *)
WaitsSound == ExhaustedAfterTwoTokens /\ SlotsSpaced
=============================================================================
