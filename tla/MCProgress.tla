----------------------------- MODULE MCProgress -----------------------------
(* Progress for TLC: the router of the LLM client, one streamed completion *)
(* and the cache of search tokens with its refresh worker. A stream        *)
(* reports nothing to the breakers and the tokens are the index's, so the  *)
(* three share no state: a behaviour runs one of them, "focus".            *)
EXTENDS MCLLMRouter, LLMStream, TokenCache

VARIABLE focus

progressVars == <<focus, vars, streamVars, tokenVars>>

ProgressInit ==
    /\ focus \in {"router", "stream", "tokens"}
    /\ Init /\ StreamInit /\ TokenInit
ProgressNext ==
    UNCHANGED focus /\
    (\/ focus = "router" /\ Next /\ UNCHANGED <<streamVars, tokenVars>>
     \/ focus = "stream" /\ StreamNext /\ UNCHANGED <<vars, tokenVars>>
     \/ focus = "tokens" /\ TokenNext /\ UNCHANGED <<vars, streamVars>>)

(* Fairness of each part, for the behaviours that run it. GetOrIssue's     *)
(* refresh worker is a goroutine that runs, and the issuer it calls        *)
(* answers (its HTTP client has a timeout).                                *)
Routing == focus = "router" /\ UNCHANGED <<focus, streamVars, tokenVars>>
Refreshing == focus = "tokens" /\ UNCHANGED <<focus, vars, streamVars>>
ProgressFairness ==
    /\ WF_vars(Routing /\ Tick)
    /\ \A c \in Callers :
          /\ WF_vars(Routing /\ RouteNext(c))
          /\ WF_vars(Routing /\ RouteDone(c))
          /\ WF_vars(Routing /\ Finish(c))
          /\ \A class \in Classes :
                SF_vars(Routing /\ \E kind \in Kinds : Start(c, kind, class))
    /\ WF_streamVars(focus = "stream" /\ Producer /\ UNCHANGED <<focus, vars, tokenVars>>)
    /\ WF_tokenVars(Refreshing /\ StartRefresh) /\ WF_tokenVars(Refreshing /\ FinishRefresh)

ProgressSpec == ProgressInit /\ [][ProgressNext]_progressVars /\ ProgressFairness

-----------------------------------------------------------------------------
(* client.go: every call returns, and a stream whose caller's context ends *)
(* closes its channel.                                                     *)
LLMReturns == CallsReturn /\ CancelCloses
=============================================================================
