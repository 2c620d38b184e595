----------------------------- MODULE HaikuScreen -----------------------------
(***************************************************************************)
(* The cheap model that screens deep requests, with its own breaker: after *)
(* MaxFails failures in a row it opens for a while and lets every request  *)
(* through unscreened; then it tests. Calls are concurrent, time passes.   *)
(***************************************************************************)
EXTENDS Integers, FiniteSets

CONSTANTS Screened,       \* concurrent calls of Screen
          MaxFails, OpenFor,
          ThresholdProceed, ThresholdSuggest, ScreenScores,
          FailOpenOnTimeout,
          MaxScreens      \* bound: calls begun

ASSUME ScreenAssumption ==
    /\ MaxFails \in Nat \ {0} /\ OpenFor \in Nat \ {0} /\ MaxScreens \in Nat
    /\ FailOpenOnTimeout \in BOOLEAN

VARIABLES circuit,    \* [state, fails, left]: left is the time until openUntil
          screen,     \* Screened -> "idle", "asking", or the outcome given
          screens,    \* calls begun
          fresh       \* history: failures since the breaker was last closed or half-opened

screenVars == <<circuit, screen, screens, fresh>>

Outcomes == {"proceed", "suggest_basic", "reject", "fail_open", "error"}

ScreenInit ==
    /\ circuit = [state |-> "closed", fails |-> 0, left |-> 0]
    /\ screen = [s \in Screened |-> "idle"] /\ screens = 0 /\ fresh = 0

-----------------------------------------------------------------------------
(* An open breaker whose time is over becomes half-open and admits; a      *)
(* half-open one admits everybody.                                         *)
StartScreen(s) ==
    /\ screen[s] # "asking" /\ screens < MaxScreens
    /\ screens' = screens + 1
    /\ IF circuit.state = "open" /\ circuit.left > 0
       THEN /\ screen' = [screen EXCEPT ![s] = "fail_open"]
            /\ UNCHANGED <<circuit, fresh>>
       ELSE /\ screen' = [screen EXCEPT ![s] = "asking"]
            /\ circuit' = [circuit EXCEPT !.state = IF @ = "open" THEN "half_open" ELSE @]
            /\ fresh' = IF circuit.state = "open" THEN 0 ELSE fresh

(* The count is not reset while the breaker tests: one failure reopens it. *)
OnFailure_Forgetting ==
    [circuit EXCEPT !.fails = IF circuit.state = "half_open" THEN 1 ELSE @ + 1,
                    !.state = IF circuit.state # "half_open" /\ circuit.fails + 1 >= MaxFails
                              THEN "open" ELSE @,
                    !.left = IF circuit.fails + 1 >= MaxFails THEN OpenFor ELSE @]
OnFailure ==
    IF circuit.fails + 1 >= MaxFails
    THEN [state |-> "open", fails |-> circuit.fails + 1, left |-> OpenFor]
    ELSE [circuit EXCEPT !.fails = @ + 1]

EvaluateScore(score) == IF score >= ThresholdProceed THEN "proceed"
                        ELSE IF score >= ThresholdSuggest THEN "suggest_basic" ELSE "reject"

(* An answer closes the breaker, whenever its call was admitted.           *)
ScreenAnswers(s) ==
    /\ screen[s] = "asking"
    /\ \E score \in ScreenScores : screen' = [screen EXCEPT ![s] = EvaluateScore(score)]
    /\ circuit' = [state |-> "closed", fails |-> 0, left |-> circuit.left]
    /\ fresh' = 0 /\ UNCHANGED screens

(* An error or a timeout lets the request through when so configured, an   *)
(* unreadable answer always.                                               *)
ScreenFails(s) ==
    /\ screen[s] = "asking"
    /\ \E unreadable \in BOOLEAN : screen' = [screen EXCEPT ![s] =
          IF unreadable \/ FailOpenOnTimeout THEN "fail_open" ELSE "error"]
    /\ circuit' = OnFailure
    /\ fresh' = fresh + 1 /\ UNCHANGED screens

ScreenTick ==
    /\ circuit.left > 0 /\ circuit' = [circuit EXCEPT !.left = @ - 1]
    /\ UNCHANGED <<screen, screens, fresh>>

ScreenNext == ScreenTick \/ \E s \in Screened :
    StartScreen(s) \/ ScreenAnswers(s) \/ ScreenFails(s)

ScreenSpec == ScreenInit /\ [][ScreenNext]_screenVars

-----------------------------------------------------------------------------
(* The breaker counts failures, a call is idle, under way or answered.     *)
ScreenTypeOK ==
    /\ circuit.state \in {"closed", "open", "half_open"}
    /\ circuit.left \in 0..OpenFor /\ circuit.fails \in 0..MaxScreens
    /\ \A s \in Screened : screen[s] \in {"idle", "asking"} \cup Outcomes

(* A broken model is left alone: MaxFails failures without an answer in    *)
(* between always open the breaker, while it tests one is enough, and it   *)
(* is never closed by the passing of time.                                 *)
BreakerOpens ==
    /\ fresh >= MaxFails => circuit.state = "open"
    /\ circuit.state = "half_open" => fresh = 0
    /\ circuit.state = "closed" => circuit.fails < MaxFails
=============================================================================
