------------------------------ MODULE AuthGate ------------------------------
(***************************************************************************)
(* The gate in front of the HTTP handlers: bearer tokens are validated,    *)
(* looked up in a revocation list kept in Redis, and given a tenant; a     *)
(* logout puts a token on the list for the rest of its life; the login     *)
(* callback and each tenant are rate limited. The signature, the issuer    *)
(* and the claims are checked by an OIDC library and are one outcome here: *)
(* a token is sound or names the reason it is refused for. Redis is        *)
(* external and each of its calls may fail.                                *)
(***************************************************************************)
EXTENDS Integers, Sequences, FiniteSets, FiniteSetsExt, SequencesExt

CONSTANTS AuthTokens,          \* jti of the sound tokens
          Requesters,      \* requests in the handlers at once
          Modes,           \* of config.Mode
          FailureModes,    \* of config.Revocation
          Limiters,        \* what the callback's limiter is built with
          MaxSecond,       \* bound: seconds that pass
          MaxRequests,     \* bound: requests made
          CallbackLimit, CallbackWindow,
          RefillSeconds, Burst   \* ratelimit: one token back per RefillSeconds

ASSUME AuthAssumption ==
    /\ Modes \subseteq {"strict", "permissive", "disabled"}
    /\ FailureModes \subseteq {"off", "fail-open", "fail-closed"}
    /\ Limiters \subseteq {"memory", "redis"}
    /\ MaxSecond \in Nat /\ MaxRequests \in Nat /\ CallbackLimit \in Nat \ {0}
    /\ CallbackWindow \in Nat \ {0} /\ RefillSeconds \in Nat \ {0} /\ Burst \in Nat \ {0}

VARIABLES
    setting,    \* [mode, revocation, limiter]
    second,
    exp,        \* Tokens -> the second the token expires after
    keys,       \* Tokens -> what Redis holds: Absent, Forever, or its last second
    request,    \* Requesters -> [at, path, token, answer]
    made,       \* requests so far
    revokedIDs,    \* history: tokens whose SADD went through
    passed,     \* history: [token, at, listed] of the checks that let a token in
    callback,   \* the caller's fixed window: [count, resetAt]
    admitted,   \* history: seconds at which callbacks were let through
    bucket,     \* the tenant's tokens, in RefillSeconds-ths
    allowed     \* history: seconds at which the tenant was let through

authTokenVars == <<exp, keys, request, made, revokedIDs, passed>>
limitVars == <<callback, admitted, bucket, allowed>>
authVars == <<setting, second, authTokenVars, limitVars>>

NoValue == -1
Forever == MaxSecond + 1
Free == [at |-> "free", path |-> "none", token |-> "none", answer |-> "none"]
NoWindow == [count |-> 0, resetAt |-> NoValue]

AuthInit ==
    /\ setting \in [mode : Modes, revocation : FailureModes, limiter : Limiters]
    /\ second = 0 /\ exp \in [AuthTokens -> 1..MaxSecond]
    /\ keys = [t \in AuthTokens |-> NoValue] /\ request = [r \in Requesters |-> Free] /\ made = 0
    /\ revokedIDs = {} /\ passed = {} /\ callback = NoWindow /\ admitted = <<>>
    /\ bucket = Burst * RefillSeconds /\ allowed = <<>>

-----------------------------------------------------------------------------
(* Validate: what the library and the claim checks refuse, then expiry.    *)
Refusals == {"invalid_signature", "invalid_aud", "invalid_iss", "invalid_nbf", "malformed"}
Validated(token) ==
    IF token \in Refusals THEN token ELSE IF second > exp[token] THEN "expired" ELSE "sound"

Reply(r, answer) == request' = [request EXCEPT ![r].at = "replied", ![r].answer = answer]
Enter(r, path, token, at, answer) ==
    request' = [request EXCEPT ![r] =
                  [at |-> at, path |-> path, token |-> token, answer |-> answer]]

(* What is known of a request before Redis is asked.                       *)
JWTValidation(path, token) ==
    CASE path = "allowlisted" \/ setting.mode = "disabled" -> "served"
      [] token = "none" -> IF setting.mode = "permissive" THEN "anonymous" ELSE "missing_token"
      [] OTHER -> IF Validated(token) = "sound" /\ setting.revocation = "off" THEN "served"
                  ELSE Validated(token)

RequestArrives(r) ==
    /\ request[r].at \in {"free", "replied"} /\ made < MaxRequests /\ made' = made + 1
    /\ \E path \in {"allowlisted", "api"}, token \in AuthTokens \cup {"none"} \cup Refusals :
          LET verdict == JWTValidation(path, token) IN
          Enter(r, path, token, IF verdict = "sound" THEN "check" ELSE "replied", verdict)
    /\ UNCHANGED <<setting, second, exp, keys, revokedIDs, passed, limitVars>>

Alive(token) == keys[token] >= second
CheckRevoked(r) == LET t == request[r].token IN
    /\ request[r].at = "check"
    /\ \/ /\ Reply(r, IF Alive(t) THEN "revoked" ELSE "served")
          /\ passed' = IF Alive(t) THEN passed
                       ELSE passed \cup {[token |-> t, at |-> second, listed |-> t \in revokedIDs]}
       \/ /\ Reply(r, IF setting.revocation = "fail-closed" THEN "revocation_check_unavailable"
                      ELSE "served")
          /\ UNCHANGED passed
    /\ UNCHANGED <<setting, second, exp, keys, made, revokedIDs, limitVars>>

(* Logout validates the token itself: its path is on the allowlist.        *)
Logout(r) ==
    /\ request[r].at \in {"free", "replied"} /\ made < MaxRequests /\ made' = made + 1
    /\ \E token \in AuthTokens \cup {"none"} \cup Refusals :
          CASE token = "none" -> Enter(r, "logout", token, "replied", "missing_token")
            [] token # "none" /\ Validated(token) # "sound" ->
                 Enter(r, "logout", token, "replied", Validated(token))
            [] OTHER -> IF setting.revocation = "off"
                        THEN Enter(r, "logout", token, "replied", "logged_out")
                        ELSE Enter(r, "logout", token, "add", "none")
    /\ UNCHANGED <<setting, second, exp, keys, revokedIDs, passed, limitVars>>

(* SADD keeps the life of a key that is there. A failed call is logged and *)
(* the logout is answered all the same.                                    *)
AddKey(r) == LET t == request[r].token IN
    /\ request[r].at = "add"
    /\ \/ /\ keys' = [keys EXCEPT ![t] = IF Alive(t) THEN @ ELSE Forever]
          /\ revokedIDs' = revokedIDs \cup {t}
          /\ request' = [request EXCEPT ![r].at = "expire"]
       \/ Reply(r, "logged_out") /\ UNCHANGED <<keys, revokedIDs>>
    /\ UNCHANGED <<setting, second, exp, made, passed, limitVars>>

Deadline_Fixed(t) == second + 1
Deadline(t) == exp[t]
ExpireKey(r) == LET t == request[r].token IN
    /\ request[r].at = "expire" /\ Reply(r, "logged_out")
    /\ \/ second < exp[t] /\ keys' = [keys EXCEPT ![t] = Deadline(t)]
       \/ UNCHANGED keys      \* no life left, or the call fails
    /\ UNCHANGED <<setting, second, exp, made, revokedIDs, passed, limitVars>>

-----------------------------------------------------------------------------
(* allowInMemory: a window starts with the first call after the last one.  *)
(* A limiter that was given a Redis client counts nothing: allowRedis is a *)
(* stub that lets every call through.                                      *)
AllowInMemory ==
    /\ callback' = IF callback.resetAt = NoValue \/ second > callback.resetAt
                   THEN [count |-> 1, resetAt |-> second + CallbackWindow]
                   ELSE [callback EXCEPT !.count = Min({@ + 1, CallbackLimit + 1})]
    /\ admitted' = IF callback'.count <= CallbackLimit THEN Append(admitted, second) ELSE admitted
AllowRedis == admitted' = Append(admitted, second) /\ UNCHANGED callback
CallbackAllow ==
    /\ Len(admitted) < 2 * CallbackLimit + 1    \* bound
    /\ \/ setting.limiter = "memory" /\ AllowInMemory
       \/ setting.limiter = "redis" /\ AllowRedis
    /\ UNCHANGED <<setting, second, authTokenVars, bucket, allowed>>

(* The tenant's limiter (golang.org/x/time/rate): a request takes a token. *)
HasToken == bucket >= RefillSeconds
TenantAllow ==
    /\ Len(allowed) <= Burst + MaxSecond \div RefillSeconds    \* bound: every token there is
    /\ IF HasToken
       THEN bucket' = bucket - RefillSeconds /\ allowed' = Append(allowed, second)
       ELSE UNCHANGED <<bucket, allowed>>
    /\ UNCHANGED <<setting, second, authTokenVars, callback, admitted>>

SecondPasses ==
    /\ second < MaxSecond /\ second' = second + 1
    /\ bucket' = Min({bucket + 1, Burst * RefillSeconds})
    /\ UNCHANGED <<setting, authTokenVars, callback, admitted, allowed>>

AuthTokenNext ==
    \/ \E r \in Requesters :
          RequestArrives(r) \/ CheckRevoked(r) \/ Logout(r) \/ AddKey(r) \/ ExpireKey(r)
    \/ SecondPasses
LimitNext == CallbackAllow \/ TenantAllow \/ SecondPasses
AuthNext == AuthTokenNext \/ LimitNext
AuthSpec == AuthInit /\ [][AuthNext]_authVars

-----------------------------------------------------------------------------
AuthTypeOK ==
    /\ second \in 0..MaxSecond /\ exp \in [AuthTokens -> 1..MaxSecond] /\ made \in 0..MaxRequests
    /\ keys \in [AuthTokens -> {NoValue, Forever} \cup 1..MaxSecond]
    /\ \A r \in Requesters :
          /\ request[r].at \in {"free", "check", "add", "expire", "replied"}
          /\ request[r].at \in {"check", "add", "expire"} => request[r].token \in AuthTokens
    /\ revokedIDs \subseteq AuthTokens /\ callback.count \in 0..(CallbackLimit + 1)
    /\ bucket \in 0..(Burst * RefillSeconds)

(* As long as a token lives, a check that Redis answers does not let it in *)
(* once it has been put on the list (CheckRevoked, RevokeToken): the key   *)
(* outlives the token, whatever logouts overlap, are repeated, or lose     *)
(* their EXPIRE.                                                           *)
RevokedStaysOut == \A p \in passed : p.listed => p.at > exp[p.token]

(* A limiter without Redis lets at most twice its limit of callbacks       *)
(* through in any window, the price of a fixed window                      *)
(* (RateLimiter.allowInMemory), and a tenant gets no more than its burst   *)
(* and what has been refilled since. Of a limiter with Redis nothing is    *)
(* said: it lets every callback through.                                   *)
During(seconds, from, to) == Cardinality({i \in DOMAIN seconds : seconds[i] \in from..to})
LimitsHold ==
    \A from \in 0..second :
       /\ setting.limiter = "memory" =>
             During(admitted, from, from + CallbackWindow - 1) <= 2 * CallbackLimit
       /\ During(allowed, from, second) <= Burst + (second - from) \div RefillSeconds

GateSound == RevokedStaysOut /\ LimitsHold
=============================================================================
