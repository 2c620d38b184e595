----------------------------- MODULE GateProofs -----------------------------
(***************************************************************************)
(* Proofs about who is let in and with which role, for any number of       *)
(* requests, tokens, servers, administrators and members. MCService runs   *)
(* one part at a time and leaves the others as they are, so a step of it   *)
(* is a step or a stutter of each part; a part's invariant is stated over  *)
(* the part's own next-state relation and carried over to ServiceSpec in   *)
(* AccessKept. The types of both parts are the last lemmas; SurfaceProofs  *)
(* puts the types of all parts together.                                   *)
(***************************************************************************)
EXTENDS MCService, FiniteSetTheorems, SequenceTheorems, TLAPS

-----------------------------------------------------------------------------
(* Members: as long as nothing was overwritten, a server that misses no    *)
(* change remembers the table, and the table has what was last given or    *)
(* taken.                                                                  *)
MemberTypes ==
    /\ server \in [Servers -> [at : {"down", "seeding", "up"}, memory : SUBSET TeamRoster]]
    /\ effect \in [TeamRoster -> {"none", "add", "remove"}]
    /\ table \subseteq TeamRoster
    /\ \A a \in Admins : admin[a].at # "idle" =>
          /\ admin[a].server \in Servers /\ server[admin[a].server].at = "up"
          /\ admin[a].member \in TeamRoster /\ admin[a].op \in {"add", "remove"}
Remembered ==
    \A s \in Servers \ behind : server[s].at # "down" => server[s].memory = table
TableKept == \A m \in TeamRoster : effect[m] = "add" <=> m \in table
MemberInv == /\ MemberTypes /\ behind \subseteq Servers
             /\ DOMAIN admin = Admins
             /\ overwritten \in BOOLEAN
             /\ ~overwritten => Remembered /\ TableKept

(* MembersInit: nobody is up and nothing is in the table.                *)
LEMMA MemberInitInv == MembersInit => MemberInv
<1> SUFFICES ASSUME MembersInit PROVE MemberInv
  OBVIOUS
<1>1. \A a \in Admins : admin[a].at = "idle"
  BY DEF MembersInit, NoAdmin
<1>2. \A s \in Servers : server[s].at = "down"
  BY DEF MembersInit, Down
<1>3. /\ server \in [Servers -> [at : {"down", "seeding", "up"}, memory : SUBSET TeamRoster]]
      /\ effect \in [TeamRoster -> {"none", "add", "remove"}] /\ table = {}
      /\ behind = {} /\ DOMAIN admin = Admins /\ overwritten = FALSE
  BY DEF MembersInit, Down
<1>4. TableKept
  BY DEF MembersInit, TableKept
<1> QED
  BY <1>1, <1>2, <1>3, <1>4 DEF MemberInv, MemberTypes, Remembered

(* A record with two fields that are given.                                *)
LEMMA ServerFields ==
    ASSUME MemberTypes, NEW s \in Servers
    PROVE  /\ server[s].at \in {"down", "seeding", "up"} /\ server[s].memory \in SUBSET TeamRoster
           /\ \A mem : [server[s] EXCEPT !.memory = mem] = [at |-> server[s].at, memory |-> mem]
           /\ \A place : [server[s] EXCEPT !.at = place] = [at |-> place, memory |-> server[s].memory]
<1> DEFINE S == [at : {"down", "seeding", "up"}, memory : SUBSET TeamRoster]
<1>1. server[s] \in S
  BY DEF MemberTypes
<1>2. ASSUME NEW x \in S
      PROVE  /\ x.at \in {"down", "seeding", "up"} /\ x.memory \in SUBSET TeamRoster
             /\ \A mem : [x EXCEPT !.memory = mem] = [at |-> x.at, memory |-> mem]
             /\ \A place : [x EXCEPT !.at = place] = [at |-> place, memory |-> x.memory]
  <2>1. x.at \in {"down", "seeding", "up"} /\ x.memory \in SUBSET TeamRoster
    OBVIOUS
  <2>2. ASSUME NEW mem PROVE [x EXCEPT !.memory = mem] = [at |-> x.at, memory |-> mem]
    OBVIOUS
  <2>3. ASSUME NEW place PROVE [x EXCEPT !.at = place] = [at |-> place, memory |-> x.memory]
    OBVIOUS
  <2> QED
    BY <2>1, <2>2, <2>3
<1> HIDE DEF S
<1> QED
  BY <1>1, <1>2

(* SavePolicy of a server that is not behind leaves the table as it is.    *)
LEMMA PolicySaved ==
    ASSUME MemberInv, NEW s \in Servers, SavePolicy(s), server[s].at # "down",
           ~overwritten'
    PROVE  s \notin behind /\ ~overwritten /\ table' = table /\ behind' = behind
BY DEF SavePolicy, MemberInv, Remembered

(* Every step of the servers and the administrators keeps the invariant: *)
(* the actions one by one, and under each what it disturbs.              *)
LEMMA MemberStep == MemberInv /\ [MembersNext]_memberVars => MemberInv'
<1> SUFFICES ASSUME MemberInv, [MembersNext]_memberVars PROVE MemberInv'
  OBVIOUS
<1>0. /\ MemberTypes /\ behind \subseteq Servers /\ DOMAIN admin = Admins /\ overwritten \in BOOLEAN
      /\ ~overwritten => Remembered /\ TableKept
  BY DEF MemberInv
<1>1. ASSUME NEW s \in Servers, StartServer(s) PROVE MemberInv'
  <2> DEFINE place == IF seeded THEN "up" ELSE "seeding"
  <2>1. /\ server[s].at = "down" /\ server' = [server EXCEPT ![s] = [at |-> place, memory |-> table]]
        /\ behind' = behind \ {s}
        /\ UNCHANGED <<table, admin, overwritten, effect>>
    BY <1>1 DEF StartServer
  <2>2. place \in {"seeding", "up"}
    OBVIOUS
  <2> HIDE DEF place
  <2>3. MemberTypes'
    BY <1>0, <2>1, <2>2 DEF MemberTypes
  <2>4. ~overwritten' => Remembered' /\ TableKept'
    BY <1>0, <2>1, <2>2 DEF MemberTypes, Remembered, TableKept
  <2> QED
    BY <1>0, <2>1, <2>3, <2>4 DEF MemberInv
<1>2. ASSUME NEW s \in Servers, BootstrapDefaultPolicy(s) PROVE MemberInv'
  <2>1. server[s].at = "seeding" /\ UNCHANGED <<admin, effect>>
    BY <1>2 DEF BootstrapDefaultPolicy
  <2>2. CASE server' = [server EXCEPT ![s].at = "up"] /\ SavePolicy(s)
    <3>1. server' = [server EXCEPT ![s] = [at |-> "up", memory |-> server[s].memory]]
      BY <1>0, <2>2, ServerFields
    <3>2. /\ table' = server[s].memory /\ overwritten' = (overwritten \/ s \in behind)
          /\ behind' \in SUBSET Servers
      BY <1>0, <2>2 DEF SavePolicy, OtherAdmins
    <3>3. server[s].memory \subseteq TeamRoster
      BY <1>0, ServerFields
    <3>4. MemberTypes'
      BY <1>0, <2>1, <3>1, <3>2, <3>3 DEF MemberTypes
    <3>5. ~overwritten' => Remembered' /\ TableKept'
      <4> SUFFICES ASSUME ~overwritten' PROVE Remembered' /\ TableKept'
        OBVIOUS
      <4>1. s \notin behind /\ ~overwritten /\ table' = table /\ behind' = behind
        BY <2>1, <2>2, PolicySaved
      <4> QED
        BY <1>0, <2>1, <3>1, <3>2, <4>1 DEF Remembered, TableKept, MemberTypes
    <3> QED
      BY <1>0, <2>1, <3>2, <3>4, <3>5 DEF MemberInv
  <2>3. CASE server' = [server EXCEPT ![s] = Down] /\ UNCHANGED <<seeded, table, behind, overwritten>>
    BY <1>0, <2>1, <2>3 DEF MemberInv, MemberTypes, Remembered, TableKept, Down
  <2> QED
    BY <1>2, <2>2, <2>3 DEF BootstrapDefaultPolicy
<1>3. ASSUME NEW s \in Servers, Reload(s) PROVE MemberInv'
  <2>1. /\ server[s].at = "up" /\ server' = [server EXCEPT ![s].memory = table]
        /\ behind' = behind \ {s} /\ UNCHANGED <<table, admin, overwritten, effect>>
    BY <1>3 DEF Reload
  <2>2. server' = [server EXCEPT ![s] = [at |-> "up", memory |-> table]]
    <3>1. [server[s] EXCEPT !.memory = table] = [at |-> server[s].at, memory |-> table]
      BY <1>0, ServerFields
    <3>2. server' = [server EXCEPT ![s] = [server[s] EXCEPT !.memory = table]]
      BY <2>1
    <3> QED
      BY <2>1, <3>1, <3>2
  <2>3. MemberTypes'
    BY <1>0, <2>1, <2>2 DEF MemberTypes
  <2>4. ~overwritten => Remembered'
    BY <1>0, <2>1, <2>2 DEF MemberTypes, Remembered
  <2>5. ~overwritten => TableKept'
    BY <1>0, <2>1 DEF TableKept
  <2> QED
    BY <1>0, <2>1, <2>3, <2>4, <2>5 DEF MemberInv
<1>4. ASSUME NEW a \in Admins, NEW s \in Servers, NEW op \in {"add", "remove"}, Ask(a, s, op)
      PROVE  MemberInv'
  <2>1. server[s].at = "up" /\ UNCHANGED <<table, server, behind, overwritten, effect>>
    BY <1>4 DEF Ask
  <2>2. CASE \E m \in TeamRoster : admin' = [admin EXCEPT ![a] =
                [at |-> "change", server |-> s, op |-> op, member |-> m, answer |-> "none"]]
    BY <1>0, <2>1, <2>2 DEF MemberInv, MemberTypes, Remembered, TableKept
  <2>3. CASE AdminAnswer(a, "refused")
    <3>1. admin'[a].at = "idle" /\ DOMAIN admin' = Admins /\ \A e \in Admins : e # a => admin'[e] = admin[e]
      BY <1>0, <2>3 DEF AdminAnswer
    <3> QED
      BY <1>0, <2>1, <3>1 DEF MemberInv, MemberTypes, Remembered, TableKept
  <2> QED
    BY <1>4, <2>2, <2>3 DEF Ask
<1>5. ASSUME NEW a \in Admins, ChangeRole(a) PROVE MemberInv'
  <2> DEFINE s == admin[a].server
             m == admin[a].member
             op == admin[a].op
             mem == IF op = "add" THEN server[s].memory \cup {m} ELSE server[s].memory \ {m}
  <2>1. /\ admin[a].at = "change" /\ s \in Servers /\ server[s].at = "up" /\ m \in TeamRoster
        /\ op \in {"add", "remove"}
    BY <1>0, <1>5 DEF ChangeRole, MemberTypes
  <2>2. CASE AdminAnswer(a, "error") /\ UNCHANGED <<table, server, behind, overwritten, effect>>
    <3>1. admin'[a].at = "idle" /\ DOMAIN admin' = Admins /\ \A e \in Admins : e # a => admin'[e] = admin[e]
      BY <1>0, <2>2 DEF AdminAnswer
    <3> QED
      BY <1>0, <2>2, <3>1 DEF MemberInv, MemberTypes, Remembered, TableKept
  <2>3. CASE /\ table' = WrittenThrough(s, op, m)
             /\ server' = [server EXCEPT ![s].memory = IF op = "add" THEN @ \cup {m} ELSE @ \ {m}]
             /\ behind' = behind \cup OtherAdmins(s) /\ overwritten' = (overwritten \/ s \in behind)
             /\ effect' = [effect EXCEPT ![m] = op]
             /\ admin' = [admin EXCEPT ![a].at = "save"]
    <3>1. server' = [server EXCEPT ![s] = [at |-> "up", memory |-> mem]]
      <4>1. server' = [server EXCEPT ![s] = [server[s] EXCEPT !.memory = mem]]
        BY <2>3
      <4> HIDE DEF mem, s
      <4>2. [server[s] EXCEPT !.memory = mem] = [at |-> server[s].at, memory |-> mem]
        BY <1>0, <2>1, ServerFields
      <4> QED
        BY <2>1, <4>1, <4>2
    <3>2. server[s].memory \subseteq TeamRoster
      BY <1>0, <2>1, ServerFields
    <3>3. mem \subseteq TeamRoster
      BY <2>1, <3>2
    <3>4. /\ DOMAIN admin' = Admins /\ \A e \in Admins : e # a => admin'[e] = admin[e]
          /\ admin'[a].server = s /\ admin'[a].member = m /\ admin'[a].op = op
      <4>1. admin' = [admin EXCEPT ![a] = [admin[a] EXCEPT !.at = "save"]]
        BY <2>3
      <4>2. \A r : [r EXCEPT !.at = "save"].server = r.server /\ [r EXCEPT !.at = "save"].member = r.member
                   /\ [r EXCEPT !.at = "save"].op = r.op
        OBVIOUS
      <4> QED
        BY <1>0, <4>1, <4>2
    <3>5. table' \subseteq TeamRoster
      BY <1>0, <2>1, <2>3 DEF WrittenThrough, MemberTypes
    <3> HIDE DEF mem, s, m, op
    <3>6. \A e \in Servers : server'[e].at = server[e].at
      BY <1>0, <2>1, <3>1 DEF MemberTypes
    <3>7. server' \in [Servers -> [at : {"down", "seeding", "up"}, memory : SUBSET TeamRoster]]
      BY <1>0, <2>1, <3>1, <3>3 DEF MemberTypes
    <3>8. effect' \in [TeamRoster -> {"none", "add", "remove"}]
      BY <1>0, <2>1, <2>3 DEF MemberTypes
    <3>9. ASSUME NEW e \in Admins, admin'[e].at # "idle"
          PROVE  /\ admin'[e].server \in Servers /\ server'[admin'[e].server].at = "up"
                 /\ admin'[e].member \in TeamRoster /\ admin'[e].op \in {"add", "remove"}
      <4>1. CASE e = a
        BY <2>1, <3>4, <3>6, <4>1
      <4>2. CASE e # a
        BY <1>0, <3>4, <3>6, <3>9, <4>2 DEF MemberTypes
      <4> QED
        BY <4>1, <4>2
    <3>10. MemberTypes'
      BY <3>5, <3>7, <3>8, <3>9 DEF MemberTypes
    <3>11. ~overwritten' => Remembered' /\ TableKept'
      <4> SUFFICES ASSUME ~overwritten' PROVE Remembered' /\ TableKept'
        OBVIOUS
      <4>1. ~overwritten /\ s \notin behind /\ server[s].memory = table
        BY <1>0, <2>1, <2>3 DEF Remembered
      <4>2. table' = mem
        BY <2>1, <2>3, <4>1 DEF WrittenThrough, mem
      <4>3. \A e \in TeamRoster : /\ effect'[e] = IF e = m THEN op ELSE effect[e]
                                  /\ e \in mem <=> IF e = m THEN op = "add" ELSE e \in table
        BY <1>0, <2>1, <2>3, <4>1 DEF MemberTypes, mem
      <4>4. TableKept'
        BY <1>0, <2>1, <4>1, <4>2, <4>3 DEF TableKept
      <4>5. ASSUME NEW e \in Servers \ behind', server'[e].at # "down" PROVE server'[e].memory = table'
        <5>1. CASE e = s
          BY <1>0, <2>1, <3>1, <4>2, <5>1 DEF MemberTypes
        <5>2. CASE e # s
          <6>1. e \in OtherAdmins(s)
            BY <3>6, <4>5, <5>2 DEF OtherAdmins
          <6> QED
            BY <2>3, <4>5, <6>1
        <5> QED
          BY <5>1, <5>2
      <4> QED
        BY <4>4, <4>5 DEF Remembered
    <3>12. behind' \subseteq Servers /\ overwritten' \in BOOLEAN
      BY <1>0, <2>3 DEF OtherAdmins
    <3> QED
      BY <3>4, <3>10, <3>11, <3>12 DEF MemberInv
  <2> QED
    BY <1>5, <2>2, <2>3 DEF ChangeRole
<1>6. ASSUME NEW a \in Admins, SaveChange(a) PROVE MemberInv'
  <2> DEFINE s == admin[a].server
  <2>1. /\ admin[a].at = "save" /\ s \in Servers /\ server[s].at = "up"
        /\ UNCHANGED <<server, effect>>
    BY <1>0, <1>6 DEF SaveChange, MemberTypes
  <2>2. \A answer : AdminAnswer(a, answer) => /\ admin'[a].at = "idle" /\ DOMAIN admin' = Admins
                                              /\ \A e \in Admins : e # a => admin'[e] = admin[e]
    BY <1>0 DEF AdminAnswer
  <2>3. CASE SavePolicy(s) /\ AdminAnswer(a, "done")
    <3>1. /\ table' = server[s].memory /\ overwritten' = (overwritten \/ s \in behind)
          /\ behind' \subseteq Servers
      BY <1>0, <2>3 DEF SavePolicy, OtherAdmins
    <3>2. server[s].memory \subseteq TeamRoster
      BY <1>0, <2>1, ServerFields
    <3>3. MemberTypes'
      BY <1>0, <2>1, <2>2, <2>3, <3>1, <3>2 DEF MemberTypes
    <3>4. ~overwritten' => Remembered' /\ TableKept'
      <4> SUFFICES ASSUME ~overwritten' PROVE Remembered' /\ TableKept'
        OBVIOUS
      <4>1. s \notin behind /\ ~overwritten /\ table' = table /\ behind' = behind
        BY <2>1, <2>3, PolicySaved
      <4> QED
        BY <1>0, <2>1, <4>1 DEF Remembered, TableKept
    <3> QED
      BY <1>0, <2>2, <2>3, <3>1, <3>3, <3>4 DEF MemberInv
  <2>4. CASE AdminAnswer(a, "error") /\ UNCHANGED <<seeded, table, behind, overwritten>>
    <3>1. MemberTypes'
      BY <1>0, <2>1, <2>2, <2>4 DEF MemberTypes
    <3> QED
      BY <1>0, <2>1, <2>2, <2>4, <3>1 DEF MemberInv, Remembered, TableKept
  <2> QED
    BY <1>6, <2>3, <2>4 DEF SaveChange
<1>7. CASE UNCHANGED memberVars
  BY <1>7 DEF memberVars, MemberInv, MemberTypes, Remembered, TableKept
<1> QED
  BY <1>1, <1>2, <1>3, <1>4, <1>5, <1>6, <1>7 DEF MembersNext

(* What the administrators were answered is what a server allows.        *)
LEMMA MemberInvKept == MemberInv => MembershipKept
<1> SUFFICES ASSUME MemberInv, ~overwritten PROVE MembershipKept
  BY DEF MembershipKept
<1>1. Remembered /\ TableKept /\ table \subseteq TeamRoster
  BY DEF MemberInv, MemberTypes
<1>2. ASSUME NEW s \in Servers \ behind, NEW user, NEW team, NEW resource, server[s].at = "up"
      PROVE  Allowed(s, user, team, resource) <=> TeamScope(team) # "" /\ Holds(user, TeamScope(team), resource)
  <2>1. server[s].memory = table
    BY <1>1, <1>2 DEF Remembered
  <2>2. \A scope : Enforce(s, user, scope, resource) <=> Holds(user, scope, resource)
    BY <1>1, <2>1 DEF Enforce, Holds, TableKept
  <2> QED
    BY <2>2 DEF Allowed
<1> QED
  BY <1>1, <1>2 DEF MembershipKept, TableKept

-----------------------------------------------------------------------------
(* The revocation list: a token put on it has a key that lasts at least as *)
(* long as the token. What a logout still has to expire it has added.      *)
ListInv ==
    /\ second \in 0..MaxSecond
    /\ exp \in [AuthTokens -> 1..MaxSecond]
    /\ DOMAIN keys = AuthTokens /\ DOMAIN request = Requesters
    /\ revokedIDs \subseteq AuthTokens
    /\ \A t \in AuthTokens :
          /\ keys[t] \in {NoValue, Forever, exp[t]}
          /\ t \in revokedIDs => keys[t] # NoValue
    /\ \A r \in Requesters : request[r].at \in {"check", "add", "expire"} => request[r].token \in AuthTokens
    /\ \A r \in Requesters : request[r].at = "expire" => request[r].token \in revokedIDs
    /\ RevokedStaysOut

(* At first no key is kept and nobody was let in.                        *)
LEMMA ListInitInv == AuthInit => ListInv
<1> SUFFICES ASSUME AuthInit PROVE ListInv
  OBVIOUS
<1>1. \A r \in Requesters : request[r].at = "free"
  BY DEF AuthInit, Free
<1>2. passed = {} /\ revokedIDs = {} /\ DOMAIN request = Requesters /\ second = 0
  BY DEF AuthInit
<1>3. /\ exp \in [AuthTokens -> 1..MaxSecond] /\ DOMAIN keys = AuthTokens
      /\ \A t \in AuthTokens : keys[t] = NoValue
  BY DEF AuthInit
<1> QED
  BY <1>1, <1>2, <1>3, AuthAssumption DEF ListInv, RevokedStaysOut

(* A request that moves on without touching the list.                      *)
LEMMA RequestMoves ==
    ASSUME ListInv, NEW r \in Requesters, UNCHANGED <<second, exp, keys, revokedIDs>>,
           RevokedStaysOut',
           DOMAIN request' = Requesters,
           \A e \in Requesters : e # r => request'[e] = request[e],
           request'[r].at \in {"check", "add"} => request'[r].token \in AuthTokens,
           request'[r].at # "expire"
    PROVE  ListInv'
<1>1. ASSUME NEW e \in Requesters
      PROVE  /\ request'[e].at \in {"check", "add", "expire"} => request'[e].token \in AuthTokens
             /\ request'[e].at = "expire" => request'[e].token \in revokedIDs
  BY DEF ListInv
<1> QED
  BY <1>1 DEF ListInv

(* What a request is once it has arrived ...                             *)
LEMMA Entered ==
    ASSUME DOMAIN request = Requesters, NEW r \in Requesters, NEW path, NEW token, NEW place, NEW answer,
           Enter(r, path, token, place, answer)
    PROVE  /\ DOMAIN request' = Requesters /\ \A e \in Requesters : e # r => request'[e] = request[e]
           /\ request'[r].at = place /\ request'[r].token = token
BY DEF Enter

(* ... and once it is answered.                                          *)
LEMMA Answered ==
    ASSUME DOMAIN request = Requesters, NEW r \in Requesters, NEW answer, Reply(r, answer)
    PROVE  /\ DOMAIN request' = Requesters /\ \A e \in Requesters : e # r => request'[e] = request[e]
           /\ request'[r].at = "replied"
BY DEF Reply

(* A token that may still be checked or revoked is a sound one.            *)
LEMMA SoundToken ==
    ASSUME NEW token \in AuthTokens \cup {"none"} \cup Refusals, token # "none",
           Validated(token) = "sound"
    PROVE  token \in AuthTokens
BY DEF Validated, Refusals

(* JWTValidation hands on only a token that Validate found sound.        *)
LEMMA SoundVerdict ==
    ASSUME NEW path, NEW token \in AuthTokens \cup {"none"} \cup Refusals,
           JWTValidation(path, token) = "sound"
    PROVE  token \in AuthTokens
<1>1. token # "none" /\ Validated(token) = "sound"
  BY DEF JWTValidation
<1> QED
  BY <1>1, SoundToken

(* Every step keeps the list: a check reads the key, a logout adds it and*)
(* expires it with the token, and a second passes.                       *)
LEMMA ListStep == ListInv /\ [AuthNext]_authVars => ListInv'
<1> SUFFICES ASSUME ListInv, [AuthNext]_authVars PROVE ListInv'
  OBVIOUS
<1>0. /\ DOMAIN request = Requesters /\ DOMAIN keys = AuthTokens /\ second \in 0..MaxSecond
      /\ exp \in [AuthTokens -> 1..MaxSecond] /\ MaxSecond \in Nat
      /\ \A t \in AuthTokens : /\ keys[t] \in {NoValue, Forever, exp[t]}
                               /\ t \in revokedIDs => keys[t] # NoValue
      /\ RevokedStaysOut
  BY AuthAssumption DEF ListInv
<1>1. ASSUME NEW r \in Requesters, RequestArrives(r) PROVE ListInv'
  <2>1. UNCHANGED <<second, exp, keys, revokedIDs, passed>>
    BY <1>1 DEF RequestArrives
  <2>2. PICK path \in {"allowlisted", "api"}, token \in AuthTokens \cup {"none"} \cup Refusals :
           Enter(r, path, token, IF JWTValidation(path, token) = "sound" THEN "check" ELSE "replied",
                 JWTValidation(path, token))
    BY <1>1 DEF RequestArrives
  <2>3. /\ DOMAIN request' = Requesters /\ \A e \in Requesters : e # r => request'[e] = request[e]
        /\ request'[r].at = (IF JWTValidation(path, token) = "sound" THEN "check" ELSE "replied")
        /\ request'[r].token = token
    BY <1>0, <2>2, Entered
  <2>4. request'[r].at \in {"check", "replied"}
        /\ (request'[r].at = "check" => request'[r].token \in AuthTokens)
    BY <2>3, SoundVerdict
  <2> QED
    BY <1>0, <2>1, <2>3, <2>4, RequestMoves DEF RevokedStaysOut
<1>2. ASSUME NEW r \in Requesters, CheckRevoked(r) PROVE ListInv'
  <2> DEFINE t == request[r].token
  <2>1. /\ request[r].at = "check" /\ UNCHANGED <<second, exp, keys, revokedIDs>>
        /\ \E answer : Reply(r, answer)
        /\ passed' \subseteq passed \cup (IF Alive(t) THEN {} ELSE {[token |-> t, at |-> second, listed |-> t \in revokedIDs]})
    BY <1>2 DEF CheckRevoked
  <2>2. /\ DOMAIN request' = Requesters /\ \A e \in Requesters : e # r => request'[e] = request[e]
        /\ request'[r].at = "replied"
    BY <1>0, <2>1, Answered
  <2>3. t \in AuthTokens
    BY <2>1 DEF ListInv
  <2>4. ~Alive(t) /\ t \in revokedIDs => second > exp[t]
    BY <1>0, <2>3 DEF Alive, Forever
  <2>5. RevokedStaysOut'
    <3> SUFFICES ASSUME NEW e \in passed', e.listed PROVE e.at > exp[e.token]
      BY <2>1 DEF RevokedStaysOut
    <3>1. CASE e \in passed
      BY <1>0, <3>1 DEF RevokedStaysOut
    <3>2. CASE e \notin passed
      <4>1. ~Alive(t) /\ e = [token |-> t, at |-> second, listed |-> t \in revokedIDs]
        BY <2>1, <3>2
      <4> HIDE DEF t
      <4>2. e.token = t /\ e.at = second /\ e.listed = (t \in revokedIDs)
        BY <4>1
      <4> QED
        BY <2>4, <4>1, <4>2
    <3> QED
      BY <3>1, <3>2
  <2> QED
    BY <2>1, <2>2, <2>5, RequestMoves
<1>3. ASSUME NEW r \in Requesters, Logout(r) PROVE ListInv'
  <2>1. UNCHANGED <<second, exp, keys, revokedIDs, passed>>
    BY <1>3 DEF Logout
  <2>2. PICK token \in AuthTokens \cup {"none"} \cup Refusals :
          CASE token = "none" -> Enter(r, "logout", token, "replied", "missing_token")
            [] token # "none" /\ Validated(token) # "sound" ->
                 Enter(r, "logout", token, "replied", Validated(token))
            [] OTHER -> IF setting.revocation = "off"
                        THEN Enter(r, "logout", token, "replied", "logged_out")
                        ELSE Enter(r, "logout", token, "add", "none")
    BY <1>3 DEF Logout
  <2>3. \/ \E answer : Enter(r, "logout", token, "replied", answer)
        \/ token # "none" /\ Validated(token) = "sound" /\ Enter(r, "logout", token, "add", "none")
    <3>1. CASE token = "none"
      BY <2>2, <3>1
    <3>2. CASE token # "none" /\ Validated(token) # "sound"
      BY <2>2, <3>2
    <3>3. CASE token # "none" /\ Validated(token) = "sound"
      <4>1. IF setting.revocation = "off"
            THEN Enter(r, "logout", token, "replied", "logged_out")
            ELSE Enter(r, "logout", token, "add", "none")
        BY <2>2, <3>3
      <4> QED
        BY <3>3, <4>1
    <3> QED
      BY <3>1, <3>2, <3>3
  <2>4. /\ DOMAIN request' = Requesters /\ \A e \in Requesters : e # r => request'[e] = request[e]
        /\ request'[r].at \in {"replied", "add"} /\ request'[r].token = token
        /\ request'[r].at = "add" => token # "none" /\ Validated(token) = "sound"
    <3>1. CASE \E answer : Enter(r, "logout", token, "replied", answer)
      BY <1>0, <3>1, Entered
    <3>2. CASE token # "none" /\ Validated(token) = "sound" /\ Enter(r, "logout", token, "add", "none")
      BY <1>0, <3>2, Entered
    <3> QED
      BY <2>3, <3>1, <3>2
  <2> QED
    BY <1>0, <2>1, <2>4, RequestMoves, SoundToken DEF RevokedStaysOut
<1>4. ASSUME NEW r \in Requesters, AddKey(r) PROVE ListInv'
  <2> DEFINE t == request[r].token
  <2>1. request[r].at = "add" /\ UNCHANGED <<second, exp, passed>> /\ t \in AuthTokens
    BY <1>4 DEF AddKey, ListInv
  <2>2. CASE Reply(r, "logged_out") /\ UNCHANGED <<keys, revokedIDs>>
    <3>1. /\ DOMAIN request' = Requesters /\ \A e \in Requesters : e # r => request'[e] = request[e]
          /\ request'[r].at = "replied"
      BY <1>0, <2>2, Answered
    <3> QED
      BY <1>0, <2>1, <2>2, <3>1, RequestMoves DEF RevokedStaysOut
  <2>3. CASE /\ keys' = [keys EXCEPT ![t] = IF Alive(t) THEN @ ELSE Forever]
             /\ revokedIDs' = revokedIDs \cup {t}
             /\ request' = [request EXCEPT ![r].at = "expire"]
    <3>1. /\ DOMAIN request' = Requesters /\ \A e \in Requesters : e # r => request'[e] = request[e]
          /\ request'[r].at = "expire" /\ request'[r].token = t
      BY <1>0, <2>3
    <3>2. DOMAIN keys' = AuthTokens /\ \A u \in AuthTokens : u # t => keys'[u] = keys[u]
      BY <1>0, <2>3
    <3>3. keys'[t] \in {Forever, exp[t]} /\ keys'[t] # NoValue
      <4>1. keys'[t] = IF Alive(t) THEN keys[t] ELSE Forever
        BY <1>0, <2>1, <2>3
      <4>2. Alive(t) => keys[t] # NoValue
        BY <1>0 DEF Alive, NoValue
      <4>3. Forever # NoValue
        BY <1>0 DEF Forever, NoValue
      <4> QED
        BY <1>0, <2>1, <4>1, <4>2, <4>3
    <3> HIDE DEF t
    <3>4. \A u \in AuthTokens :
             /\ keys'[u] \in {NoValue, Forever, exp[u]}
             /\ u \in revokedIDs' => keys'[u] # NoValue
      BY <1>0, <2>3, <3>2, <3>3
    <3>5. ASSUME NEW e \in Requesters
          PROVE  /\ request'[e].at \in {"check", "add", "expire"} => request'[e].token \in AuthTokens
                 /\ request'[e].at = "expire" => request'[e].token \in revokedIDs'
      BY <2>1, <2>3, <3>1 DEF ListInv
    <3>6. revokedIDs' \subseteq AuthTokens
      BY <2>1, <2>3 DEF ListInv
    <3>7. RevokedStaysOut'
      BY <1>0, <2>1 DEF RevokedStaysOut
    <3>8. second' \in 0..MaxSecond /\ exp' \in [AuthTokens -> 1..MaxSecond] /\ exp' = exp
      BY <1>0, <2>1
    <3>9. DOMAIN keys' = AuthTokens /\ DOMAIN request' = Requesters
      BY <3>1, <3>2
    <3> QED
      BY <3>4, <3>5, <3>6, <3>7, <3>8, <3>9 DEF ListInv, NoValue, Forever
  <2> QED
    BY <1>4, <2>2, <2>3 DEF AddKey
<1>5. ASSUME NEW r \in Requesters, ExpireKey(r) PROVE ListInv'
  <2> DEFINE t == request[r].token
  <2>1. /\ request[r].at = "expire" /\ UNCHANGED <<second, exp, revokedIDs, passed>>
        /\ Reply(r, "logged_out") /\ t \in AuthTokens
        /\ keys' = keys \/ keys' = [keys EXCEPT ![t] = exp[t]]
    BY <1>5 DEF ExpireKey, ListInv, Deadline
  <2>2. /\ DOMAIN request' = Requesters /\ \A e \in Requesters : e # r => request'[e] = request[e]
        /\ request'[r].at = "replied"
    BY <1>0, <2>1, Answered
  <2>3. exp[t] # NoValue
    BY <1>0, <2>1 DEF NoValue
  <2> HIDE DEF t
  <2>4. \A u \in AuthTokens :
           /\ keys'[u] \in {NoValue, Forever, exp[u]}
           /\ u \in revokedIDs => keys'[u] # NoValue
    BY <1>0, <2>1, <2>3
  <2>5. DOMAIN keys' = AuthTokens
    BY <1>0, <2>1
  <2>6. RevokedStaysOut'
    BY <1>0, <2>1 DEF RevokedStaysOut
  <2>7. ASSUME NEW e \in Requesters
        PROVE  /\ request'[e].at \in {"check", "add", "expire"} => request'[e].token \in AuthTokens
               /\ request'[e].at = "expire" => request'[e].token \in revokedIDs
    BY <2>2 DEF ListInv
  <2> QED
    BY <1>0, <2>1, <2>2, <2>4, <2>5, <2>6, <2>7 DEF ListInv, NoValue, Forever
<1>6. CASE SecondPasses
  BY <1>0, <1>6 DEF SecondPasses, authTokenVars, ListInv, RevokedStaysOut, NoValue, Forever
<1>7. CASE UNCHANGED <<second, authTokenVars>>
  BY <1>7 DEF authTokenVars, ListInv, RevokedStaysOut, NoValue, Forever
<1> QED
  BY <1>1, <1>2, <1>3, <1>4, <1>5, <1>6, <1>7
     DEF AuthNext, AuthTokenNext, LimitNext, CallbackAllow, TenantAllow, authVars

-----------------------------------------------------------------------------
(* How many of a sequence's seconds lie between two.                       *)
Within(s, a, b) == {i \in DOMAIN s : s[i] \in a..b}

(* During counts a finite set of a sequence's places.                    *)
LEMMA WithinFinite ==
    ASSUME NEW s \in Seq(Nat), NEW a \in Int, NEW b \in Int
    PROVE  /\ IsFiniteSet(Within(s, a, b)) /\ During(s, a, b) = Cardinality(Within(s, a, b))
           /\ During(s, a, b) \in Nat /\ DOMAIN s = 1..Len(s)
<1>1. DOMAIN s = 1..Len(s) /\ Len(s) \in Nat
  BY LenProperties
<1>2. IsFiniteSet(DOMAIN s)
  BY <1>1, FS_Interval
<1>3. IsFiniteSet(Within(s, a, b))
  BY <1>2, FS_Subset DEF Within
<1>4. During(s, a, b) = Cardinality(Within(s, a, b))
  BY DEF During, Within
<1> QED
  BY <1>1, <1>3, <1>4, FS_CardinalityType

(* More seconds count in a wider interval.                                 *)
LEMMA DuringWithin ==
    ASSUME NEW s \in Seq(Nat), NEW a \in Int, NEW b \in Int, NEW c \in Int, NEW d \in Int,
           \A i \in 1..Len(s) : s[i] \in a..b => s[i] \in c..d
    PROVE  During(s, a, b) <= During(s, c, d)
<1>1. DOMAIN s = 1..Len(s)
  BY WithinFinite
<1>2. Within(s, a, b) \subseteq Within(s, c, d)
  BY <1>1 DEF Within
<1>3. Cardinality(Within(s, a, b)) <= Cardinality(Within(s, c, d))
  BY <1>2, WithinFinite, FS_Subset
<1> QED
  BY <1>3, WithinFinite

(* An interval counts no more than its two parts.                          *)
LEMMA DuringSplit ==
    ASSUME NEW s \in Seq(Nat), NEW a \in Int, NEW b \in Int, NEW c \in Int
    PROVE  During(s, a, c) <= During(s, a, b - 1) + During(s, b, c)
<1> DEFINE A == Within(s, a, c)
           B == Within(s, a, b - 1)
           C == Within(s, b, c)
<1>1. /\ IsFiniteSet(A) /\ IsFiniteSet(B) /\ IsFiniteSet(C)
      /\ During(s, a, c) = Cardinality(A) /\ During(s, a, b - 1) = Cardinality(B)
      /\ During(s, b, c) = Cardinality(C) /\ DOMAIN s = 1..Len(s)
  BY WithinFinite
<1>2. \A i \in 1..Len(s) : s[i] \in Nat
  BY ElementOfSeq
<1>3. A \subseteq B \cup C
  BY <1>1, <1>2 DEF Within
<1> HIDE DEF A, B, C
<1>4. /\ IsFiniteSet(B \cup C) /\ IsFiniteSet(B \cap C)
      /\ Cardinality(B \cup C) = Cardinality(B) + Cardinality(C) - Cardinality(B \cap C)
  BY <1>1, FS_Union, FS_Intersection
<1>5. Cardinality(A) <= Cardinality(B \cup C)
  BY <1>3, <1>4, FS_Subset
<1>6. /\ Cardinality(A) \in Nat /\ Cardinality(B) \in Nat /\ Cardinality(C) \in Nat
      /\ Cardinality(B \cap C) \in Nat /\ Cardinality(B \cup C) \in Nat
  BY <1>1, <1>4, FS_CardinalityType
<1> QED
  BY <1>1, <1>4, <1>5, <1>6

(* One second more, and one more is counted if it lies between.            *)
LEMMA DuringAppend ==
    ASSUME NEW s \in Seq(Nat), NEW x \in Nat, NEW a \in Int, NEW b \in Int
    PROVE  /\ Append(s, x) \in Seq(Nat)
           /\ During(Append(s, x), a, b) = During(s, a, b) + (IF x \in a..b THEN 1 ELSE 0)
<1> DEFINE t == Append(s, x)
           n == Len(s)
<1>1. /\ t \in Seq(Nat) /\ Len(t) = n + 1 /\ t[n + 1] = x /\ \A i \in 1..n : t[i] = s[i]
      /\ n \in Nat
  BY AppendProperties, LenProperties
<1>2. /\ IsFiniteSet(Within(s, a, b)) /\ During(s, a, b) = Cardinality(Within(s, a, b))
      /\ During(t, a, b) = Cardinality(Within(t, a, b)) /\ DOMAIN s = 1..n /\ DOMAIN t = 1..Len(t)
      /\ During(s, a, b) \in Nat
  BY <1>1, WithinFinite
<1> HIDE DEF t, n
<1>3. n + 1 \notin Within(s, a, b)
  BY <1>1, <1>2 DEF Within
<1>4. DOMAIN t = (1..n) \cup {n + 1}
  BY <1>1, <1>2
<1>5. CASE x \in a..b
  <2>1. Within(t, a, b) = Within(s, a, b) \cup {n + 1}
    BY <1>1, <1>2, <1>4, <1>5 DEF Within
  <2>2. Cardinality(Within(t, a, b)) = Cardinality(Within(s, a, b)) + 1
    BY <1>2, <1>3, <2>1, FS_AddElement
  <2> QED
    BY <1>1, <1>2, <1>5, <2>2 DEF t
<1>6. CASE x \notin a..b
  <2>1. Within(t, a, b) = Within(s, a, b)
    BY <1>1, <1>2, <1>4, <1>6 DEF Within
  <2> QED
    BY <1>1, <1>2, <1>6, <2>1 DEF t
<1> QED
  BY <1>5, <1>6

(* Nothing is counted where no second lies.                              *)
LEMMA DuringNone ==
    ASSUME NEW s \in Seq(Nat), NEW a \in Int, NEW b \in Int,
           \A i \in 1..Len(s) : s[i] \notin a..b
    PROVE  During(s, a, b) = 0
<1>1. Within(s, a, b) = {}
  BY WithinFinite DEF Within
<1> QED
  BY <1>1, WithinFinite, FS_EmptySet

(* Nothing is counted of a second that is still to come.                   *)
LEMMA DuringLater ==
    ASSUME NEW s \in Seq(Nat), NEW m \in Nat, NEW a \in Int, \A i \in 1..Len(s) : s[i] <= m
    PROVE  /\ During(s, a, m + 1) <= During(s, a, m)
           /\ \A i \in 1..Len(s) : s[i] <= m + 1
<1>1. m + 1 \in Int /\ m \in Int
  OBVIOUS
<1>2. \A i \in 1..Len(s) : s[i] \in Nat
  BY ElementOfSeq
<1>3. \A i \in 1..Len(s) : s[i] \in a..(m + 1) => s[i] \in a..m
  BY <1>2
<1>4. During(s, a, m + 1) <= During(s, a, m)
  BY <1>1, <1>3, DuringWithin
<1> QED
  BY <1>2, <1>4

(* One more second within a bound.                                       *)
LEMMA AppendBounded ==
    ASSUME NEW s \in Seq(Nat), NEW x \in Nat, \A i \in 1..Len(s) : s[i] <= x
    PROVE  /\ Append(s, x) \in Seq(Nat) /\ \A i \in 1..Len(Append(s, x)) : Append(s, x)[i] <= x
<1> DEFINE n == Len(s)
           t == Append(s, x)
<1>1. /\ t \in Seq(Nat) /\ Len(t) = n + 1 /\ t[n + 1] = x /\ n \in Nat
      /\ \A i \in 1..n : t[i] = s[i]
  BY AppendProperties, LenProperties
<1> HIDE DEF t
<1>2. ASSUME NEW i \in 1..(n + 1) PROVE t[i] <= x
  <2>1. CASE i = n + 1
    BY <1>1, <2>1
  <2>2. CASE i \in 1..n
    BY <1>1, <2>2
  <2> QED
    BY <1>1, <2>1, <2>2
<1>3. t \in Seq(Nat) /\ \A i \in 1..Len(t) : t[i] <= x
  BY <1>1, <1>2
<1> QED
  BY <1>3 DEF t

(* The smaller of two numbers, which the module takes from a set.        *)
LEMMA MinOfTwo == \A x, y \in Int : Min({x, y}) = IF x <= y THEN x ELSE y
<1> SUFFICES ASSUME NEW x \in Int, NEW y \in Int PROVE Min({x, y}) = IF x <= y THEN x ELSE y
  OBVIOUS
<1> DEFINE m == Min({x, y})
<1>1. \E e \in {x, y} : \A d \in {x, y} : e <= d
  <2>1. CASE x <= y
    BY <2>1
  <2>2. CASE y <= x
    BY <2>2
  <2> QED
    BY <2>1, <2>2
<1>2. m \in {x, y} /\ \A d \in {x, y} : m <= d
  BY <1>1 DEF Min
<1> QED
  BY <1>2

-----------------------------------------------------------------------------
(* The callback's window: what it has let through since it began, and what *)
(* the one before it let through, is at most the limit each.               *)
Began == callback.resetAt - CallbackWindow
WindowKept ==
    /\ callback.resetAt = NoValue => \A i \in 1..Len(admitted) : FALSE
    /\ callback.resetAt # NoValue =>
          /\ Began \in 0..second /\ \A i \in 1..Len(admitted) : admitted[i] <= callback.resetAt
          /\ During(admitted, Began, second) <= callback.count
          /\ During(admitted, Began, second) <= CallbackLimit
          /\ \A a \in Nat : a >= Began - CallbackWindow => During(admitted, a, Began - 1) <= CallbackLimit
    /\ \A a \in Nat : During(admitted, a, a + CallbackWindow - 1) <= 2 * CallbackLimit
(* Of a limiter with Redis only the types are known: it counts nothing.    *)
WindowInv ==
    /\ admitted \in Seq(Nat) /\ \A i \in 1..Len(admitted) : admitted[i] <= second
    /\ callback \in [count : 0..(CallbackLimit + 1), resetAt : Int]
    /\ setting.limiter = "memory" => WindowKept

(* The tenant's bucket: what was let through since any second, and what is *)
(* left, was in the full bucket or has been refilled since.                *)
BucketInv ==
    /\ allowed \in Seq(Nat) /\ \A i \in 1..Len(allowed) : allowed[i] <= second
    /\ bucket \in 0..(Burst * RefillSeconds)
    /\ \A a \in 0..second :
          RefillSeconds * During(allowed, a, second) + bucket <= Burst * RefillSeconds + (second - a)

LimitInv == second \in Nat /\ WindowInv /\ BucketInv

(* At first there is no window and the bucket is full.                   *)
LEMMA LimitInitInv == AuthInit => LimitInv
<1> SUFFICES ASSUME AuthInit PROVE LimitInv
  OBVIOUS
<1>1. /\ second = 0 /\ callback = NoWindow /\ admitted = <<>> /\ allowed = <<>>
      /\ bucket = Burst * RefillSeconds
  BY DEF AuthInit
<1>2. admitted \in Seq(Nat) /\ Len(admitted) = 0 /\ allowed \in Seq(Nat) /\ Len(allowed) = 0
  BY <1>1, EmptySeq
<1>3. ASSUME NEW a \in Int, NEW b \in Int
      PROVE  During(admitted, a, b) = 0 /\ During(allowed, a, b) = 0
  <2>1. \A i \in 1..Len(admitted) : FALSE
    BY <1>2
  <2>2. \A i \in 1..Len(allowed) : FALSE
    BY <1>2
  <2> QED
    BY <1>2, <2>1, <2>2, DuringNone
<1>4. Burst * RefillSeconds \in Nat /\ CallbackLimit \in Nat /\ CallbackWindow \in Nat /\ RefillSeconds \in Nat
  BY AuthAssumption
<1>5. WindowInv
  BY <1>1, <1>2, <1>3, <1>4 DEF WindowInv, WindowKept, NoWindow, NoValue
<1>6. BucketInv
  <2> DEFINE full == Burst * RefillSeconds
  <2>1. full \in Nat /\ bucket = full
    BY <1>1, <1>4
  <2>2. ASSUME NEW a \in 0..second
        PROVE  RefillSeconds * During(allowed, a, second) + bucket <= full + (second - a)
    <3>1. a = 0 /\ second = 0 /\ During(allowed, a, second) = 0
      BY <1>1, <1>3
    <3> HIDE DEF full
    <3> QED
      BY <1>4, <2>1, <3>1
  <2> HIDE DEF full
  <2>3. bucket \in 0..full
    BY <2>1
  <2> QED
    BY <1>2, <2>2, <2>3 DEF BucketInv, full
<1> QED
  BY <1>1, <1>5, <1>6 DEF LimitInv

(* No more is let through by a window that ends now than by the one that   *)
(* began last and the one before it.                                       *)
LEMMA TwoWindows ==
    ASSUME NEW s \in Seq(Nat), NEW now \in Nat, NEW start \in 0..now, NEW a \in Nat,
           \A i \in 1..Len(s) : s[i] <= now,
           During(s, start, now) <= CallbackLimit,
           \A e \in Nat : e >= start - CallbackWindow => During(s, e, start - 1) <= CallbackLimit,
           a >= start - CallbackWindow
    PROVE  During(s, a, a + CallbackWindow - 1) <= 2 * CallbackLimit
<1> DEFINE z == a + CallbackWindow - 1
<1>1. z \in Int /\ CallbackLimit \in Nat /\ (\A i \in 1..Len(s) : s[i] \in Nat)
  BY AuthAssumption, ElementOfSeq
<1> HIDE DEF z
<1>2. During(s, a, z) <= During(s, a, now)
  BY <1>1, DuringWithin
<1>3. During(s, a, now) <= During(s, a, start - 1) + During(s, start, now)
  BY DuringSplit
<1>4. During(s, a, start - 1) <= CallbackLimit
  OBVIOUS
<1>5. /\ During(s, a, z) \in Nat /\ During(s, a, now) \in Nat /\ During(s, a, start - 1) \in Nat
      /\ During(s, start, now) \in Nat
  BY <1>1, WithinFinite
<1>6. During(s, a, z) <= 2 * CallbackLimit
  BY <1>1, <1>2, <1>3, <1>4, <1>5
<1> QED
  BY <1>6 DEF z

(* A callback is counted in a window, the one there is or a new one, which *)
(* began at start.                                                         *)
CountedFrom(start) ==
    /\ second' = second /\ setting.limiter = "memory"
    /\ callback' \in [count : 0..(CallbackLimit + 1), resetAt : Int]
    /\ callback'.resetAt # NoValue /\ second <= callback'.resetAt
    /\ \A i \in 1..Len(admitted) : admitted[i] <= callback'.resetAt
    /\ callback'.resetAt - CallbackWindow = start
    /\ admitted' = IF callback'.count <= CallbackLimit THEN Append(admitted, second) ELSE admitted
    /\ IF callback'.count <= CallbackLimit
          THEN During(admitted, start, second) + 1 <= callback'.count
          ELSE During(admitted, start, second) <= CallbackLimit
    /\ \A a \in Nat : a >= start - CallbackWindow => During(admitted, a, start - 1) <= CallbackLimit

(* Such a callback keeps what is known of the windows.                   *)
LEMMA CountedIn ==
    ASSUME LimitInv, NEW start \in 0..second, CountedFrom(start) PROVE WindowInv'
<1>0. /\ second \in Nat /\ admitted \in Seq(Nat) /\ CallbackLimit \in Nat \ {0} /\ CallbackWindow \in Nat \ {0}
      /\ \A i \in 1..Len(admitted) : admitted[i] <= second
      /\ \A a \in Nat : During(admitted, a, a + CallbackWindow - 1) <= 2 * CallbackLimit
      /\ callback'.count \in 0..(CallbackLimit + 1) /\ callback'.resetAt \in Int /\ start \in Int
  BY AuthAssumption DEF LimitInv, WindowInv, WindowKept, CountedFrom
<1> DEFINE reset == callback'.resetAt
           many == callback'.count
<1>00. /\ second \in Nat /\ admitted \in Seq(Nat) /\ reset \in Int /\ many \in Int
       /\ start \in Int /\ CallbackLimit \in Nat /\ second <= reset
  BY <1>0 DEF CountedFrom
<1>1. /\ admitted' \in Seq(Nat)
      /\ \A i \in 1..Len(admitted') : admitted'[i] <= second /\ admitted'[i] <= callback'.resetAt
  <2>1. admitted' \in Seq(Nat) /\ \A i \in 1..Len(admitted') : admitted'[i] <= second
    <3>1. admitted' = Append(admitted, second) \/ admitted' = admitted
      BY DEF CountedFrom
    <3> QED
      BY <1>0, <3>1, AppendBounded
  <2>3. \A i \in 1..Len(admitted') : admitted'[i] \in Nat
    BY <2>1, ElementOfSeq
  <2> HIDE DEF reset
  <2>4. \A i \in 1..Len(admitted') : admitted'[i] <= reset
    BY <1>00, <2>1, <2>3
  <2> QED
    BY <2>1, <2>4 DEF reset
<1> DEFINE one(a, b) == IF callback'.count <= CallbackLimit /\ second \in a..b THEN 1 ELSE 0
<1>2. ASSUME NEW a \in Int, NEW b \in Int
      PROVE  /\ During(admitted', a, b) = During(admitted, a, b) + one(a, b)
             /\ During(admitted, a, b) \in Nat
  <2>1. During(admitted, a, b) \in Nat
    BY <1>0, WithinFinite
  <2>2. CASE callback'.count <= CallbackLimit
    <3>1. admitted' = Append(admitted, second)
      BY <2>2 DEF CountedFrom
    <3>2. During(Append(admitted, second), a, b) = During(admitted, a, b) + (IF second \in a..b THEN 1 ELSE 0)
      BY <1>00, DuringAppend
    <3>3. one(a, b) = IF second \in a..b THEN 1 ELSE 0
      BY <2>2
    <3> HIDE DEF one
    <3> QED
      BY <2>1, <3>1, <3>2, <3>3
  <2>3. CASE ~(callback'.count <= CallbackLimit)
    <3>1. admitted' = admitted /\ one(a, b) = 0
      BY <2>3 DEF CountedFrom
    <3> HIDE DEF one
    <3> QED
      BY <2>1, <3>1
  <2> QED
    BY <2>2, <2>3
<1>3. ASSUME NEW a \in Int, NEW b \in Int, second \notin a..b
      PROVE  During(admitted', a, b) = During(admitted, a, b)
  <2>1. one(a, b) = 0
    BY <1>3
  <2> HIDE DEF one
  <2> QED
    BY <1>2, <2>1
<1>4. /\ During(admitted', start, second) <= callback'.count
      /\ During(admitted', start, second) <= CallbackLimit
  <2>0. start \in Int /\ second \in Int /\ second \in start..second
    BY <1>0
  <2>2. CASE callback'.count <= CallbackLimit
    <3>1. one(start, second) = 1
      BY <2>0, <2>2
    <3>2. During(admitted, start, second) + 1 <= callback'.count
      BY <2>2 DEF CountedFrom
    <3> HIDE DEF one
    <3>3. During(admitted', start, second) = During(admitted, start, second) + 1
          /\ During(admitted, start, second) \in Nat
      <4>1. During(admitted', start, second) = During(admitted, start, second) + one(start, second)
            /\ During(admitted, start, second) \in Nat
        BY <1>2, <2>0
      <4> QED
        BY <3>1, <4>1
    <3> HIDE DEF many
    <3>4. During(admitted, start, second) + 1 <= many /\ many <= CallbackLimit
      BY <2>2, <3>2 DEF many
    <3>5. During(admitted', start, second) <= many /\ During(admitted', start, second) <= CallbackLimit
      BY <1>00, <3>3, <3>4
    <3> QED
      BY <3>5 DEF many
  <2>3. CASE ~(callback'.count <= CallbackLimit)
    <3>1. one(start, second) = 0
      BY <2>3
    <3>2. During(admitted, start, second) <= CallbackLimit
      BY <2>3 DEF CountedFrom
    <3>3. many \in 0..(CallbackLimit + 1) /\ ~(many <= CallbackLimit)
      BY <2>3 DEF CountedFrom
    <3> HIDE DEF one, many
    <3>4. During(admitted', start, second) = During(admitted, start, second) + one(start, second)
          /\ During(admitted, start, second) \in Nat
      BY <1>2, <2>0
    <3>5. During(admitted', start, second) = During(admitted, start, second)
      BY <3>1, <3>4
    <3>6. During(admitted, start, second) <= many
      <4>1. many > CallbackLimit
        BY <1>00, <3>3
      <4> QED
        BY <1>00, <3>2, <3>3, <3>4, <4>1
    <3> QED
      BY <3>2, <3>5, <3>6 DEF many
  <2> QED
    BY <2>2, <2>3
<1>5. ASSUME NEW a \in Nat, a >= start - CallbackWindow
      PROVE  During(admitted', a, start - 1) <= CallbackLimit
  <2>1. second \notin a..(start - 1) /\ start - 1 \in Int
    BY <1>0
  <2>2. During(admitted', a, start - 1) = During(admitted, a, start - 1)
    BY <1>3, <2>1
  <2>3. During(admitted, a, start - 1) <= CallbackLimit
    BY <1>5 DEF CountedFrom
  <2> QED
    BY <2>2, <2>3
<1>6. ASSUME NEW a \in Nat PROVE During(admitted', a, a + CallbackWindow - 1) <= 2 * CallbackLimit
  <2>1. CASE second \in a..(a + CallbackWindow - 1)
    <3>1. a >= start - CallbackWindow
      BY <1>0, <2>1
    <3> HIDE DEF one
    <3> QED
      BY <1>0, <1>1, <1>4, <1>5, <3>1, TwoWindows
  <2>2. CASE second \notin a..(a + CallbackWindow - 1)
    <3>1. a + CallbackWindow - 1 \in Int
      BY <1>0
    <3>2. During(admitted', a, a + CallbackWindow - 1) = During(admitted, a, a + CallbackWindow - 1)
      BY <1>3, <2>2, <3>1
    <3> QED
      BY <1>0, <3>2
  <2> QED
    BY <2>1, <2>2
<1> HIDE DEF one
<1>7. Began' = start /\ second' = second
  BY DEF Began, CountedFrom
<1>8. callback' \in [count : 0..(CallbackLimit + 1), resetAt : Int] /\ callback'.resetAt # NoValue
  BY DEF CountedFrom
<1> QED
  BY <1>1, <1>4, <1>5, <1>6, <1>7, <1>8 DEF WindowInv, WindowKept, NoValue

(* allowInMemory: a new window or one more in the one there is.          *)
LEMMA MemoryCounted ==
    ASSUME LimitInv, setting.limiter = "memory", AllowInMemory, second' = second PROVE WindowInv'
<1>0. /\ second \in Nat /\ admitted \in Seq(Nat) /\ CallbackLimit \in Nat \ {0} /\ CallbackWindow \in Nat \ {0}
      /\ callback \in [count : 0..(CallbackLimit + 1), resetAt : Int]
      /\ callback.count \in 0..(CallbackLimit + 1) /\ callback.resetAt \in Int
      /\ \A i \in 1..Len(admitted) : admitted[i] <= second
      /\ WindowKept
  BY AuthAssumption DEF LimitInv, WindowInv
<1>1. \A i \in 1..Len(admitted) : admitted[i] \in Nat
  BY <1>0, ElementOfSeq
<1>2. /\ second' = second
      /\ admitted' = IF callback'.count <= CallbackLimit THEN Append(admitted, second) ELSE admitted
  BY DEF AllowInMemory
<1>3. CASE callback.resetAt = NoValue \/ second > callback.resetAt
  <2>1. callback' = [count |-> 1, resetAt |-> second + CallbackWindow]
    BY <1>3 DEF AllowInMemory
  <2>2. /\ callback' \in [count : 0..(CallbackLimit + 1), resetAt : Int]
        /\ callback'.count = 1 /\ callback'.resetAt = second + CallbackWindow
        /\ callback'.resetAt # NoValue /\ second <= callback'.resetAt
        /\ callback'.resetAt - CallbackWindow = second /\ second \in 0..second
    BY <1>0, <2>1 DEF NoValue
  <2>3. \A i \in 1..Len(admitted) : admitted[i] <= callback'.resetAt
    BY <1>0, <1>1, <2>2
  <2>4. /\ During(admitted, second, second) = 0
        /\ \A a \in Nat : a >= second - CallbackWindow => During(admitted, a, second - 1) <= CallbackLimit
    <3>1. CASE callback.resetAt = NoValue
      <4>1. \A i \in 1..Len(admitted) : FALSE
        BY <1>0, <3>1 DEF WindowKept
      <4>2. ASSUME NEW a \in Int, NEW b \in Int PROVE During(admitted, a, b) = 0
        BY <1>0, <4>1, DuringNone
      <4>3. second - 1 \in Int
        BY <1>0
      <4> QED
        BY <1>0, <4>2, <4>3
    <3>2. CASE callback.resetAt # NoValue
      <4>1. /\ Began \in 0..second /\ \A i \in 1..Len(admitted) : admitted[i] <= callback.resetAt
            /\ During(admitted, Began, second) <= CallbackLimit
        BY <1>0, <3>2 DEF WindowKept
      <4>2. \A i \in 1..Len(admitted) : admitted[i] \notin second..second
        BY <1>0, <1>1, <1>3, <3>2, <4>1
      <4>3. During(admitted, second, second) = 0
        BY <1>0, <4>2, DuringNone
      <4>4. ASSUME NEW a \in Nat, a >= second - CallbackWindow
            PROVE  During(admitted, a, second - 1) <= CallbackLimit
        <5>1. a >= Began /\ Began \in Int /\ second - 1 \in Int
          BY <1>0, <1>3, <3>2, <4>1, <4>4 DEF Began
        <5>2. \A i \in 1..Len(admitted) : admitted[i] \in a..(second - 1) => admitted[i] \in Began..second
          BY <1>0, <1>1, <5>1
        <5>3. During(admitted, a, second - 1) <= During(admitted, Began, second)
          BY <1>0, <5>1, <5>2, DuringWithin
        <5>4. During(admitted, a, second - 1) \in Nat /\ During(admitted, Began, second) \in Nat
          BY <1>0, <5>1, WithinFinite
        <5> QED
          BY <1>0, <4>1, <5>3, <5>4
      <4> QED
        BY <4>3, <4>4
    <3> QED
      BY <3>1, <3>2
  <2> QED
    BY <1>0, <1>2, <2>2, <2>3, <2>4, CountedIn DEF CountedFrom
<1>4. CASE callback.resetAt # NoValue /\ ~(second > callback.resetAt)
  <2> DEFINE more == IF callback.count + 1 <= CallbackLimit + 1 THEN callback.count + 1 ELSE CallbackLimit + 1
  <2>1. Min({callback.count + 1, CallbackLimit + 1}) = more
    BY <1>0, MinOfTwo
  <2>2. callback' = [callback EXCEPT !.count = more]
    BY <1>4, <2>1 DEF AllowInMemory
  <2>3. more \in 0..(CallbackLimit + 1) /\ (more <= CallbackLimit => more = callback.count + 1)
    BY <1>0
  <2> HIDE DEF more
  <2>4. /\ callback' \in [count : 0..(CallbackLimit + 1), resetAt : Int]
        /\ callback'.count = more /\ callback'.resetAt = callback.resetAt
    BY <1>0, <2>2, <2>3
  <2>5. /\ Began \in 0..second /\ \A i \in 1..Len(admitted) : admitted[i] <= callback.resetAt
        /\ During(admitted, Began, second) <= callback.count
        /\ During(admitted, Began, second) <= CallbackLimit
        /\ \A a \in Nat : a >= Began - CallbackWindow => During(admitted, a, Began - 1) <= CallbackLimit
    BY <1>0, <1>4 DEF WindowKept
  <2>6. During(admitted, Began, second) \in Nat
    BY <1>0, <2>5, WithinFinite
  <2>7. /\ callback'.resetAt - CallbackWindow = Began /\ second <= callback'.resetAt
        /\ callback'.resetAt # NoValue
    BY <1>0, <1>4, <2>4 DEF Began
  <2>8. IF callback'.count <= CallbackLimit
           THEN During(admitted, Began, second) + 1 <= callback'.count
           ELSE During(admitted, Began, second) <= CallbackLimit
    BY <1>0, <2>3, <2>4, <2>5, <2>6
  <2> QED
    BY <1>2, <2>4, <2>5, <2>7, <2>8, CountedIn DEF CountedFrom
<1> QED
  BY <1>3, <1>4

(* CallbackAllow: with Redis one more is let through and none is counted.*)
LEMMA CallbackCounted ==
    ASSUME LimitInv, CallbackAllow PROVE WindowInv'
<1>1. CASE setting.limiter = "memory" /\ AllowInMemory
  BY <1>1, MemoryCounted DEF CallbackAllow
<1>2. CASE setting.limiter = "redis" /\ AllowRedis
  <2>1. /\ admitted' = Append(admitted, second) /\ callback' = callback
        /\ setting'.limiter # "memory" /\ second' = second
    BY <1>2 DEF CallbackAllow, AllowRedis
  <2>2. /\ admitted \in Seq(Nat) /\ \A i \in 1..Len(admitted) : admitted[i] <= second
        /\ callback \in [count : 0..(CallbackLimit + 1), resetAt : Int] /\ second \in Nat
    BY DEF LimitInv, WindowInv
  <2>3. admitted' \in Seq(Nat) /\ \A i \in 1..Len(admitted') : admitted'[i] <= second
    BY <2>1, <2>2, AppendBounded
  <2> QED
    BY <2>1, <2>2, <2>3 DEF WindowInv
<1> QED
  BY <1>1, <1>2 DEF CallbackAllow

(* TenantAllow: a token less in the bucket, one more request let through.*)
LEMMA TenantCounted ==
    ASSUME LimitInv, TenantAllow PROVE BucketInv'
<1> DEFINE full == Burst * RefillSeconds
           R == RefillSeconds
<1>0. /\ second \in Nat /\ allowed \in Seq(Nat) /\ R \in Nat \ {0} /\ full \in Nat
      /\ \A i \in 1..Len(allowed) : allowed[i] <= second
      /\ bucket \in 0..full
      /\ \A a \in 0..second : R * During(allowed, a, second) + bucket <= full + (second - a)
  BY AuthAssumption DEF LimitInv, BucketInv
<1> HIDE DEF full, R
<1>1. second' = second
  BY DEF TenantAllow, HasToken
<1>2. CASE bucket >= R /\ bucket' = bucket - R /\ allowed' = Append(allowed, second)
  <2>1. /\ Append(allowed, second) \in Seq(Nat) /\ Len(Append(allowed, second)) = Len(allowed) + 1
        /\ Append(allowed, second)[Len(allowed) + 1] = second /\ Len(allowed) \in Nat
        /\ \A i \in 1..Len(allowed) : Append(allowed, second)[i] = allowed[i]
    BY <1>0, AppendProperties, LenProperties
  <2>2. \A i \in 1..Len(allowed') : allowed'[i] <= second
    BY <1>0, <1>2, <2>1
  <2>3. ASSUME NEW a \in 0..second
        PROVE  R * During(allowed', a, second) + bucket' <= full + (second - a)
    <3> DEFINE d == During(allowed, a, second)
    <3>1. During(allowed', a, second) = d + 1
      BY <1>0, <1>2, DuringAppend
    <3>2. d \in Nat
      BY <1>0, WithinFinite
    <3>3. R * d + bucket <= full + (second - a)
      BY <1>0
    <3> HIDE DEF d
    <3>4. R * (d + 1) = R * d + R /\ R * d \in Nat
      BY <1>0, <3>2
    <3> QED
      BY <1>0, <1>2, <3>1, <3>3, <3>4
  <2>4. bucket' \in 0..full
    BY <1>0, <1>2
  <2> QED
    BY <1>1, <1>2, <2>1, <2>2, <2>3, <2>4 DEF BucketInv, full, R
<1>3. CASE UNCHANGED <<bucket, allowed>>
  BY <1>1, <1>3 DEF LimitInv, BucketInv
<1> QED
  BY <1>2, <1>3 DEF TenantAllow, HasToken, R

(* A second later the windows are as they were.                            *)
LEMMA WindowLater ==
    ASSUME LimitInv, setting.limiter = "memory", second' = second + 1, UNCHANGED <<callback, admitted>>
    PROVE  WindowKept'
<1>0. /\ second \in Nat /\ admitted \in Seq(Nat) /\ \A i \in 1..Len(admitted) : admitted[i] <= second
      /\ WindowKept /\ Began' = Began /\ callback.count \in Nat /\ CallbackLimit \in Nat
  BY AuthAssumption DEF LimitInv, WindowInv, Began
<1>1. CASE callback.resetAt = NoValue
  BY <1>0, <1>1 DEF WindowKept, NoValue
<1>2. CASE callback.resetAt # NoValue
  <2>0. /\ Began \in 0..second /\ Began \in Int /\ During(admitted, Began, second) <= callback.count
        /\ During(admitted, Began, second) <= CallbackLimit
    BY <1>0, <1>2 DEF WindowKept
  <2>1. During(admitted, Began, second + 1) <= During(admitted, Began, second)
    BY <1>0, <2>0, DuringLater
  <2>2. During(admitted, Began, second + 1) \in Nat /\ During(admitted, Began, second) \in Nat
    BY <1>0, <2>0, WithinFinite
  <2>3. /\ During(admitted, Began, second + 1) <= callback.count
        /\ During(admitted, Began, second + 1) <= CallbackLimit
        /\ Began \in 0..(second + 1)
    BY <1>0, <2>0, <2>1, <2>2
  <2> QED
    BY <1>0, <1>2, <2>3 DEF WindowKept, NoValue
<1> QED
  BY <1>1, <1>2

(* A second later nothing more was let through, and a part of a token has  *)
(* come back.                                                              *)
LEMMA SecondCounted ==
    ASSUME LimitInv, second' = second + 1, UNCHANGED <<setting, callback, admitted, allowed>>,
           bucket' = Min({bucket + 1, Burst * RefillSeconds})
    PROVE  LimitInv'
<1> DEFINE full == Burst * RefillSeconds
           R == RefillSeconds
<1>0. /\ second \in Nat /\ admitted \in Seq(Nat) /\ allowed \in Seq(Nat) /\ R \in Nat \ {0} /\ full \in Nat
      /\ \A i \in 1..Len(admitted) : admitted[i] <= second
      /\ \A i \in 1..Len(allowed) : allowed[i] <= second
      /\ bucket \in 0..full
      /\ \A a \in 0..second : R * During(allowed, a, second) + bucket <= full + (second - a)
  BY AuthAssumption DEF LimitInv, WindowInv, BucketInv
<1>1. bucket' = IF bucket + 1 <= full THEN bucket + 1 ELSE full
  BY <1>0, MinOfTwo
<1> HIDE DEF full, R
<1>3. WindowInv'
  <2>0. \A i \in 1..Len(admitted) : admitted[i] <= second + 1
    BY <1>0, DuringLater
  <2>1. CASE setting.limiter # "memory"
    BY <1>0, <2>0, <2>1 DEF LimitInv, WindowInv
  <2>2. CASE setting.limiter = "memory"
    BY <2>0, <2>2, WindowLater DEF LimitInv, WindowInv
  <2> QED
    BY <2>1, <2>2
<1>4. ASSUME NEW a \in 0..(second + 1)
      PROVE  R * During(allowed, a, second + 1) + bucket' <= full + ((second + 1) - a)
  <2> DEFINE d == During(allowed, a, second + 1)
             e == During(allowed, a, second)
  <2>0. a \in Int /\ second \in Int /\ second + 1 \in Int
    BY <1>0
  <2>1. d \in Nat /\ e \in Nat /\ d <= e
    BY <1>0, <2>0, WithinFinite, DuringLater
  <2>2. CASE a = second + 1
    <3>1. \A i \in 1..Len(allowed) : allowed[i] \in Nat
      BY <1>0, ElementOfSeq
    <3>2. d = 0
      BY <1>0, <2>2, <3>1, DuringNone
    <3> HIDE DEF d, e
    <3> QED
      BY <1>0, <1>1, <2>2, <3>2 DEF d
  <2>3. CASE a \in 0..second
    <3>1. R * e + bucket <= full + (second - a)
      BY <1>0, <2>3
    <3> HIDE DEF d, e
    <3>2. R * d <= R * e /\ R * d \in Nat /\ R * e \in Nat
      BY <1>0, <2>1
    <3>3. R * d + bucket' <= full + ((second + 1) - a)
      BY <1>0, <1>1, <2>3, <3>1, <3>2
    <3> QED
      BY <3>3 DEF d
  <2> QED
    BY <1>0, <2>2, <2>3
<1>5. BucketInv'
  <2>1. bucket' \in 0..full
    BY <1>0, <1>1
  <2>2. \A i \in 1..Len(allowed) : allowed[i] <= second + 1
    BY <1>0, DuringLater
  <2> QED
    BY <1>0, <1>4, <2>1, <2>2 DEF BucketInv, full, R
<1> QED
  BY <1>0, <1>3, <1>5 DEF LimitInv

(* Every step keeps both limits.                                         *)
LEMMA LimitStep == LimitInv /\ [AuthNext]_authVars => LimitInv'
<1> SUFFICES ASSUME LimitInv, [AuthNext]_authVars PROVE LimitInv'
  OBVIOUS
<1>1. CASE CallbackAllow
  <2>1. UNCHANGED <<second, bucket, allowed>>
    BY <1>1 DEF CallbackAllow
  <2>2. BucketInv'
    BY <2>1 DEF LimitInv, BucketInv
  <2> QED
    BY <1>1, <2>1, <2>2, CallbackCounted DEF LimitInv
<1>2. CASE TenantAllow
  <2>1. UNCHANGED <<setting, second, callback, admitted>>
    BY <1>2 DEF TenantAllow
  <2>2. WindowInv'
    BY <2>1 DEF LimitInv, WindowInv, WindowKept, Began
  <2> QED
    BY <1>2, <2>1, <2>2, TenantCounted DEF LimitInv
<1>3. CASE SecondPasses
  BY <1>3, SecondCounted DEF SecondPasses
<1>4. CASE UNCHANGED <<setting, second, limitVars>>
  BY <1>4 DEF limitVars, LimitInv, WindowInv, WindowKept, BucketInv, Began
<1>5. CASE \E r \in Requesters :
              RequestArrives(r) \/ CheckRevoked(r) \/ Logout(r) \/ AddKey(r) \/ ExpireKey(r)
  BY <1>4, <1>5 DEF RequestArrives, CheckRevoked, Logout, AddKey, ExpireKey
<1> QED
  BY <1>1, <1>2, <1>3, <1>4, <1>5 DEF AuthNext, AuthTokenNext, LimitNext, authVars

(* What is let through in whole tokens.                                    *)
LEMMA WholeTokens ==
    ASSUME NEW R \in Nat \ {0}, NEW d \in Nat, NEW b \in Nat, NEW x \in Nat, R * d <= b * R + x
    PROVE  d <= b + (x \div R)
<1> DEFINE q == x \div R
           m == x % R
<1>1. q \in Nat /\ m \in 0..(R - 1) /\ x = R * q + m
  OBVIOUS
<1> HIDE DEF q, m
<1>2. SUFFICES ASSUME d >= b + q + 1 PROVE FALSE
  BY <1>1 DEF q
<1>3. R * d >= R * (b + q + 1)
  BY <1>1, <1>2
<1>4. R * (b + q + 1) = b * R + R * q + R
  BY <1>1
<1> QED
  BY <1>1, <1>3, <1>4

(* The invariant says what the limits promise.                           *)
LEMMA LimitInvHolds == LimitInv => LimitsHold
<1> SUFFICES ASSUME LimitInv, NEW a \in 0..second
             PROVE  /\ setting.limiter = "memory" =>
                          During(admitted, a, a + CallbackWindow - 1) <= 2 * CallbackLimit
                    /\ During(allowed, a, second) <= Burst + (second - a) \div RefillSeconds
  BY DEF LimitsHold
<1>1. second \in Nat /\ WindowInv /\ BucketInv
  BY DEF LimitInv
<1>2. setting.limiter = "memory" => During(admitted, a, a + CallbackWindow - 1) <= 2 * CallbackLimit
  BY <1>1 DEF WindowInv, WindowKept
<1> DEFINE d == During(allowed, a, second)
<1>3. d \in Nat
  BY <1>1, WithinFinite DEF BucketInv
<1>4. RefillSeconds * d <= Burst * RefillSeconds + (second - a)
  <2> DEFINE x == RefillSeconds * d
             y == Burst * RefillSeconds
  <2>1. x + bucket <= y + (second - a) /\ bucket \in Nat
    BY <1>1 DEF BucketInv
  <2>2. x \in Nat /\ y \in Nat
    BY <1>3, AuthAssumption
  <2> HIDE DEF x, y, d
  <2>3. x <= y + (second - a)
    BY <1>1, <2>1, <2>2
  <2> QED
    BY <2>3 DEF x, y
<1> HIDE DEF d
<1>5. d <= Burst + (second - a) \div RefillSeconds
  <2>1. second - a \in Nat
    BY <1>1
  <2> QED
    BY <1>3, <1>4, <2>1, WholeTokens, AuthAssumption
<1> QED
  BY <1>2, <1>5 DEF d

-----------------------------------------------------------------------------
(* A step of the whole is a step or a stutter of every part.               *)
LEMMA AccessSteps ==
    [ServiceNext]_serviceVars => [MembersNext]_memberVars /\ [AuthNext]_authVars
<1> SUFFICES ASSUME [ServiceNext]_serviceVars
             PROVE  [MembersNext]_memberVars /\ [AuthNext]_authVars
  OBVIOUS
<1>1. CASE UNCHANGED serviceVars
  BY <1>1 DEF serviceVars
<1>2. CASE ServiceNext
  <2>1. MembersNext \/ UNCHANGED memberVars
    BY <1>2 DEF ServiceNext
  <2>2. AuthTokenNext \/ LimitNext \/ UNCHANGED authVars
    BY <1>2 DEF ServiceNext
  <2> QED
    BY <2>1, <2>2 DEF AuthNext
<1> QED
  BY <1>1, <1>2

(* A token that is on the revocation list is let in only after it has      *)
(* expired, callbacks stay within twice their limit where the limiter has  *)
(* no Redis and tenants within their rate, and a server                    *)
(* that misses no change allows what the administrators were answered      *)
(* (internal/auth, internal/ratelimit, internal/rbac).                     *)
THEOREM AccessKept == ServiceSpec => []AccessSound
<1>1. ServiceInit => MemberInv /\ ListInv /\ LimitInv
  BY MemberInitInv, ListInitInv, LimitInitInv DEF ServiceInit
<1>2. MemberInv /\ [ServiceNext]_serviceVars => MemberInv'
  BY AccessSteps, MemberStep
<1>3. ListInv /\ [ServiceNext]_serviceVars => ListInv'
  BY AccessSteps, ListStep
<1>4. LimitInv /\ [ServiceNext]_serviceVars => LimitInv'
  BY AccessSteps, LimitStep
<1>5. MemberInv /\ ListInv /\ LimitInv => AccessSound
  BY MemberInvKept, LimitInvHolds DEF AccessSound, GateSound, ListInv
<1> QED
  BY <1>1, <1>2, <1>3, <1>4, <1>5, PTL DEF ServiceSpec

-----------------------------------------------------------------------------
(* Types of the gate and of the members' table.                            *)

(* What ListInv leaves open: where a request may be, how many there are,   *)
(* and that Redis keeps seconds.                                           *)
RequestTyped ==
    /\ made \in 0..MaxRequests /\ DOMAIN request = Requesters
    /\ keys \in [AuthTokens -> {NoValue, Forever} \cup 1..MaxSecond]
    /\ \A r \in Requesters : request[r].at \in {"free", "check", "add", "expire", "replied"}

(* Every step keeps it: a handler moves its own request.                   *)
LEMMA RequestTypedStep == ListInv /\ RequestTyped /\ [AuthNext]_authVars => RequestTyped'
<1> SUFFICES ASSUME ListInv, RequestTyped, [AuthNext]_authVars PROVE RequestTyped'
  OBVIOUS
<1> DEFINE Places == {"free", "check", "add", "expire", "replied"}
<1>0. /\ made \in 0..MaxRequests /\ DOMAIN request = Requesters /\ \A r \in Requesters : request[r].at \in Places
      /\ keys \in [AuthTokens -> {NoValue, Forever} \cup 1..MaxSecond]
  BY DEF RequestTyped
<1>1. ASSUME NEW r \in Requesters, DOMAIN request' = Requesters,
             \A e \in Requesters : e # r => request'[e] = request[e],
             request'[r].at \in Places, made' \in 0..MaxRequests,
             keys' \in [AuthTokens -> {NoValue, Forever} \cup 1..MaxSecond]
      PROVE  RequestTyped'
  BY <1>0, <1>1 DEF RequestTyped
<1>2. ASSUME NEW r \in Requesters, RequestArrives(r) PROVE RequestTyped'
  <2>1. PICK path, token : Enter(r, path, token, IF JWTValidation(path, token) = "sound" THEN "check" ELSE "replied",
                                 JWTValidation(path, token))
    BY <1>2 DEF RequestArrives
  <2>2. /\ DOMAIN request' = Requesters /\ \A e \in Requesters : e # r => request'[e] = request[e]
        /\ request'[r].at \in {"check", "replied"}
    BY <1>0, <2>1, Entered
  <2>3. made' \in 0..MaxRequests /\ keys' = keys
    BY <1>0, <1>2, AuthAssumption DEF RequestArrives
  <2> QED
    BY <1>0, <1>1, <2>2, <2>3
<1>3. ASSUME NEW r \in Requesters, Logout(r) PROVE RequestTyped'
  <2>1. \E token, answer : \/ Enter(r, "logout", token, "replied", answer)
                            \/ Enter(r, "logout", token, "add", answer)
    <3>1. PICK token \in AuthTokens \cup {"none"} \cup Refusals :
          CASE token = "none" -> Enter(r, "logout", token, "replied", "missing_token")
            [] token # "none" /\ Validated(token) # "sound" ->
                 Enter(r, "logout", token, "replied", Validated(token))
            [] OTHER -> IF setting.revocation = "off"
                        THEN Enter(r, "logout", token, "replied", "logged_out")
                        ELSE Enter(r, "logout", token, "add", "none")
      BY <1>3 DEF Logout
    <3>2. CASE token = "none"
      BY <3>1, <3>2
    <3>3. CASE token # "none" /\ Validated(token) # "sound"
      BY <3>1, <3>3
    <3>4. CASE token # "none" /\ Validated(token) = "sound"
      <4>1. IF setting.revocation = "off"
            THEN Enter(r, "logout", token, "replied", "logged_out")
            ELSE Enter(r, "logout", token, "add", "none")
        BY <3>1, <3>4
      <4> QED
        BY <4>1
    <3> QED
      BY <3>2, <3>3, <3>4
  <2>2. /\ DOMAIN request' = Requesters /\ \A e \in Requesters : e # r => request'[e] = request[e]
        /\ request'[r].at \in {"replied", "add"}
    BY <1>0, <2>1, Entered
  <2>3. made' \in 0..MaxRequests /\ keys' = keys
    BY <1>0, <1>3, AuthAssumption DEF Logout
  <2> QED
    BY <1>0, <1>1, <2>2, <2>3
<1>4. ASSUME NEW r \in Requesters, CheckRevoked(r) \/ AddKey(r) \/ ExpireKey(r) PROVE RequestTyped'
  <2>1. made' = made
    BY <1>4 DEF CheckRevoked, AddKey, ExpireKey
  <2>2. (\E answer : Reply(r, answer)) \/ request' = [request EXCEPT ![r].at = "expire"]
    BY <1>4 DEF CheckRevoked, AddKey, ExpireKey
  <2>3. /\ DOMAIN request' = Requesters /\ \A e \in Requesters : e # r => request'[e] = request[e]
        /\ request'[r].at \in {"replied", "expire"}
    <3>1. CASE \E answer : Reply(r, answer)
      BY <1>0, <3>1, Answered
    <3>2. CASE request' = [request EXCEPT ![r].at = "expire"]
      BY <1>0, <3>2
    <3> QED
      BY <2>2, <3>1, <3>2
  <2>4. keys' \in [AuthTokens -> {NoValue, Forever} \cup 1..MaxSecond]
    <3> DEFINE t == request[r].token
    <3>1. \/ keys' = keys \/ keys' = [keys EXCEPT ![t] = Forever]
          \/ r \in Requesters /\ request[r].at = "expire" /\ keys' = [keys EXCEPT ![t] = exp[t]]
      <4>1. keys[t] = keys[t] /\ [keys EXCEPT ![t] = keys[t]] = keys
        BY <1>0
      <4> QED
        BY <1>4, <4>1 DEF CheckRevoked, AddKey, ExpireKey, Deadline
    <3>2. request[r].at = "expire" => exp[t] \in 1..MaxSecond
      BY DEF ListInv
    <3> HIDE DEF t
    <3> QED
      BY <1>0, <3>1, <3>2
  <2> QED
    BY <1>0, <1>1, <2>1, <2>3, <2>4
<1>5. CASE UNCHANGED <<request, made, keys>>
  BY <1>5 DEF RequestTyped
<1>6. CASE CallbackAllow \/ TenantAllow \/ SecondPasses \/ UNCHANGED authVars
  BY <1>5, <1>6 DEF CallbackAllow, TenantAllow, SecondPasses, authVars, authTokenVars
<1> QED
  BY <1>2, <1>3, <1>4, <1>6 DEF AuthNext, AuthTokenNext, LimitNext

(* With the two invariants it gives the types.                             *)
AuthTyped == ListInv /\ LimitInv /\ RequestTyped
(* It holds at first: no request was made.                                 *)
LEMMA AuthInitTyped == AuthInit => AuthTyped
<1> SUFFICES ASSUME AuthInit PROVE AuthTyped
  OBVIOUS
<1>1. request = [r \in Requesters |-> Free] /\ made = 0
  BY DEF AuthInit
<1>2. RequestTyped
  <2>1. keys = [t \in AuthTokens |-> NoValue]
    BY DEF AuthInit
  <2> QED
    BY <1>1, <2>1, AuthAssumption DEF RequestTyped, Free
<1> QED
  BY <1>2, ListInitInv, LimitInitInv DEF AuthTyped
(* Every step of the gate keeps it.                                        *)
LEMMA AuthTypedStep == AuthTyped /\ [AuthNext]_authVars => AuthTyped'
BY ListStep, LimitStep, RequestTypedStep DEF AuthTyped
(* It says what AuthTypeOK says.                                           *)
LEMMA AuthTypedOK == AuthTyped => AuthTypeOK
<1> SUFFICES ASSUME AuthTyped PROVE AuthTypeOK
  OBVIOUS
<1>2. callback.count \in 0..(CallbackLimit + 1) /\ bucket \in 0..(Burst * RefillSeconds)
  BY DEF AuthTyped, LimitInv, WindowInv, BucketInv
<1> QED
  BY <1>2 DEF AuthTyped, ListInv, RequestTyped, AuthTypeOK

(* What MemberInv leaves open of the administrators.                       *)
AdminTyped ==
    /\ seeded \in BOOLEAN /\ changes \in 0..MaxChanges /\ DOMAIN admin = Admins
    /\ \A a \in Admins : admin[a].at \in {"idle", "change", "save"}
(* The bound on changes is a number.                                       *)
LEMMA BoundOfChanges == MaxChanges \in Nat
BY MembersAssumption, Zenon
(* Every step keeps it: a handler moves its own request.                   *)
LEMMA AdminTypedStep == AdminTyped /\ [MembersNext]_memberVars => AdminTyped'
<1> SUFFICES ASSUME AdminTyped, [MembersNext]_memberVars PROVE AdminTyped'
  OBVIOUS
<1>0. /\ seeded \in BOOLEAN /\ changes \in 0..MaxChanges /\ DOMAIN admin = Admins
      /\ \A a \in Admins : admin[a].at \in {"idle", "change", "save"}
  BY DEF AdminTyped
<1>1. ASSUME NEW s \in Servers, StartServer(s) \/ BootstrapDefaultPolicy(s) \/ Reload(s) PROVE AdminTyped'
  <2>1. UNCHANGED <<admin, changes>>
    BY <1>1 DEF StartServer, BootstrapDefaultPolicy, Reload
  <2>2. seeded' \in BOOLEAN
    BY <1>0, <1>1 DEF StartServer, BootstrapDefaultPolicy, Reload, SavePolicy
  <2> QED
    BY <1>0, <2>1, <2>2 DEF AdminTyped
<1>2. ASSUME NEW a \in Admins, NEW answer, AdminAnswer(a, answer)
      PROVE  DOMAIN admin' = Admins /\ \A e \in Admins : admin'[e].at \in {"idle", "change", "save"}
  <2>1. /\ DOMAIN admin' = Admins /\ \A e \in Admins : e # a => admin'[e] = admin[e]
        /\ admin'[a].at = "idle"
    BY <1>0, <1>2 DEF AdminAnswer
  <2> QED
    BY <1>0, <2>1
<1>3. ASSUME NEW a \in Admins, NEW s \in Servers, NEW op \in {"add", "remove"}, Ask(a, s, op) PROVE AdminTyped'
  <2>1. changes' \in 0..MaxChanges /\ seeded' = seeded
    <3>1. changes < MaxChanges /\ changes' = changes + 1 /\ seeded' = seeded
      BY <1>3, Zenon DEF Ask
    <3> QED
      BY ONLY <1>0, <3>1, BoundOfChanges
  <2>2. \/ AdminAnswer(a, "refused")
        \/ \E m \in TeamRoster : admin' = [admin EXCEPT ![a] =
                  [at |-> "change", server |-> s, op |-> op, member |-> m, answer |-> "none"]]
    BY <1>3 DEF Ask
  <2>3. DOMAIN admin' = Admins /\ \A e \in Admins : admin'[e].at \in {"idle", "change", "save"}
    <3>1. CASE AdminAnswer(a, "refused")
      BY <1>2, <3>1
    <3>2. ASSUME NEW m, admin' = [admin EXCEPT ![a] =
                    [at |-> "change", server |-> s, op |-> op, member |-> m, answer |-> "none"]]
          PROVE  DOMAIN admin' = Admins /\ \A e \in Admins : admin'[e].at \in {"idle", "change", "save"}
      <4>1. /\ DOMAIN admin' = Admins /\ \A e \in Admins : e # a => admin'[e] = admin[e]
            /\ admin'[a].at = "change"
        BY <1>0, <3>2
      <4> QED
        BY <1>0, <4>1
    <3> QED
      BY <2>2, <3>1, <3>2
  <2> QED
    BY <1>0, <2>1, <2>3 DEF AdminTyped
<1>4. ASSUME NEW a \in Admins, ChangeRole(a) \/ SaveChange(a) PROVE AdminTyped'
  <2>1. changes' = changes
    BY <1>4 DEF ChangeRole, SaveChange
  <2>2. seeded' \in BOOLEAN
    BY <1>0, <1>4 DEF ChangeRole, SaveChange, SavePolicy
  <2>3. (\E answer : AdminAnswer(a, answer)) \/ admin' = [admin EXCEPT ![a].at = "save"]
    BY <1>4 DEF ChangeRole, SaveChange
  <2>4. DOMAIN admin' = Admins /\ \A e \in Admins : admin'[e].at \in {"idle", "change", "save"}
    <3>1. CASE admin' = [admin EXCEPT ![a].at = "save"]
      <4>1. /\ DOMAIN admin' = Admins /\ \A e \in Admins : e # a => admin'[e] = admin[e]
            /\ admin'[a].at = "save"
        BY <1>0, <3>1
      <4> QED
        BY <1>0, <4>1
    <3> QED
      BY <1>2, <2>3, <3>1
  <2> QED
    BY <1>0, <2>1, <2>2, <2>4 DEF AdminTyped
<1>5. CASE UNCHANGED memberVars
  BY <1>0, <1>5 DEF memberVars, AdminTyped
<1> QED
  BY <1>1, <1>3, <1>4, <1>5 DEF MembersNext

(* With the members' invariant it gives the types.                         *)
MembersTyped == MemberInv /\ AdminTyped
(* It holds at first: nobody asked for a change.                           *)
LEMMA MembersInitTyped == MembersInit => MembersTyped
<1> SUFFICES ASSUME MembersInit PROVE MembersTyped
  OBVIOUS
<1>1. admin = [a \in Admins |-> NoAdmin] /\ changes = 0 /\ seeded = FALSE
  BY DEF MembersInit
<1>2. 0 \in 0..MaxChanges
  BY ONLY BoundOfChanges
<1>3. NoAdmin.at = "idle"
  BY Zenon DEF NoAdmin
<1>4. AdminTyped
  BY <1>1, <1>2, <1>3, Zenon DEF AdminTyped
<1> QED
  BY <1>4, MemberInitInv, Zenon DEF MembersTyped
(* Every step of servers and administrators keeps it.                      *)
LEMMA MembersTypedStep == MembersTyped /\ [MembersNext]_memberVars => MembersTyped'
BY MemberStep, AdminTypedStep DEF MembersTyped
(* It says what MembersTypeOK says.                                        *)
LEMMA MembersTypedOK == MembersTyped => MembersTypeOK
BY ServerFields DEF MembersTyped, MemberInv, MemberTypes, AdminTyped, MembersTypeOK
=============================================================================
