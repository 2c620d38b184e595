---------------------------- MODULE TeamMembers -----------------------------
(***************************************************************************)
(* Team roles: each server keeps the policy in memory (casbin) over one    *)
(* table it shares with the others. A server that starts loads the table   *)
(* and seeds an empty one; administrators add and remove members, each a   *)
(* change of one row and then a rewrite of the whole table from memory,    *)
(* and reload. casbin and its adapter are external: a change is written    *)
(* through and then kept in memory, a rewrite is one transaction, a load   *)
(* that fails changes nothing.                                             *)
(***************************************************************************)
EXTENDS Integers, FiniteSets

CONSTANTS Servers,
          Admins,      \* handlers in progress at once
          TeamRoster,     \* [user, role, team]
          MaxChanges,  \* bound: requests of the administrators
          PolicyTeam

ASSUME MembersAssumption ==
    /\ \A m \in TeamRoster : m.role \in {"role_admin", "role_member", "role_observer"}
    /\ MaxChanges \in Nat

VARIABLES
    seeded,     \* the table holds the default policy
    table,      \* the table's member rows
    server,     \* Servers -> [at, memory]
    admin,      \* Admins -> [at, server, op, member, answer]
    changes,
    behind,     \* history: servers whose memory misses another server's change
    overwritten,\* history: a server that was behind has written to the table
    effect      \* history: Members -> what the last change through did to it
memberVars == <<seeded, table, server, admin, changes, behind, overwritten, effect>>

Down == [at |-> "down", memory |-> {}]
NoAdmin == [at |-> "idle", server |-> "none", op |-> "none", member |-> "none", answer |-> "none"]
MembersInit ==
    /\ seeded = FALSE /\ table = {} /\ server = [s \in Servers |-> Down]
    /\ admin = [a \in Admins |-> NoAdmin] /\ changes = 0 /\ behind = {} /\ overwritten = FALSE
    /\ effect = [m \in TeamRoster |-> "none"]

-----------------------------------------------------------------------------
OtherAdmins(s) == {t \in Servers \ {s} : server[t].at # "down"}

(* SavePolicy: the table becomes what this server remembers.               *)
SavePolicy(s) ==
    /\ table' = server[s].memory /\ seeded' = TRUE
    /\ overwritten' = (overwritten \/ s \in behind)
    /\ behind' = IF table = server[s].memory THEN behind ELSE behind \cup OtherAdmins(s)

(* NewEnforcer: a load that fails stops the server; a table without a      *)
(* policy is seeded from the embedded one.                                 *)
StartServer(s) ==
    /\ server[s].at = "down"
    /\ server' = [server EXCEPT ![s] = [at |-> IF seeded THEN "up" ELSE "seeding", memory |-> table]]
    /\ behind' = behind \ {s}
    /\ UNCHANGED <<seeded, table, admin, changes, overwritten, effect>>
BootstrapDefaultPolicy(s) ==
    /\ server[s].at = "seeding"
    /\ \/ server' = [server EXCEPT ![s].at = "up"] /\ SavePolicy(s)
       \/ server' = [server EXCEPT ![s] = Down] /\ UNCHANGED <<seeded, table, behind, overwritten>>
    /\ UNCHANGED <<admin, changes, effect>>

AdminAnswer(a, answer) == admin' = [admin EXCEPT ![a].at = "idle", ![a].answer = answer]

(* AddMember and RemoveMember: the request is refused unless the role is   *)
(* one of the three (and, of a removal, nothing is missing), and then the  *)
(* row is changed under the server's lock.                                 *)
Ask(a, s, op) ==
    /\ admin[a].at = "idle" /\ server[s].at = "up" /\ changes < MaxChanges
    /\ changes' = changes + 1
    /\ \/ \E m \in TeamRoster :
             /\ op = "remove" => m.user # "" /\ m.team # ""
             /\ admin' = [admin EXCEPT ![a] =
                   [at |-> "change", server |-> s, op |-> op, member |-> m, answer |-> "none"]]
       \/ AdminAnswer(a, "refused")
    /\ UNCHANGED <<seeded, table, server, behind, overwritten, effect>>

(* A row already in memory is not written again.                           *)
WrittenThrough(s, op, m) ==
    IF op = "remove" THEN table \ {m} ELSE IF m \in server[s].memory THEN table ELSE table \cup {m}
ChangeRole(a) == LET s == admin[a].server  m == admin[a].member  op == admin[a].op IN
    /\ admin[a].at = "change"
    /\ \/ /\ table' = WrittenThrough(s, op, m)
          /\ server' = [server EXCEPT ![s].memory = IF op = "add" THEN @ \cup {m} ELSE @ \ {m}]
          /\ behind' = behind \cup OtherAdmins(s) /\ overwritten' = (overwritten \/ s \in behind)
          /\ effect' = [effect EXCEPT ![m] = op]
          /\ admin' = [admin EXCEPT ![a].at = "save"]
       \/ AdminAnswer(a, "error") /\ UNCHANGED <<table, server, behind, overwritten, effect>>
    /\ UNCHANGED <<seeded, changes>>

(* Where the rewrite fails the caller is told of an error, though its      *)
(* change is in memory and in the table.                                   *)
SaveChange(a) ==
    /\ admin[a].at = "save"
    /\ \/ SavePolicy(admin[a].server) /\ AdminAnswer(a, "done")
       \/ AdminAnswer(a, "error") /\ UNCHANGED <<seeded, table, behind, overwritten>>
    /\ UNCHANGED <<server, changes, effect>>

(* ReloadHandler: a load that fails leaves the old policy in force.        *)
Reload(s) ==
    /\ server[s].at = "up" /\ server[s].memory # table
    /\ server' = [server EXCEPT ![s].memory = table] /\ behind' = behind \ {s}
    /\ UNCHANGED <<seeded, table, admin, changes, overwritten, effect>>

-----------------------------------------------------------------------------
(* The default policy, and the team a request is made for: its own, or the *)
(* default, or none at all, which is refused.                              *)
Grants == [role_admin    |-> {"query:basic", "query:deep", "adapter", "member"},
           role_member   |-> {"query:basic", "query:deep", "adapter"},
           role_observer |-> {"query:basic"}]
TeamScope(team) == IF team = "" THEN PolicyTeam ELSE team
Enforce(s, user, team, resource) ==
    \E m \in server[s].memory : m.user = user /\ m.team = team /\ resource \in Grants[m.role]
Allowed(s, user, team, resource) ==
    TeamScope(team) # "" /\ Enforce(s, user, TeamScope(team), resource)

MembersNext ==
    \/ \E s \in Servers : StartServer(s) \/ BootstrapDefaultPolicy(s) \/ Reload(s)
    \/ \E a \in Admins, s \in Servers, op \in {"add", "remove"} : Ask(a, s, op)
    \/ \E a \in Admins : ChangeRole(a) \/ SaveChange(a)
MembersSpec == MembersInit /\ [][MembersNext]_memberVars

-----------------------------------------------------------------------------
MembersTypeOK ==
    /\ seeded \in BOOLEAN /\ table \subseteq TeamRoster /\ behind \subseteq Servers
    /\ \A s \in Servers : server[s].at \in {"down", "seeding", "up"} /\ server[s].memory \subseteq TeamRoster
    /\ \A a \in Admins : admin[a].at \in {"idle", "change", "save"}
    /\ changes \in 0..MaxChanges /\ effect \in [TeamRoster -> {"none", "add", "remove"}]

(* A role that was given or taken stays so in the table, whatever reloads, *)
(* failed rewrites and other requests come between the change of the row   *)
(* and the rewrite (AddMemberHandler, RemoveMemberHandler), as long as no  *)
(* server writes from a memory that misses another's change; and a server  *)
(* that misses none lets in those, and only those, who hold a role in the  *)
(* team the request is made for.                                           *)
Holds(user, team, resource) ==
    \E n \in TeamRoster : /\ effect[n] = "add" /\ n.user = user /\ n.team = team
                          /\ resource \in Grants[n.role]
MembershipKept ==
    ~overwritten =>
       /\ \A m \in TeamRoster : effect[m] = "add" <=> m \in table
       /\ \A s \in Servers \ behind, m \in TeamRoster, own \in BOOLEAN, resource \in Grants.role_admin :
             LET team == IF own THEN m.team ELSE "" IN
             server[s].at = "up" =>
                (Allowed(s, m.user, team, resource)
                   <=> TeamScope(team) # "" /\ Holds(m.user, TeamScope(team), resource))
=============================================================================
