------------------------------- MODULE Tenancy -------------------------------
(***************************************************************************)
(* Who sees which document (internal/index/tenancy, internal/index). The   *)
(* caller of Upsert may have the team of a document injected first, and a  *)
(* search goes by the team of its query or by the filter of the tenancy    *)
(* package. Nothing in the repository joins these operations yet (outside  *)
(* tests InjectTeamID, EnforceSearch and the two filters have no caller),  *)
(* so the model takes them in any order a caller may. The stores' own      *)
(* evaluation of a filter is external: a match on a field that is null or  *)
(* missing is false.                                                       *)
(***************************************************************************)
EXTENDS FiniteSets, Naturals

CONSTANTS Teams, Members,  \* team and user ids; "" is neither
          TenancyModes,    \* enforced, permissive, legacy
          DefaultTeam,     \* INDEX_DEFAULT_TEAM, "" when it is not set
          MaxStored        \* bound: documents upserted

PublicSentinel == "__public__"
Absent == "absent"       \* a field the metadata or the payload does not have

(* The default, when it is set, is a team.                                 *)
ASSUME TenancyAssumption ==
    /\ {"", PublicSentinel, Absent} \cap Teams = {} /\ {"", Absent} \cap Members = {}
    /\ DefaultTeam \in Teams \cup {"", PublicSentinel}
    /\ MaxStored \in Nat
    /\ TenancyModes \subseteq {"enforced", "permissive", "legacy"}

VARIABLES mode,
          draft,     \* the document in the caller's hands, if any
          stored,    \* the documents upserted
          asked, hits  \* the last search, and store -> what it showed
tenancyVars == <<mode, draft, stored, asked, hits>>

Claimants == Teams \cup {"", PublicSentinel}    \* a context may carry the sentinel
Context == [team : Claimants, user : Members \cup {""}]
Carried == Teams \cup {PublicSentinel, Absent}  \* what metadata may claim
Document == [metadata : BOOLEAN, claimed : Carried, team : Carried, home : Claimants]
PayloadStores == {"qdrant", "meili", "pg"}
NoHits == [s \in PayloadStores |-> {}]
NotAsked == [by |-> "nobody", team |-> "", public |-> FALSE]

-----------------------------------------------------------------------------
(* ParseMode: anything but the two other names is the enforced mode.       *)
ParseMode(env) == IF env \in {"permissive", "legacy"} THEN env ELSE "enforced"

(* ExtractTeamID falls back to the default; ExtractUserID does not.        *)
ExtractTeamID(ctx) == IF ctx.team # "" THEN ctx.team ELSE DefaultTeam

ValidateTeamID(team) == team # PublicSentinel

TenancyInit ==
    /\ ValidateTeamID(DefaultTeam)
    /\ \E env \in TenancyModes \cup {""} : mode = ParseMode(env)
    /\ draft = {} /\ stored = {} /\ asked = NotAsked /\ hits = NoHits

(* A document comes with metadata, which may claim a team, or with none at *)
(* all. home is the team it was injected with, "" before that.             *)
Receive(metadata, claimed) ==
    /\ draft = {} /\ (~metadata => claimed = Absent)
    /\ draft' = {[metadata |-> metadata, claimed |-> claimed, team |-> claimed, home |-> ""]}
    /\ UNCHANGED <<mode, stored, asked, hits>>

(* InjectTeamID: the context's team replaces whatever the caller claims,   *)
(* if there is metadata to write it to. Without any team the document is   *)
(* refused in the enforced mode, and left as it is in the others.          *)
TeamRequired(team) == mode = "enforced" /\ team = ""
InjectTeamID_Blank(d, team) == IF d.metadata THEN team ELSE d.team
InjectTeamID(d, team) == IF d.metadata /\ team # "" THEN team ELSE d.team

InjectTeam(ctx) ==
    LET team == ExtractTeamID(ctx) IN
    /\ \E d \in draft :
          draft' = IF TeamRequired(team) THEN {}
                   ELSE {[d EXCEPT !.team = InjectTeamID(d, team),
                                   !.home = IF team = "" THEN @ ELSE team]}
    /\ UNCHANGED <<mode, stored, asked, hits>>

(* Upsert takes the document as it is, in every mode.                      *)
UpsertDoc ==
    /\ draft # {} /\ Cardinality(stored) < MaxStored
    /\ stored' = stored \cup draft /\ draft' = {}
    /\ UNCHANGED <<mode, asked, hits>>

-----------------------------------------------------------------------------
(* What the stores hold of a document: its team in Qdrant, null in the two *)
(* others, and in none of them a user.                                     *)
FieldOf(s, d, field) == IF s = "qdrant" /\ field = "team_id" THEN d.team ELSE Absent

(* A filter: every condition of must holds, and one of should, if any.     *)
Match(field, value) == {<<field, value>>}
Meets(s, d, alternatives) == \E c \in alternatives : FieldOf(s, d, c[1]) = c[2]
Admits(s, filter, d) == \A alternatives \in filter : Meets(s, d, alternatives)

(* buildQdrantFilter, buildMeiliFilter, buildPGFilters.                    *)
TeamFilter(team) == IF team = "" THEN {} ELSE {Match("team_id", team)}

(* TenancyFilter: nothing without a team; the team, or with includePublic  *)
(* the team or everybody, and for a user what is the user's or nobody's.   *)
UserFilter(user) == IF user = "" THEN {} ELSE {Match("user_id", user) \cup Match("user_id", "")}
TenancyFilter_PublicAlways(team, user, public) ==
    IF team = "" THEN {}
    ELSE {Match("team_id", team) \cup Match("team_id", PublicSentinel)} \cup UserFilter(user)
TenancyFilter(team, user, public) ==
    IF team = "" THEN {}
    ELSE {IF public THEN Match("team_id", team) \cup Match("team_id", PublicSentinel)
          ELSE Match("team_id", team)} \cup UserFilter(user)

(* BuildMeiliTenancyFilter: the same, as conjuncts of a filter expression. *)
BuildMeiliTenancyFilter(team, user, public) ==
    LET teams == IF public THEN {team, PublicSentinel} ELSE {team} IN
    IF team = "" THEN {} ELSE {{<<"team_id", t>> : t \in teams}} \cup UserFilter(user)

Shown(s, filter) == {d \in stored : Admits(s, filter, d)}

(* Search: by the team of the query, whatever the mode.                    *)
SearchIndex(team) ==
    /\ asked' = [by |-> "index", team |-> team, public |-> FALSE]
    /\ hits' = [s \in PayloadStores |-> Shown(s, TeamFilter(team))]
    /\ UNCHANGED <<mode, draft, stored>>

(* A search by the tenancy filters: EnforceSearch refuses it without a     *)
(* team in the enforced mode, the filters for the sentinel as a team.      *)
SearchTenant(ctx, public) ==
    LET team == ExtractTeamID(ctx) IN
    /\ asked' = [by |-> "filter", team |-> team, public |-> public]
    /\ hits' = IF TeamRequired(team) \/ ~ValidateTeamID(team) THEN NoHits
               ELSE [NoHits EXCEPT
                       !["qdrant"] = Shown("qdrant", TenancyFilter(team, ctx.user, public)),
                       !["meili"] = Shown("meili", BuildMeiliTenancyFilter(team, ctx.user, public))]
    /\ UNCHANGED <<mode, draft, stored>>

TenancyNext ==
    \/ \E metadata \in BOOLEAN, claimed \in Carried : Receive(metadata, claimed)
    \/ \E ctx \in Context : InjectTeam(ctx)
    \/ UpsertDoc
    \/ \E team \in Claimants : SearchIndex(team)
    \/ \E ctx \in Context, public \in BOOLEAN : SearchTenant(ctx, public)

TenancySpec == TenancyInit /\ [][TenancyNext]_tenancyVars

-----------------------------------------------------------------------------
TenancyTypeOK ==
    /\ mode \in {"enforced", "permissive", "legacy"}
    /\ draft \cup stored \subseteq Document
    /\ \A s \in PayloadStores : hits[s] \subseteq stored

(* Whose a document is: the team's it was injected with, and if it never   *)
(* was, the team's it claims.                                              *)
Owner(d) == IF d.home # "" THEN d.home ELSE d.claimed

(* NFR-IDX4-001 (no leak): whatever path the documents took to the stores, *)
(* a search of a team shows what that team owns, or what is public if it   *)
(* asks for it; so does every search by the tenancy filters in the         *)
(* enforced mode, which without a team or with the sentinel as one show    *)
(* nothing. (The searches without a team outside that show everything.)    *)
TenantIsolation ==
    \A s \in PayloadStores : \A d \in hits[s] :
       asked.team # "" \/ (asked.by = "filter" /\ mode = "enforced") =>
          /\ Owner(d) = asked.team \/ (asked.public /\ Owner(d) = PublicSentinel)
          /\ asked.by = "filter" => asked.team # PublicSentinel
=============================================================================
