---------------------------- MODULE IndexProofs -----------------------------
(***************************************************************************)
(* Proofs about the index: isolation for any teams, users and documents    *)
(* (Tenancy), the cached search tokens, for any number of callers, tokens, *)
(* Onces and revocations, and any life of a token (TokenCache), and the    *)
(* answers that are served again, for any requests, votes and sizes of the *)
(* LRU (AnswerCache); and the routing of queries to adapters and of        *)
(* documents to shards, for any registry, query and document               *)
(* (IntentRouter), and the stores, for any writers, jobs, batches and      *)
(* rankings (IndexStores). The parts' types are the last lemmas.           *)
(***************************************************************************)
EXTENDS Tenancy, TokenCache, AnswerCache, IntentRouter, IndexStores, FiniteSetTheorems, SequenceTheorems,
        WellFoundedInduction, TLAPS

(* A document's team is its owner, or it carries none; without metadata it *)
(* cannot carry any.                                                       *)
Owned(d) == d.team \in {Absent, Owner(d)} /\ (~d.metadata => d.team = Absent)

TenancyInv ==
    /\ \A d \in draft \cup stored : d \in Document /\ Owned(d)
    /\ TenantIsolation

NoName == ""

(* The filters of the two stores are the same filter, written differently. *)
LEMMA SameFilter ==
    \A team, user, public :
       TenancyFilter(team, user, public) = BuildMeiliTenancyFilter(team, user, public)
<1> SUFFICES ASSUME NEW team, NEW user, NEW public
             PROVE  TenancyFilter(team, user, public)
                       = BuildMeiliTenancyFilter(team, user, public)
  OBVIOUS
<1>1. {<<"team_id", t>> : t \in IF public THEN {team, PublicSentinel} ELSE {team}}
         = IF public THEN Match("team_id", team) \cup Match("team_id", PublicSentinel)
           ELSE Match("team_id", team)
  BY DEF Match
<1> QED
  BY <1>1 DEF TenancyFilter, BuildMeiliTenancyFilter

(* The team of a context, the default included, is a name and not Absent.  *)
LEMMA ContextTeam ==
    ASSUME NEW ctx \in Context
    PROVE  ExtractTeamID(ctx) \in Claimants /\ ExtractTeamID(ctx) # Absent
<1>1. ctx.team \in Claimants /\ DefaultTeam \in Claimants
  BY TenancyAssumption DEF Context, Claimants
<1>2. Absent \notin Claimants
  BY TenancyAssumption DEF Claimants, Absent, PublicSentinel
<1> QED
  BY <1>1, <1>2 DEF ExtractTeamID

(* A document that is injected is still one.                               *)
LEMMA InjectedTyped ==
    ASSUME NEW ctx \in Context, NEW d \in Document
    PROVE  [d EXCEPT !.team = InjectTeamID(d, ExtractTeamID(ctx)),
                     !.home = IF ExtractTeamID(ctx) = "" THEN @ ELSE ExtractTeamID(ctx)] \in Document
<1> DEFINE team == ExtractTeamID(ctx)
<1>1. team \in Claimants
  BY ContextTeam
<1> HIDE DEF team
<1>2. InjectTeamID(d, team) \in Carried
  BY <1>1 DEF InjectTeamID, Document, Claimants, Carried
<1>3. [d EXCEPT !.team = InjectTeamID(d, team),
                !.home = IF team = "" THEN @ ELSE team] \in Document
  BY <1>1, <1>2 DEF Document
<1> QED
  BY <1>3 DEF team

(* A store admits for a team only documents that team, or everybody, owns. *)
LEMMA AdmittedTeam ==
    ASSUME NEW team, team # Absent, NEW public \in BOOLEAN, NEW s, NEW d, Owned(d),
           NEW teams, Meets(s, d, teams),
           teams = IF public THEN Match("team_id", team) \cup Match("team_id", PublicSentinel)
                   ELSE Match("team_id", team)
    PROVE  Owner(d) = team \/ (public /\ Owner(d) = PublicSentinel)
<1>1. PICK c \in teams : FieldOf(s, d, c[1]) = c[2]
  BY DEF Meets
<1>2. c = <<"team_id", team>> \/ (public /\ c = <<"team_id", PublicSentinel>>)
  BY DEF Match
<1>3. c[2] # Absent /\ (c[2] = team \/ (public /\ c[2] = PublicSentinel))
  BY <1>2 DEF Absent, PublicSentinel
<1>4. d.team = c[2]
  BY <1>1, <1>3 DEF FieldOf
<1> QED
  BY <1>3, <1>4 DEF Owned

(* The two kinds of filter, for a team.                                    *)
LEMMA Admitted ==
    ASSUME NEW team, team # Absent, team # NoName, NEW user, NEW public \in BOOLEAN,
           NEW s, NEW d, Owned(d)
    PROVE  /\ Admits(s, TenancyFilter(team, user, public), d) =>
                Owner(d) = team \/ (public /\ Owner(d) = PublicSentinel)
           /\ Admits(s, TeamFilter(team), d) => Owner(d) = team
<1> DEFINE teams == IF public THEN Match("team_id", team) \cup Match("team_id", PublicSentinel)
                    ELSE Match("team_id", team)
<1>1. teams \in TenancyFilter(team, user, public)
  BY DEF TenancyFilter, NoName
<1>2. TeamFilter(team) = {Match("team_id", team)}
  BY DEF TeamFilter, NoName
<1>3. ASSUME Admits(s, TenancyFilter(team, user, public), d)
      PROVE  Owner(d) = team \/ (public /\ Owner(d) = PublicSentinel)
  <2>1. Meets(s, d, teams)
    BY <1>1, <1>3 DEF Admits
  <2> HIDE DEF teams
  <2>2. teams = IF public THEN Match("team_id", team) \cup Match("team_id", PublicSentinel)
                ELSE Match("team_id", team)
    BY DEF teams
  <2> QED
    BY <2>1, <2>2, AdmittedTeam
<1>4. ASSUME Admits(s, TeamFilter(team), d) PROVE Owner(d) = team
  <2> DEFINE one == Match("team_id", team)
  <2>1. Meets(s, d, one)
    BY <1>2, <1>4 DEF Admits
  <2>2. one = IF FALSE THEN Match("team_id", team) \cup Match("team_id", PublicSentinel)
              ELSE Match("team_id", team)
    OBVIOUS
  <2> HIDE DEF one
  <2>3. Owner(d) = team \/ (FALSE /\ Owner(d) = PublicSentinel)
    BY <2>1, <2>2, AdmittedTeam
  <2> QED
    BY <2>3
<1> QED
  BY <1>3, <1>4

(* At first nothing is stored and nobody has searched.                     *)
LEMMA InitTenancy == TenancyInit => TenancyInv
BY DEF TenancyInit, NoHits, TenancyInv, TenantIsolation

(* A document the caller holds, injected or stored, stays its owner's.     *)
LEMMA DocumentKeeps ==
    ASSUME TenancyInv,
           \/ \E metadata \in BOOLEAN, claimed \in Carried :
                 Receive(metadata, claimed)
           \/ \E ctx \in Context : InjectTeam(ctx)
           \/ UpsertDoc
    PROVE  TenancyInv'
<1>1. CASE \E metadata \in BOOLEAN, claimed \in Carried :
              Receive(metadata, claimed)
  <2>1. PICK metadata \in BOOLEAN, claimed \in Carried :
              Receive(metadata, claimed)
    BY <1>1
  <2> DEFINE d == [metadata |-> metadata, claimed |-> claimed, team |-> claimed, home |-> ""]
  <2>2. draft' = {d} /\ UNCHANGED <<mode, stored, asked, hits>> /\ (~metadata => claimed = Absent)
    BY <2>1 DEF Receive
  <2>3. d \in Document /\ Owned(d)
    BY <2>2 DEF Owned, Owner, Document, Claimants
  <2> HIDE DEF d
  <2> QED
    BY <2>2, <2>3 DEF TenancyInv, TenantIsolation
<1>2. CASE \E ctx \in Context : InjectTeam(ctx)
  <2>1. PICK ctx \in Context : InjectTeam(ctx)
    BY <1>2
  <2> DEFINE team == ExtractTeamID(ctx)
             new(d) == [d EXCEPT !.team = InjectTeamID(d, team),
                                 !.home = IF team = "" THEN @ ELSE team]
  <2>2. \E d \in draft : draft' = {} \/ draft' = {new(d)}
    BY <2>1 DEF InjectTeam
  <2>3. UNCHANGED <<mode, stored, asked, hits>>
    BY <2>1 DEF InjectTeam
  <2>4. ASSUME NEW d \in draft PROVE new(d) \in Document /\ Owned(new(d))
    <3>1. d \in Document /\ Owned(d)
      BY DEF TenancyInv
    <3>2. new(d) \in Document
      BY <3>1, InjectedTyped
    <3> HIDE DEF team
    <3>3. /\ new(d).claimed = d.claimed /\ new(d).team = InjectTeamID(d, team)
          /\ new(d).home = IF team = "" THEN d.home ELSE team
      BY <3>1 DEF Document
    <3>4. new(d).team = IF d.metadata /\ team # "" THEN team ELSE d.team
      BY <3>3 DEF InjectTeamID
    <3>5. new(d).metadata = d.metadata /\ (~d.metadata => d.team = Absent)
      BY <3>1 DEF Document, Owned
    <3> QED
      BY <3>1, <3>2, <3>3, <3>4, <3>5 DEF Owned, Owner
  <2> HIDE DEF team, new
  <2> QED
    BY <2>2, <2>3, <2>4 DEF TenancyInv, TenantIsolation
<1>3. CASE UpsertDoc
  BY <1>3 DEF UpsertDoc, TenancyInv, TenantIsolation
<1> QED
  BY <1>1, <1>2, <1>3

(* A search by the query's team shows what its filter admits.              *)
LEMMA SearchKeeps ==
    ASSUME TenancyInv, NEW team \in Claimants, SearchIndex(team)
    PROVE  TenancyInv'
<1>1. /\ UNCHANGED <<mode, draft, stored>>
      /\ asked'.by = "index" /\ asked'.team = team
      /\ hits' = [s \in PayloadStores |-> Shown(s, TeamFilter(team))]
  BY DEF SearchIndex
<1>2. ASSUME NEW s \in PayloadStores, NEW d \in hits'[s], team # NoName PROVE Owner(d) = team
  <2>1. d \in stored /\ Admits(s, TeamFilter(team), d)
    BY <1>1, <1>2 DEF Shown
  <2>2. team # Absent
    BY TenancyAssumption DEF Claimants, Absent, PublicSentinel
  <2>3. Owned(d)
    BY <2>1 DEF TenancyInv
  <2> QED
    BY <1>2, <2>1, <2>2, <2>3, Admitted
<1> QED
  BY <1>1, <1>2 DEF TenancyInv, TenantIsolation, NoName, Owner

(* So does one by the tenancy filters, unless it is refused.               *)
LEMMA TenantSearchKeeps ==
    ASSUME TenancyInv, NEW ctx \in Context, NEW public \in BOOLEAN, SearchTenant(ctx, public)
    PROVE  TenancyInv'
<1> DEFINE team == ExtractTeamID(ctx)
           user == ctx.user
<1>1. /\ UNCHANGED <<mode, draft, stored>>
      /\ asked'.team = team /\ asked'.public = public
  BY DEF SearchTenant
<1>2. \/ hits' = NoHits
      \/ /\ ~TeamRequired(team) /\ ValidateTeamID(team)
         /\ hits' = [NoHits EXCEPT !["qdrant"] = Shown("qdrant", TenancyFilter(team, user, public)),
                                   !["meili"] = Shown("meili", TenancyFilter(team, user, public))]
  BY SameFilter DEF SearchTenant
<1>3. team # Absent
  BY ContextTeam
<1> HIDE DEF team, user
<1>4. ASSUME NEW s \in PayloadStores, NEW d \in hits'[s],
             team # NoName \/ mode = "enforced"
      PROVE  /\ Owner(d) = team \/ (public /\ Owner(d) = PublicSentinel)
             /\ team # PublicSentinel
  <2>1. NoHits[s] = {}
    BY DEF NoHits
  <2>2. /\ ~TeamRequired(team) /\ ValidateTeamID(team)
        /\ d \in Shown(s, TenancyFilter(team, user, public))
    BY <1>2, <1>4, <2>1 DEF NoHits, PayloadStores
  <2>3. team # NoName /\ team # PublicSentinel
    BY <1>4, <2>2 DEF TeamRequired, ValidateTeamID, NoName
  <2>4. d \in stored /\ Admits(s, TenancyFilter(team, user, public), d)
    BY <2>2 DEF Shown
  <2>5. Owned(d)
    BY <2>4 DEF TenancyInv
  <2> QED
    BY <1>3, <2>3, <2>4, <2>5, Admitted
<1> QED
  BY <1>1, <1>4 DEF TenancyInv, TenantIsolation, NoName, Owner

(* Whatever path a document took, a search of a team shows what that team  *)
(* owns, or what is public if it asks for it, and a search by the tenancy  *)
(* filters in the enforced mode shows nothing else, nor anything without a *)
(* team (enforcer.go, filter.go, dispatch.go).                             *)
THEOREM Isolated == TenancySpec => []TenantIsolation
<1>1. TenancyInv /\ [TenancyNext]_tenancyVars => TenancyInv'
  <2> SUFFICES ASSUME TenancyInv, [TenancyNext]_tenancyVars PROVE TenancyInv'
    OBVIOUS
  <2>1. CASE UNCHANGED tenancyVars
    BY <2>1 DEF tenancyVars, TenancyInv, TenantIsolation
  <2> QED
    BY <2>1, DocumentKeeps, SearchKeeps, TenantSearchKeeps DEF TenancyNext
<1>2. TenancyInv => TenantIsolation
  BY DEF TenancyInv
<1> QED
  BY InitTenancy, <1>1, <1>2, PTL DEF TenancySpec

-----------------------------------------------------------------------------
(* The cached tokens.                                                      *)

OnceStates == {"fresh", "running", "done"}
Onces == DOMAIN doing

(* Callers hold Onces that exist; ids are those issued so far.             *)
TokenTypes ==
    /\ doing \in Seq(OnceStates) /\ onceMap \in Nat /\ onceMap <= Len(doing)
    /\ cpc \in [TokenCallers -> {"idle", "miss", "once", "issuing", "failed", "error", "returned"}]
    /\ cOnce \in [TokenCallers -> Nat]
    /\ got \in [TokenCallers -> Nat]
    /\ before \in [TokenCallers -> SUBSET Nat]
    /\ issued \in Nat
    /\ entry \in [id : Nat, left : Int] /\ entry.id <= issued
    /\ revoked \subseteq 1..issued

(* A caller that issues runs its Once, and no other caller does.           *)
OncesHeld ==
    /\ \A c \in TokenCallers : cpc[c] \in {"once", "issuing"} => cOnce[c] \in 1..Len(doing)
    /\ \A c \in Issuing : doing[cOnce[c]] = "running"
    /\ \A c, d \in Issuing : cOnce[c] = cOnce[d] => c = d

(* What was revoked is neither in the cache nor in an answer that began    *)
(* afterwards.                                                             *)
NothingRevoked ==
    /\ entry.id \notin revoked
    /\ \A c \in TokenCallers : before[c] \subseteq revoked
    /\ \A c \in TokenCallers : cpc[c] = "returned" => got[c] \notin before[c]

TokenInv == TokenTypes /\ OncesHeld /\ NothingRevoked

-----------------------------------------------------------------------------
(* At first no Once has run and nothing is cached.                         *)
LEMMA InitToken == TokenInit => TokenInv
<1> SUFFICES ASSUME TokenInit PROVE TokenInv
  OBVIOUS
<1>1. doing \in Seq(OnceStates) /\ Len(doing) = 0
  BY EmptySeq DEF TokenInit
<1>2. cpc \in [TokenCallers -> {"idle"}] /\ before \in [TokenCallers -> {{}}]
  BY DEF TokenInit
<1>3. entry.id = 0 /\ entry \in [id : Nat, left : Int] /\ issued = 0 /\ revoked = {}
  BY DEF TokenInit, NoEntry
<1>4. TokenTypes
  BY <1>1, <1>2, <1>3 DEF TokenInit, TokenTypes
<1> QED
  BY <1>2, <1>3, <1>4 DEF TokenInv, OncesHeld, NothingRevoked, Issuing

(* A step that returns a token not revoked before the call began.          *)
LEMMA Returning ==
    ASSUME TokenTypes, NothingRevoked, NEW c \in TokenCallers, NEW id \in Nat,
           Return(c, id), id \notin revoked, UNCHANGED <<before, revoked>>, entry'.id \notin revoked
    PROVE  NothingRevoked'
BY DEF TokenTypes, NothingRevoked, Return

(* A step that moves one caller away from its Once or leaves all in place. *)
LEMMA OnceKept ==
    ASSUME TokenTypes, OncesHeld, NEW c \in TokenCallers, NEW s, s \notin {"once", "issuing"},
           cpc' = [cpc EXCEPT ![c] = s], UNCHANGED cOnce,
           Len(doing') = Len(doing),
           \A o \in 1..Len(doing) : (cpc[c] # "issuing" \/ o # cOnce[c]) /\ doing[o] = "running"
                                       => doing'[o] = "running"
    PROVE  OncesHeld'
<1>1. \A d \in TokenCallers : cpc'[d] = IF d = c THEN s ELSE cpc[d]
  BY DEF TokenTypes
<1>2. Issuing' = Issuing \ {c}
  BY <1>1 DEF Issuing
<1>3. \A d \in Issuing' : doing'[cOnce[d]] = "running"
  <2> SUFFICES ASSUME NEW d \in Issuing' PROVE doing'[cOnce[d]] = "running"
    OBVIOUS
  <2>1. d \in Issuing /\ d # c /\ d \in TokenCallers
    BY <1>2 DEF Issuing
  <2>2. cOnce[d] \in 1..Len(doing) /\ doing[cOnce[d]] = "running"
    BY <2>1 DEF OncesHeld, Issuing
  <2>3. cpc[c] # "issuing" \/ cOnce[d] # cOnce[c]
    BY <2>1 DEF OncesHeld, Issuing
  <2> QED
    BY <2>2, <2>3
<1> QED
  BY <1>1, <1>2, <1>3 DEF OncesHeld

(* The critical sections of GetOrIssue, one by one.                        *)
LEMMA CallerStep ==
    ASSUME TokenInv, NEW c \in TokenCallers,
           \/ Lookup(c) \/ LoadOnce(c) \/ RunOnce(c) \/ IssueOK(c)
           \/ IssueFails(c) \/ DropOnce(c) \/ ReadAfter(c) \/ CallAgain(c)
    PROVE  TokenInv'
<1>1. TokenTypes /\ OncesHeld /\ NothingRevoked
  BY DEF TokenInv
<1>2. entry.id \in Nat /\ entry.id \notin revoked /\ issued + 1 \in Nat
      /\ issued + 1 \notin revoked
  BY <1>1 DEF TokenTypes, NothingRevoked
<1>3. \A o \in 1..Len(doing) : \A s \in OnceStates :
         /\ [doing EXCEPT ![o] = s] \in Seq(OnceStates)
         /\ Len([doing EXCEPT ![o] = s]) = Len(doing)
         /\ \A i \in 1..Len(doing) : [doing EXCEPT ![o] = s][i] = IF i = o THEN s ELSE doing[i]
  BY <1>1, ExceptSeq DEF TokenTypes
<1>4. CASE Lookup(c)
  <2>1. /\ UNCHANGED <<entry, onceMap, doing, cOnce, issued, revoked>>
        /\ before' = [before EXCEPT ![c] = revoked]
        /\ \/ Return(c, entry.id)
           \/ cpc' = [cpc EXCEPT ![c] = "miss"] /\ got' = got
    BY <1>4 DEF Lookup, revokeVars
  <2>2. TokenTypes'
    <3>1. before' \in [TokenCallers -> SUBSET Nat]
      <4>1. revoked \subseteq Nat
        BY <1>1 DEF TokenTypes
      <4> QED
        BY <1>1, <2>1, <4>1 DEF TokenTypes
    <3>2. /\ cpc' \in [TokenCallers -> {"idle", "miss", "once", "issuing", "failed", "error",
                                       "returned"}]
          /\ got' \in [TokenCallers -> Nat]
      BY <1>1, <1>2, <2>1 DEF TokenTypes, Return
    <3> QED
      BY <1>1, <2>1, <3>1, <3>2 DEF TokenTypes
  <2>3. OncesHeld'
    BY <1>1, <2>1, OnceKept DEF Return
  <2>4. NothingRevoked'
    BY <1>1, <1>2, <2>1 DEF TokenTypes, NothingRevoked, Return
  <2> QED
    BY <2>2, <2>3, <2>4 DEF TokenInv
<1>5. CASE LoadOnce(c)
  <2>1. /\ UNCHANGED <<entry, got, before, issued, revoked>> /\ cpc[c] = "miss"
        /\ cpc' = [cpc EXCEPT ![c] = "once"]
    BY <1>5 DEF LoadOnce, revokeVars
  <2>2. NothingRevoked'
    BY <1>1, <2>1 DEF TokenTypes, NothingRevoked
  <2>3. \A d \in TokenCallers : cpc'[d] = IF d = c THEN "once" ELSE cpc[d]
    BY <1>1, <2>1 DEF TokenTypes
  <2>4. Issuing' = Issuing
    BY <2>1, <2>3 DEF Issuing
  <2>5. CASE onceMap # 0 /\ cOnce' = [cOnce EXCEPT ![c] = onceMap] /\ UNCHANGED <<onceMap, doing>>
    <3>1. TokenTypes'
      BY <1>1, <2>1, <2>5 DEF TokenTypes
    <3>2. \A d \in TokenCallers : cOnce'[d] = IF d = c THEN onceMap ELSE cOnce[d]
      BY <1>1, <2>5 DEF TokenTypes
    <3>3. onceMap \in 1..Len(doing)
      BY <1>1, <2>5, LenProperties DEF TokenTypes
    <3>4. OncesHeld'
      BY <1>1, <2>1, <2>3, <2>4, <2>5, <3>2, <3>3 DEF OncesHeld, Issuing
    <3> QED
      BY <2>2, <3>1, <3>4 DEF TokenInv
  <2>6. CASE /\ doing' = Append(doing, "fresh") /\ onceMap' = Len(doing')
             /\ cOnce' = [cOnce EXCEPT ![c] = Len(doing')]
    <3> DEFINE n == Len(doing)
    <3>1. /\ doing' \in Seq(OnceStates) /\ Len(doing') = n + 1 /\ n \in Nat
          /\ \A i \in 1..n : doing'[i] = doing[i]
      BY <1>1, <2>6, AppendProperties, LenProperties DEF TokenTypes, OnceStates
    <3>2. \A d \in TokenCallers : cpc[d] \in {"once", "issuing"} => cOnce[d] \in 1..n
      BY <1>1 DEF OncesHeld
    <3>3. \A d \in Issuing : doing[cOnce[d]] = "running"
      BY <1>1 DEF OncesHeld
    <3> HIDE DEF n
    <3>4. \A d \in TokenCallers : cOnce'[d] = IF d = c THEN n + 1 ELSE cOnce[d]
      BY <1>1, <2>6, <3>1 DEF TokenTypes
    <3>5. TokenTypes'
      BY <1>1, <2>1, <2>6, <3>1 DEF TokenTypes
    <3>6. \A d \in TokenCallers : cpc'[d] \in {"once", "issuing"} => cOnce'[d] \in 1..Len(doing')
      BY <2>3, <3>1, <3>2, <3>4
    <3>7. c \notin Issuing
      BY <2>1 DEF Issuing
    <3>8. \A d \in Issuing' : doing'[cOnce'[d]] = "running"
      <4> SUFFICES ASSUME NEW d \in Issuing PROVE doing'[cOnce'[d]] = "running"
        BY <2>4
      <4>1. d \in TokenCallers /\ cOnce'[d] = cOnce[d] /\ cOnce[d] \in 1..n
        BY <3>2, <3>4, <3>7 DEF Issuing
      <4> QED
        BY <3>1, <3>3, <4>1
    <3>9. \A d, e \in Issuing' : cOnce'[d] = cOnce'[e] => d = e
      BY <1>1, <2>4, <3>4, <3>7 DEF OncesHeld, Issuing
    <3> QED
      BY <2>2, <3>5, <3>6, <3>8, <3>9 DEF TokenInv, OncesHeld
  <2> QED
    BY <1>5, <2>5, <2>6 DEF LoadOnce
<1>6. CASE RunOnce(c)
  <2>1. /\ UNCHANGED <<entry, onceMap, cOnce, before, issued, revoked>>
        /\ cpc[c] = "once" /\ doing[cOnce[c]] = "fresh" /\ cOnce[c] \in 1..Len(doing)
    BY <1>1, <1>6 DEF RunOnce, MayRun, revokeVars, OncesHeld
  <2>2. CASE Return(c, entry.id) /\ doing' = [doing EXCEPT ![cOnce[c]] = "done"]
    <3>1. NothingRevoked'
      BY <1>1, <1>2, <2>1, <2>2, Returning
    <3>2. /\ doing' \in Seq(OnceStates) /\ Len(doing') = Len(doing)
          /\ \A i \in 1..Len(doing) : doing[i] = "running" => doing'[i] = "running"
      BY <1>3, <2>1, <2>2 DEF OnceStates
    <3>3. TokenTypes'
      BY <1>1, <1>2, <2>1, <2>2, <3>2 DEF TokenTypes, Return
    <3>4. OncesHeld'
      BY <1>1, <2>1, <2>2, <3>2, OnceKept DEF Return
    <3> QED
      BY <3>1, <3>3, <3>4 DEF TokenInv
  <2>3. CASE /\ cpc' = [cpc EXCEPT ![c] = "issuing"] /\ got' = got
             /\ doing' = [doing EXCEPT ![cOnce[c]] = "running"]
    <3>1. NothingRevoked'
      BY <1>1, <2>1, <2>3 DEF TokenTypes, NothingRevoked
    <3>2. /\ doing' \in Seq(OnceStates) /\ Len(doing') = Len(doing)
          /\ \A i \in 1..Len(doing) : doing'[i] = IF i = cOnce[c] THEN "running" ELSE doing[i]
      BY <1>3, <2>1, <2>3 DEF OnceStates
    <3>3. TokenTypes'
      BY <1>1, <2>1, <2>3, <3>2 DEF TokenTypes
    <3>4. \A d \in TokenCallers : cpc'[d] = IF d = c THEN "issuing" ELSE cpc[d]
      BY <1>1, <2>3 DEF TokenTypes
    <3>5. Issuing' = Issuing \cup {c}
      BY <3>4 DEF Issuing
    <3>6. \A d \in Issuing : cOnce[d] \in 1..Len(doing) /\ cOnce[d] # cOnce[c]
                             /\ doing[cOnce[d]] = "running"
      BY <1>1, <2>1 DEF OncesHeld, Issuing
    <3>7. OncesHeld'
      <4>1. \A d \in TokenCallers : cpc'[d] \in {"once", "issuing"} => cOnce[d] \in 1..Len(doing)
        BY <1>1, <2>1, <3>4 DEF OncesHeld
      <4>2. \A d \in Issuing' : doing'[cOnce[d]] = "running"
        BY <2>1, <3>2, <3>5, <3>6
      <4>3. \A d, e \in Issuing' : cOnce[d] = cOnce[e] => d = e
        BY <1>1, <3>5, <3>6 DEF OncesHeld
      <4> QED
        BY <2>1, <3>2, <4>1, <4>2, <4>3 DEF OncesHeld
    <3> QED
      BY <3>1, <3>3, <3>7 DEF TokenInv
  <2> QED
    BY <1>6, <2>2, <2>3 DEF RunOnce
<1>7. CASE IssueOK(c)
  <2>1. /\ UNCHANGED <<onceMap, cOnce, before, revoked>> /\ cpc[c] = "issuing"
        /\ issued' = issued + 1 /\ entry' = [id |-> issued + 1, left |-> TokenLife]
        /\ doing' = [doing EXCEPT ![cOnce[c]] = "done"] /\ Return(c, issued + 1)
    BY <1>7 DEF IssueOK, revokeVars
  <2>2. cOnce[c] \in 1..Len(doing)
    BY <1>1, <2>1 DEF OncesHeld
  <2>3. NothingRevoked'
    BY <1>1, <1>2, <2>1, Returning
  <2>4. /\ doing' \in Seq(OnceStates) /\ Len(doing') = Len(doing)
        /\ \A i \in 1..Len(doing) : doing'[i] = IF i = cOnce[c] THEN "done" ELSE doing[i]
    BY <1>3, <2>1, <2>2 DEF OnceStates
  <2>5. entry' \in [id : Nat, left : Int] /\ entry'.id <= issued' /\ revoked' \subseteq 1..issued'
    BY <1>1, <1>2, <2>1, TokenAssumption DEF TokenTypes
  <2>6. TokenTypes'
    BY <1>1, <1>2, <2>1, <2>4, <2>5 DEF TokenTypes, Return
  <2>7. OncesHeld'
    BY <1>1, <2>1, <2>4, OnceKept DEF Return
  <2> QED
    BY <2>3, <2>6, <2>7 DEF TokenInv
<1>8. CASE IssueFails(c)
  <2>1. /\ UNCHANGED <<entry, onceMap, cOnce, got, before, issued, revoked>> /\ cpc[c] = "issuing"
        /\ doing' = [doing EXCEPT ![cOnce[c]] = "done"] /\ cpc' = [cpc EXCEPT ![c] = "failed"]
    BY <1>8 DEF IssueFails, revokeVars
  <2>2. cOnce[c] \in 1..Len(doing)
    BY <1>1, <2>1 DEF OncesHeld
  <2>3. NothingRevoked'
    BY <1>1, <2>1 DEF TokenTypes, NothingRevoked
  <2>4. /\ doing' \in Seq(OnceStates) /\ Len(doing') = Len(doing)
        /\ \A i \in 1..Len(doing) : doing'[i] = IF i = cOnce[c] THEN "done" ELSE doing[i]
    BY <1>3, <2>1, <2>2 DEF OnceStates
  <2>5. TokenTypes'
    BY <1>1, <2>1, <2>4 DEF TokenTypes
  <2>6. OncesHeld'
    BY <1>1, <2>1, <2>4, OnceKept
  <2> QED
    BY <2>3, <2>5, <2>6 DEF TokenInv
<1>9. CASE DropOnce(c) \/ CallAgain(c)
  <2>1. /\ UNCHANGED <<entry, doing, cOnce, before, issued, revoked>> /\ onceMap' \in {0, onceMap}
        /\ \E s \in {"error", "idle"} : cpc' = [cpc EXCEPT ![c] = s]
        /\ got' = got \/ got' = [got EXCEPT ![c] = 0]
    BY <1>9 DEF DropOnce, CallAgain, revokeVars
  <2>2. TokenTypes'
    <3>0. PICK s \in {"error", "idle"} : cpc' = [cpc EXCEPT ![c] = s]
      BY <2>1
    <3>1. cpc' \in [TokenCallers -> {"idle", "miss", "once", "issuing", "failed", "error",
                                    "returned"}]
      BY <1>1, <3>0 DEF TokenTypes
    <3>3. got' \in [TokenCallers -> Nat]
      <4>1. got \in [TokenCallers -> Nat]
        BY <1>1 DEF TokenTypes
      <4>2. got' = got \/ got' = [got EXCEPT ![c] = 0]
        BY <2>1
      <4> QED
        BY <4>1, <4>2
    <3>2. onceMap' \in Nat /\ onceMap' <= Len(doing)
      BY <1>1, <2>1, LenProperties DEF TokenTypes
    <3> QED
      BY <1>1, <2>1, <3>1, <3>2, <3>3 DEF TokenTypes
  <2>3. OncesHeld'
    BY <1>1, <2>1, OnceKept
  <2>4. NothingRevoked'
    BY <1>1, <2>1, <1>9 DEF TokenTypes, NothingRevoked, DropOnce, CallAgain
  <2> QED
    BY <2>2, <2>3, <2>4 DEF TokenInv
<1>10. CASE ReadAfter(c)
  <2>1. /\ UNCHANGED <<entry, onceMap, doing, cOnce, before, issued, revoked>>
        /\ Return(c, entry.id)
    BY <1>10 DEF ReadAfter, revokeVars
  <2>2. TokenTypes'
    BY <1>1, <1>2, <2>1 DEF TokenTypes, Return
  <2>3. OncesHeld'
    BY <1>1, <2>1, OnceKept DEF Return
  <2>4. NothingRevoked'
    BY <1>1, <1>2, <2>1, Returning
  <2> QED
    BY <2>2, <2>3, <2>4 DEF TokenInv
<1> QED
  BY <1>4, <1>5, <1>6, <1>7, <1>8, <1>9, <1>10

(* The worker, Revoke and the clock leave the callers and their Onces.     *)
LEMMA BackgroundStep ==
    ASSUME TokenInv, \/ StartRefresh \/ FinishRefresh \/ Revoke \/ RevokeOnce \/ TokenTick
                     \/ UNCHANGED tokenVars
    PROVE  TokenInv'
<1>1. TokenTypes /\ OncesHeld /\ NothingRevoked
  BY DEF TokenInv
<1>2. UNCHANGED <<doing, cpc, cOnce, got, before>> /\ onceMap' \in {0, onceMap}
  BY DEF StartRefresh, FinishRefresh, Revoke, RevokeOnce, TokenTick, tokenVars, callerVars
<1>3. OncesHeld'
  BY <1>1, <1>2 DEF OncesHeld, Issuing
<1>4. /\ issued' \in Nat /\ entry' \in [id : Nat, left : Int] /\ entry'.id <= issued'
      /\ revoked' \subseteq 1..issued' /\ revoked \subseteq revoked' /\ entry'.id \notin revoked'
  <2>1. CASE FinishRefresh
    BY <1>1, <2>1, TokenAssumption DEF FinishRefresh, revokeVars, TokenTypes, NothingRevoked
  <2>2. CASE Revoke
    <3>1. /\ issued' = issued /\ entry' = NoEntry
          /\ revoked' = revoked \cup ({entry.id} \ {0})
      BY <2>2 DEF Revoke
    <3>2. entry.id \in Nat /\ entry.id <= issued /\ issued \in Nat /\ revoked \subseteq 1..issued
      BY <1>1 DEF TokenTypes
    <3>3. entry'.id = 0 /\ entry' \in [id : Nat, left : Int]
      BY <3>1 DEF NoEntry
    <3> DEFINE id == entry.id
    <3>4. id \in Nat /\ id <= issued
      BY <3>2
    <3> HIDE DEF id
    <3>5. {id} \ {0} \subseteq 1..issued
      BY <3>2, <3>4
    <3>6. revoked' \subseteq 1..issued
      BY <3>1, <3>2, <3>5 DEF id
    <3> QED
      BY <3>1, <3>2, <3>3, <3>6
  <2>3. CASE TokenTick
    <3>1. entry' = [entry EXCEPT !.left = @ - 1] /\ UNCHANGED <<issued, revoked>>
      BY <2>3 DEF TokenTick, revokeVars
    <3>2. entry'.id = entry.id /\ entry' \in [id : Nat, left : Int]
      BY <1>1, <3>1 DEF TokenTypes
    <3> QED
      BY <1>1, <3>1, <3>2 DEF TokenTypes, NothingRevoked
  <2>4. CASE StartRefresh \/ RevokeOnce \/ UNCHANGED tokenVars
    BY <1>1, <2>4 DEF StartRefresh, RevokeOnce, tokenVars, revokeVars, TokenTypes, NothingRevoked
  <2> QED
    BY <2>1, <2>2, <2>3, <2>4
<1>5. TokenTypes'
  BY <1>1, <1>2, <1>4, LenProperties DEF TokenTypes
<1>6. NothingRevoked'
  BY <1>1, <1>2, <1>4 DEF TokenTypes, NothingRevoked
<1> QED
  BY <1>3, <1>5, <1>6 DEF TokenInv

(* A Once issues for one caller at a time, and no call that began after a  *)
(* revocation returns a token it removed, however the refresh worker, the  *)
(* readers and the issuers interleave with it (token_cache.go).            *)
THEOREM TokensKept == TokenSpec => []TokensSound
<1>1. TokenInv /\ [TokenNext]_tokenVars => TokenInv'
  BY CallerStep, BackgroundStep DEF TokenNext
<1>2. TokenInv => TokensSound
  BY DEF TokenInv, OncesHeld, NothingRevoked, TokensSound
<1> QED
  BY InitToken, <1>1, <1>2, PTL DEF TokenSpec

-----------------------------------------------------------------------------
(* The answer cache: the LRU knows a request once, by the answer it was    *)
(* served, and an answer that was marked stale is forced to be stale.      *)
Entry == [key : AskIds, doc : CacheDocIDs, left : 0..LRULife]
Distinct(s) == \A i, j \in 1..Len(s) : s[i].key = s[j].key => i = j
LastGiven(s, at, docs) ==
    \A i \in 1..Len(s) : at[s[i].key] = "served" => s[i].doc = docs[s[i].key]
Stored == [age : 0..MaxAge, category : DOMAIN Categories \cup {"none"}, ttl : Nat,
           forced : BOOLEAN, stored : BOOLEAN]
MappingInv ==
    /\ lru \in Seq(Entry) /\ Len(lru) <= LRUCapacity
    /\ Distinct(lru) /\ LastGiven(lru, ask, asks)
    /\ DOMAIN ask = AskIds /\ DOMAIN asks = AskIds
    /\ \A r \in AskIds : ask[r] # "idle" => asks[r] \in CacheDocIDs
StaleInv ==
    /\ answers \in [CacheDocIDs -> Stored] /\ downvoted \subseteq CacheDocIDs
    /\ \A d \in downvoted : answers[d].forced
AnswerInv == MappingInv /\ StaleInv

(* AnswerInit: the LRU is empty and no request has been asked.           *)
LEMMA AnswerInitInv == AnswerInit => AnswerInv
<1> SUFFICES ASSUME AnswerInit PROVE AnswerInv
  OBVIOUS
<1>1. MappingInv
  <2>1. lru = <<>> /\ lru \in Seq(Entry) /\ Len(lru) = 0
    BY EmptySeq DEF AnswerInit
  <2>2. DOMAIN ask = AskIds /\ DOMAIN asks = AskIds /\ \A r \in AskIds : ask[r] = "idle"
    BY DEF AnswerInit
  <2> QED
    BY <2>1, <2>2, AnswerAssumption DEF MappingInv, Distinct, LastGiven
<1>2. StaleInv
  <2>1. NoAnswer \in Stored
    BY AnswerAssumption DEF NoAnswer, Stored
  <2>2. answers = [d \in CacheDocIDs |-> NoAnswer] /\ downvoted = {}
    BY DEF AnswerInit
  <2> QED
    BY <2>1, <2>2 DEF StaleInv
<1> QED
  BY <1>1, <1>2 DEF AnswerInv

(* An entry taken out of a list: the others close up, in their order.      *)
LEMMA Removed ==
    ASSUME NEW s \in Seq(Entry), Distinct(s), NEW k \in 1..Len(s)
    PROVE  /\ RemoveAt(s, k) \in Seq(Entry) /\ Len(RemoveAt(s, k)) = Len(s) - 1
           /\ Distinct(RemoveAt(s, k))
           /\ \A i \in 1..Len(RemoveAt(s, k)) :
                 RemoveAt(s, k)[i].key # s[k].key /\ \E j \in 1..Len(s) : RemoveAt(s, k)[i] = s[j]
<1> DEFINE front == SubSeq(s, 1, k - 1)
           back == SubSeq(s, k + 1, Len(s))
           t == front \o back
<1>1. Len(s) \in Nat /\ k \in Int /\ k <= Len(s) /\ k >= 1 /\ \A i \in 1..Len(s) : s[i] \in Entry
  BY LenProperties, ElementOfSeq
<1>2. /\ front \in Seq(Entry) /\ Len(front) = k - 1
      /\ \A i \in 1..(k - 1) : front[i] = s[i]
  <2>1. \A i \in 1..(k - 1) : s[i] \in Entry
    BY <1>1
  <2>2. /\ front \in Seq(Entry) /\ Len(front) = IF 1 <= k - 1 THEN (k - 1) - 1 + 1 ELSE 0
        /\ \A i \in 1..((k - 1) - 1 + 1) : front[i] = s[1 + i - 1]
    BY <1>1, <2>1, SubSeqProperties
  <2> QED
    BY <1>1, <2>2
<1>3. /\ back \in Seq(Entry) /\ Len(back) = Len(s) - k
      /\ \A i \in 1..(Len(s) - k) : back[i] = s[k + i]
  <2>1. \A i \in (k + 1)..Len(s) : s[i] \in Entry
    BY <1>1
  <2>2. /\ back \in Seq(Entry)
        /\ Len(back) = IF k + 1 <= Len(s) THEN Len(s) - (k + 1) + 1 ELSE 0
        /\ \A i \in 1..(Len(s) - (k + 1) + 1) : back[i] = s[(k + 1) + i - 1]
    BY <1>1, <2>1, SubSeqProperties
  <2> QED
    BY <1>1, <2>2
<1> HIDE DEF front, back
<1>4. /\ t \in Seq(Entry) /\ Len(t) = Len(s) - 1
      /\ \A i \in 1..(Len(s) - 1) : t[i] = IF i <= k - 1 THEN front[i] ELSE back[i - (k - 1)]
  <2>1. /\ t \in Seq(Entry) /\ Len(t) = Len(front) + Len(back)
        /\ \A i \in 1..(Len(front) + Len(back)) :
              t[i] = IF i <= Len(front) THEN front[i] ELSE back[i - Len(front)]
    BY <1>2, <1>3, ConcatProperties
  <2>2. Len(front) = k - 1 /\ Len(front) + Len(back) = Len(s) - 1
    BY <1>1, <1>2, <1>3
  <2> QED
    BY <2>1, <2>2
<1>5. \A i \in 1..(Len(s) - 1) : t[i] = s[IF i < k THEN i ELSE i + 1]
  BY <1>1, <1>2, <1>3, <1>4
<1>6. RemoveAt(s, k) = t
  BY DEF RemoveAt, front, back
<1> HIDE DEF t
<1>7. ASSUME NEW i \in 1..Len(t), NEW j \in 1..Len(t), t[i].key = t[j].key PROVE i = j
  <2> DEFINE m == IF i < k THEN i ELSE i + 1
             n == IF j < k THEN j ELSE j + 1
  <2>1. /\ m \in 1..Len(s) /\ n \in 1..Len(s) /\ t[i] = s[m] /\ t[j] = s[n]
        /\ m = n => i = j
    <3>1. i \in 1..(Len(s) - 1) /\ j \in 1..(Len(s) - 1)
      BY <1>4
    <3>2. t[i] = s[m] /\ t[j] = s[n]
      BY <1>5, <3>1
    <3>3. /\ m \in 1..Len(s) /\ n \in 1..Len(s)
          /\ m = n => i = j
      BY <1>1, <3>1
    <3> QED
      BY <3>2, <3>3
  <2> HIDE DEF m, n
  <2>2. m = n
    BY <1>7, <2>1 DEF Distinct
  <2> QED
    BY <2>1, <2>2
<1>8. \A i \in 1..Len(t) : t[i].key # s[k].key /\ \E j \in 1..Len(s) : t[i] = s[j]
  <2> SUFFICES ASSUME NEW i \in 1..Len(t)
               PROVE  t[i].key # s[k].key /\ \E j \in 1..Len(s) : t[i] = s[j]
    OBVIOUS
  <2> DEFINE j == IF i < k THEN i ELSE i + 1
  <2>1. j \in 1..Len(s) /\ j # k /\ t[i] = s[j]
    BY <1>1, <1>4, <1>5
  <2> HIDE DEF j
  <2> QED
    BY <2>1 DEF Distinct
<1> QED
  BY <1>4, <1>6, <1>7, <1>8 DEF Distinct

(* An entry put in front of others with other keys.                        *)
LEMMA PutInFront ==
    ASSUME NEW s \in Seq(Entry), Distinct(s), NEW e \in Entry, \A i \in 1..Len(s) : s[i].key # e.key
    PROVE  /\ <<e>> \o s \in Seq(Entry) /\ Len(<<e>> \o s) = Len(s) + 1
           /\ Distinct(<<e>> \o s)
           /\ \A i \in 1..Len(<<e>> \o s) : (<<e>> \o s)[i] = IF i = 1 THEN e ELSE s[i - 1]
<1> DEFINE t == <<e>> \o s
<1>1. Len(s) \in Nat /\ <<e>> \in Seq(Entry) /\ Len(<<e>>) = 1 /\ <<e>>[1] = e
  BY LenProperties
<1>2. /\ t \in Seq(Entry) /\ Len(t) = Len(s) + 1
      /\ \A i \in 1..(Len(s) + 1) : t[i] = IF i <= 1 THEN <<e>>[i] ELSE s[i - 1]
  <2>1. /\ t \in Seq(Entry) /\ Len(t) = Len(<<e>>) + Len(s)
        /\ \A i \in 1..(Len(<<e>>) + Len(s)) : t[i] = IF i <= Len(<<e>>) THEN <<e>>[i] ELSE s[i - Len(<<e>>)]
    BY <1>1, ConcatProperties
  <2> HIDE DEF t
  <2> QED
    BY <1>1, <2>1
<1> HIDE DEF t
<1>3. \A i \in 1..Len(t) : t[i] = IF i = 1 THEN e ELSE s[i - 1]
  BY <1>1, <1>2
<1>4. \A i, j \in 1..Len(t) : t[i].key = t[j].key => i = j
  <2> SUFFICES ASSUME NEW i \in 1..Len(t), NEW j \in 1..Len(t), t[i].key = t[j].key PROVE i = j
    OBVIOUS
  <2>0. \A m \in 1..Len(t) : m # 1 => m - 1 \in 1..Len(s) /\ t[m] = s[m - 1]
    BY <1>1, <1>2, <1>3
  <2>1. CASE i = 1 \/ j = 1
    <3>1. \A m \in 1..Len(t) : m # 1 => t[m].key # e.key
      BY <2>0
    <3>2. 1 \in 1..Len(t) /\ t[1] = e
      BY <1>1, <1>2, <1>3
    <3> QED
      BY <2>1, <3>1, <3>2
  <2>2. CASE i # 1 /\ j # 1
    <3>1. i - 1 \in 1..Len(s) /\ j - 1 \in 1..Len(s) /\ t[i] = s[i - 1] /\ t[j] = s[j - 1]
      BY <2>0, <2>2
    <3>2. i - 1 = j - 1
      BY <3>1 DEF Distinct
    <3> QED
      BY <1>1, <3>2
  <2> QED
    BY <2>1, <2>2
<1> QED
  BY <1>2, <1>3, <1>4 DEF t, Distinct

(* The entry of a key, and what is left without it.                        *)
LEMMA WithoutKey ==
    ASSUME MappingInv, NEW r
    PROVE  /\ Without(r) \in Seq(Entry) /\ Distinct(Without(r))
           /\ Len(Without(r)) = IF r \in Keys THEN Len(lru) - 1 ELSE Len(lru)
           /\ \A i \in 1..Len(Without(r)) : Without(r)[i].key # r /\ \E j \in 1..Len(lru) : Without(r)[i] = lru[j]
           /\ r \in Keys => Place(r) \in 1..Len(lru) /\ Mapping(r) = lru[Place(r)] /\ Mapping(r).key = r
<1>1. lru \in Seq(Entry) /\ Distinct(lru) /\ DOMAIN lru = 1..Len(lru)
  BY LenProperties DEF MappingInv
<1>2. CASE r \in Keys
  <2>1. Place(r) \in 1..Len(lru) /\ lru[Place(r)].key = r
    BY <1>1, <1>2 DEF Keys, Place
  <2> DEFINE k == Place(r)
             t == RemoveAt(lru, k)
  <2>2. Without(r) = t /\ Mapping(r) = lru[k]
    BY <1>2 DEF Without, Mapping
  <2> HIDE DEF k, t
  <2>3. k \in 1..Len(lru) /\ lru[k].key = r
    BY <2>1 DEF k
  <2>4. /\ t \in Seq(Entry) /\ Len(t) = Len(lru) - 1 /\ Distinct(t)
        /\ \A i \in 1..Len(t) : t[i].key # lru[k].key /\ \E j \in 1..Len(lru) : t[i] = lru[j]
    BY <1>1, <2>3, Removed DEF t
  <2> QED
    BY <1>2, <2>2, <2>3, <2>4 DEF k
<1>3. CASE r \notin Keys
  <2>1. Without(r) = lru
    BY <1>3 DEF Without
  <2> QED
    BY <1>1, <1>3, <2>1 DEF Keys
<1> QED
  BY <1>2, <1>3

(* A request given an answer: its entry comes first, every other entry was *)
(* there, and there is room for it.                                        *)
LEMMA GivenAnswer ==
    ASSUME MappingInv, NEW r \in AskIds, NEW d \in CacheDocIDs
    PROVE  /\ Set(r, d) \in Seq(Entry) /\ Len(Set(r, d)) <= LRUCapacity /\ Distinct(Set(r, d))
           /\ \A i \in 1..Len(Set(r, d)) : \/ Set(r, d)[i].key = r /\ Set(r, d)[i].doc = d
                                           \/ /\ Set(r, d)[i].key # r
                                              /\ \E j \in 1..Len(lru) : Set(r, d)[i] = lru[j]
<1> DEFINE e == [key |-> r, doc |-> d, left |-> LRULife]
           kept == IF r \notin Keys /\ Len(lru) >= LRUCapacity THEN Front(lru) ELSE Without(r)
           t == <<e>> \o kept
<1>0. /\ lru \in Seq(Entry) /\ Len(lru) \in Nat /\ Len(lru) <= LRUCapacity /\ Distinct(lru)
      /\ LRUCapacity \in Nat \ {0} /\ LRULife \in Nat \ {0} /\ DOMAIN lru = 1..Len(lru)
  BY AnswerAssumption, LenProperties DEF MappingInv
<1>1. e \in Entry /\ e.key = r /\ e.doc = d
  BY <1>0 DEF Entry
<1>2. /\ kept \in Seq(Entry) /\ Distinct(kept) /\ Len(kept) + 1 <= LRUCapacity
      /\ \A i \in 1..Len(kept) : kept[i].key # r /\ \E j \in 1..Len(lru) : kept[i] = lru[j]
  <2>1. CASE r \notin Keys /\ Len(lru) >= LRUCapacity
    <3>1. kept = SubSeq(lru, 1, Len(lru) - 1)
      BY <2>1 DEF Front
    <3>2. \A i \in 1..Len(lru) : lru[i] \in Entry
      BY <1>0, ElementOfSeq
    <3>3. \A i \in 1..(Len(lru) - 1) : lru[i] \in Entry
      BY <1>0, <3>2
    <3> HIDE DEF kept
    <3>4. /\ kept \in Seq(Entry)
          /\ Len(kept) = IF 1 <= Len(lru) - 1 THEN (Len(lru) - 1) - 1 + 1 ELSE 0
          /\ \A i \in 1..((Len(lru) - 1) - 1 + 1) : kept[i] = lru[1 + i - 1]
      BY <1>0, <3>1, <3>3, SubSeqProperties
    <3>5. /\ kept \in Seq(Entry) /\ Len(kept) = Len(lru) - 1
          /\ \A i \in 1..(Len(lru) - 1) : kept[i] = lru[i]
      <4> DEFINE n == Len(lru)
      <4>1. n \in Nat /\ n >= 1
        BY <1>0, <2>1
      <4>2. kept \in Seq(Entry) /\ Len(kept) = (IF 1 <= n - 1 THEN (n - 1) - 1 + 1 ELSE 0)
        BY <3>4
      <4>3. \A i \in 1..((n - 1) - 1 + 1) : kept[i] = lru[1 + i - 1]
        BY <3>4
      <4> HIDE DEF n
      <4>4. Len(kept) = n - 1
        BY <4>1, <4>2
      <4>5. \A i \in 1..(n - 1) : kept[i] = lru[i]
        BY <4>1, <4>3
      <4> QED
        BY <4>2, <4>4, <4>5 DEF n
    <3>6. \A i \in 1..Len(lru) : lru[i].key # r
      BY <1>0, <2>1 DEF Keys
    <3>7. Distinct(kept) /\ Len(kept) + 1 <= LRUCapacity
      BY <1>0, <3>5 DEF Distinct
    <3>8. \A i \in 1..Len(kept) : kept[i].key # r /\ \E j \in 1..Len(lru) : kept[i] = lru[j]
      BY <1>0, <3>5, <3>6
    <3> QED
      BY <3>5, <3>7, <3>8
  <2>2. CASE ~(r \notin Keys /\ Len(lru) >= LRUCapacity)
    <3>1. kept = Without(r)
      BY <2>2
    <3>2. /\ Without(r) \in Seq(Entry) /\ Distinct(Without(r))
          /\ Len(Without(r)) = IF r \in Keys THEN Len(lru) - 1 ELSE Len(lru)
          /\ \A i \in 1..Len(Without(r)) :
                Without(r)[i].key # r /\ \E j \in 1..Len(lru) : Without(r)[i] = lru[j]
      BY WithoutKey
    <3> HIDE DEF kept
    <3>3. Len(Without(r)) + 1 <= LRUCapacity
      <4>1. CASE r \in Keys
        BY <1>0, <3>2, <4>1
      <4>2. CASE r \notin Keys
        <5>1. Len(Without(r)) = Len(lru) /\ ~(Len(lru) >= LRUCapacity)
          BY <2>2, <3>2, <4>2
        <5> QED
          BY <1>0, <5>1
      <4> QED
        BY <4>1, <4>2
    <3> QED
      BY <3>1, <3>2, <3>3
  <2> QED
    BY <2>1, <2>2
<1>3. Set(r, d) = t
  BY DEF Set
<1> HIDE DEF e, kept
<1>4. /\ t \in Seq(Entry) /\ Len(t) = Len(kept) + 1 /\ Distinct(t)
      /\ \A i \in 1..Len(t) : t[i] = IF i = 1 THEN e ELSE kept[i - 1]
  BY <1>1, <1>2, PutInFront
<1> HIDE DEF t
<1>5. ASSUME NEW i \in 1..Len(t)
      PROVE  (t[i].key = r /\ t[i].doc = d) \/ (t[i].key # r /\ \E j \in 1..Len(lru) : t[i] = lru[j])
  <2>1. CASE i = 1
    BY <1>1, <1>4, <2>1
  <2>2. CASE i # 1
    <3>1. i - 1 \in 1..Len(kept) /\ t[i] = kept[i - 1]
      <4>1. Len(kept) \in Nat
        BY <1>2, LenProperties
      <4> QED
        BY <1>4, <2>2, <4>1
    <3> QED
      BY <1>2, <3>1
  <2> QED
    BY <2>1, <2>2
<1> QED
  BY <1>2, <1>3, <1>4, <1>5

(* A request answered from the cache.                                      *)
LEMMA RequestGiven ==
    ASSUME MappingInv, NEW r \in AskIds, NEW place, ask[r] = "looked",
           ask' = [ask EXCEPT ![r] = place], lru' = Set(r, asks[r]), asks' = asks
    PROVE  MappingInv'
<1>1. /\ DOMAIN ask = AskIds /\ DOMAIN asks = AskIds /\ asks[r] \in CacheDocIDs
      /\ LastGiven(lru, ask, asks) /\ \A e \in AskIds : ask[e] # "idle" => asks[e] \in CacheDocIDs
  BY DEF MappingInv
<1>2. /\ lru' \in Seq(Entry) /\ Len(lru') <= LRUCapacity /\ Distinct(lru')
      /\ \A i \in 1..Len(lru') : \/ lru'[i].key = r /\ lru'[i].doc = asks[r]
                                 \/ /\ lru'[i].key # r
                                    /\ \E j \in 1..Len(lru) : lru'[i] = lru[j]
  BY <1>1, GivenAnswer
<1>3. DOMAIN ask' = AskIds /\ \A e : e # r => (ask'[e] = ask[e] \/ e \notin AskIds)
  BY <1>1
<1>4. \A i \in 1..Len(lru') : lru'[i].key \in AskIds
  <2>1. \A i \in 1..Len(lru') : lru'[i] \in Entry
    BY <1>2, ElementOfSeq
  <2> QED
    BY <2>1 DEF Entry
<1>5. LastGiven(lru', ask', asks')
  BY <1>1, <1>2, <1>3, <1>4 DEF LastGiven
<1> QED
  BY <1>1, <1>2, <1>3, <1>5 DEF MappingInv

(* A list whose entries were all there is as good as the one there was.    *)
LEMMA FewerEntries ==
    ASSUME MappingInv, UNCHANGED <<ask, asks>>, lru' \in Seq(Entry), Len(lru') <= LRUCapacity,
           Distinct(lru'), \A i \in 1..Len(lru') : \E j \in 1..Len(lru) : lru'[i] = lru[j]
    PROVE  MappingInv'
BY DEF MappingInv, LastGiven

(* Every step keeps the LRU and the marks.                               *)
LEMMA AnswerStep == AnswerInv /\ [AnswerNext]_answerVars => AnswerInv'
<1> SUFFICES ASSUME AnswerInv, [AnswerNext]_answerVars PROVE AnswerInv'
  OBVIOUS
<1>0. /\ MappingInv /\ StaleInv /\ DOMAIN ask = AskIds /\ DOMAIN asks = AskIds
      /\ lru \in Seq(Entry) /\ Len(lru) \in Nat /\ Len(lru) <= LRUCapacity /\ Distinct(lru)
      /\ LastGiven(lru, ask, asks) /\ \A r \in AskIds : ask[r] # "idle" => asks[r] \in CacheDocIDs
      /\ answers \in [CacheDocIDs -> Stored] /\ downvoted \subseteq CacheDocIDs
      /\ \A d \in downvoted : answers[d].forced
  BY LenProperties DEF AnswerInv, MappingInv, StaleInv
<1>00. \A i \in 1..Len(lru) : lru[i] \in Entry /\ lru[i].key \in AskIds /\ lru[i].doc \in CacheDocIDs
                              /\ lru[i].left \in 0..LRULife
  <2>1. \A i \in 1..Len(lru) : lru[i] \in Entry
    BY <1>0, ElementOfSeq
  <2> QED
    BY <2>1 DEF Entry
<1>1. ASSUME NEW r \in AskIds, LookupWithBypass(r) PROVE AnswerInv'
  <2>1. PICK d \in CacheDocIDs : asks' = [asks EXCEPT ![r] = d]
    BY <1>1 DEF LookupWithBypass
  <2>2. ask' = [ask EXCEPT ![r] = "looked"] /\ UNCHANGED <<answers, lru, downvoted>>
    BY <1>1 DEF LookupWithBypass
  <2>3. LastGiven(lru', ask', asks')
    BY <1>0, <1>00, <2>1, <2>2 DEF LastGiven
  <2>4. MappingInv'
    BY <1>0, <2>1, <2>2, <2>3 DEF MappingInv, Distinct
  <2> QED
    BY <1>0, <2>2, <2>4 DEF AnswerInv, StaleInv
<1>2. ASSUME NEW r \in AskIds, Serve(r) \/ FanoutAnswered(r) PROVE AnswerInv'
  <2>1. ask[r] = "looked" /\ UNCHANGED <<answers, asks, downvoted>>
    BY <1>2 DEF Serve, FanoutAnswered
  <2>2. CASE Serve(r)
    <3>1. ask' = [ask EXCEPT ![r] = "served"] /\ lru' = Set(r, asks[r])
      BY <2>2 DEF Serve
    <3>2. MappingInv'
      BY <1>0, <2>1, <2>2, <3>1, RequestGiven
    <3> QED
      BY <1>0, <2>1, <3>1, <3>2 DEF AnswerInv, StaleInv
  <2>3. CASE FanoutAnswered(r)
    <3>1. ask' = [ask EXCEPT ![r] = "writing"] /\ lru' = lru
      BY <2>3 DEF FanoutAnswered
    <3>2. LastGiven(lru', ask', asks')
      BY <1>0, <1>00, <2>1, <3>1 DEF LastGiven
    <3>3. MappingInv'
      BY <1>0, <2>1, <3>1, <3>2 DEF MappingInv, Distinct
    <3> QED
      BY <1>0, <2>1, <3>1, <3>3 DEF AnswerInv, StaleInv
  <2> QED
    BY <1>2, <2>2, <2>3
<1>3. ASSUME NEW r \in AskIds, WriteBack(r) PROVE AnswerInv'
  <2>1. /\ ask[r] = "writing" /\ ask' = [ask EXCEPT ![r] = "done"] /\ UNCHANGED <<asks, lru>>
        /\ asks[r] \in CacheDocIDs
    BY <1>0, <1>3 DEF WriteBack
  <2>2. LastGiven(lru', ask', asks')
    BY <1>0, <1>00, <2>1 DEF LastGiven
  <2>3. MappingInv'
    BY <1>0, <2>1, <2>2 DEF MappingInv, Distinct
  <2>4. CASE UNCHANGED <<answers, downvoted>>
    BY <1>0, <2>3, <2>4 DEF AnswerInv, StaleInv
  <2>5. ASSUME NEW c \in DOMAIN Categories \cup {"none"}, NEW ttl \in {0, MaxAge},
               answers' = [answers EXCEPT ![asks[r]] =
                   [age |-> 0, category |-> c, ttl |-> ttl, forced |-> FALSE, stored |-> TRUE]],
               downvoted' = downvoted \ {asks[r]}
        PROVE  AnswerInv'
    <3> DEFINE a == [age |-> 0, category |-> c, ttl |-> ttl, forced |-> FALSE, stored |-> TRUE]
    <3>1. a \in Stored
      BY AnswerAssumption DEF Stored
    <3> HIDE DEF a
    <3>2. answers' = [answers EXCEPT ![asks[r]] = a]
      BY <2>5 DEF a
    <3> DEFINE x == asks[r]
    <3>3. answers' = [answers EXCEPT ![x] = a] /\ downvoted' = downvoted \ {x} /\ x \in CacheDocIDs
      BY <2>1, <2>5, <3>2
    <3> HIDE DEF x
    <3>4. StaleInv'
      BY <1>0, <3>1, <3>3 DEF StaleInv
    <3> QED
      BY <2>3, <3>4 DEF AnswerInv
  <2> QED
    BY <1>3, <2>4, <2>5 DEF WriteBack
<1>4. ASSUME NEW r \in AskIds, AskAgain(r) PROVE AnswerInv'
  <2>1. ask' = [ask EXCEPT ![r] = "idle"] /\ UNCHANGED <<answers, asks, lru, downvoted>>
    BY <1>4 DEF AskAgain
  <2>2. LastGiven(lru', ask', asks')
    BY <1>0, <1>00, <2>1 DEF LastGiven
  <2>3. MappingInv'
    BY <1>0, <2>1, <2>2 DEF MappingInv, Distinct
  <2> QED
    BY <1>0, <2>1, <2>3 DEF AnswerInv, StaleInv
<1>5. ASSUME NEW r \in AskIds, NEW team \in AnswerTeams, Feedback(r, team) PROVE AnswerInv'
  <2> DEFINE w == Without(r)
             m == Mapping(r)
  <2>1. /\ w \in Seq(Entry) /\ Distinct(w) /\ Len(w) = Len(lru) - 1
        /\ \A i \in 1..Len(w) : w[i].key # r /\ \E j \in 1..Len(lru) : w[i] = lru[j]
        /\ m.key = r /\ \E j \in 1..Len(lru) : m = lru[j]
    BY <1>0, <1>5, WithoutKey DEF Feedback
  <2>2. m \in Entry /\ m.doc \in CacheDocIDs
    BY <1>00, <2>1
  <2>3. UNCHANGED <<ask, asks>> /\ (lru' = w \/ lru' = <<m>> \o w)
    BY <1>5 DEF Feedback
  <2>4. \/ UNCHANGED <<answers, downvoted>>
        \/ /\ answers' = [answers EXCEPT ![m.doc].forced = TRUE]
           /\ downvoted' = downvoted \cup {m.doc}
    BY <1>5 DEF Feedback
  <2> HIDE DEF w, m
  <2>5. MappingInv'
    <3> DEFINE Good == /\ lru' \in Seq(Entry) /\ Len(lru') <= LRUCapacity /\ Distinct(lru')
                       /\ \A i \in 1..Len(lru') : \E j \in 1..Len(lru) : lru'[i] = lru[j]
    <3>1. ASSUME lru' = w PROVE Good
      <4>1. Len(w) <= LRUCapacity
        BY <1>0, <2>1, AnswerAssumption
      <4>2. \A i \in 1..Len(w) : \E j \in 1..Len(lru) : w[i] = lru[j]
        BY <2>1
      <4>3. w \in Seq(Entry) /\ Distinct(w)
        BY <2>1
      <4> QED
        BY <3>1, <4>1, <4>2, <4>3
    <3>2. ASSUME lru' = <<m>> \o w PROVE Good
      <4> DEFINE t == <<m>> \o w
      <4>1. /\ t \in Seq(Entry) /\ Len(t) = Len(w) + 1 /\ Distinct(t)
            /\ \A i \in 1..Len(t) : t[i] = IF i = 1 THEN m ELSE w[i - 1]
        BY <2>1, <2>2, PutInFront
      <4>2. Len(w) \in Nat
        BY <2>1, LenProperties
      <4> HIDE DEF t
      <4>3. lru' = t
        BY <3>2 DEF t
      <4>4. \A i \in 1..Len(t) : i # 1 => i - 1 \in 1..Len(w) /\ t[i] = w[i - 1]
        BY <4>1, <4>2
      <4>5. \A i \in 1..Len(t) : \E j \in 1..Len(lru) : t[i] = lru[j]
        BY <2>1, <4>1, <4>4
      <4>6. Len(t) <= LRUCapacity
        BY <1>0, <2>1, <4>1, <4>2
      <4> QED
        BY <4>1, <4>3, <4>5, <4>6
    <3>3. Good
      BY <2>3, <3>1, <3>2
    <3>4. MappingInv /\ UNCHANGED <<ask, asks>>
      BY <1>0, <2>3
    <3> QED
      BY <3>3, <3>4, FewerEntries
  <2>6. StaleInv'
    <3>1. CASE UNCHANGED <<answers, downvoted>>
      BY <1>0, <3>1 DEF StaleInv
    <3>2. CASE answers' = [answers EXCEPT ![m.doc].forced = TRUE] /\ downvoted' = downvoted \cup {m.doc}
      <4> DEFINE a == [answers[m.doc] EXCEPT !.forced = TRUE]
      <4>1. answers[m.doc] \in Stored
        BY <1>0, <2>2
      <4>4. \A b \in Stored : [b EXCEPT !.forced = TRUE] \in Stored
                              /\ [b EXCEPT !.forced = TRUE].forced = TRUE
        BY AnswerAssumption DEF Stored
      <4>2. a \in Stored /\ a.forced = TRUE
        BY ONLY <4>1, <4>4
      <4>3. answers' = [answers EXCEPT ![m.doc] = a]
        BY <3>2
      <4> HIDE DEF a
      <4> QED
        BY <1>0, <2>2, <3>2, <4>2, <4>3 DEF StaleInv
    <3> QED
      BY <2>4, <3>1, <3>2
  <2> QED
    BY <2>5, <2>6 DEF AnswerInv
<1>6. CASE AnswerTick
  <2>1. /\ UNCHANGED <<ask, asks, downvoted>>
        /\ answers' = [d \in CacheDocIDs |->
              IF answers[d].age < MaxAge THEN [answers[d] EXCEPT !.age = @ + 1] ELSE answers[d]]
        /\ lru' = [i \in DOMAIN lru |->
              IF lru[i].left > 0 THEN [lru[i] EXCEPT !.left = @ - 1] ELSE lru[i]]
    BY <1>6 DEF AnswerTick
  <2>2. ASSUME NEW e \in Entry
        PROVE  LET f == IF e.left > 0 THEN [e EXCEPT !.left = @ - 1] ELSE e
               IN  f \in Entry /\ f.key = e.key /\ f.doc = e.doc
    BY AnswerAssumption DEF Entry
  <2>3. /\ DOMAIN lru = 1..Len(lru) /\ lru' \in Seq(Entry) /\ Len(lru') = Len(lru)
        /\ \A i \in 1..Len(lru) : lru'[i].key = lru[i].key /\ lru'[i].doc = lru[i].doc
    <3>1. DOMAIN lru = 1..Len(lru)
      BY <1>0, LenProperties
    <3>2. \A i \in 1..Len(lru) : lru'[i] \in Entry /\ lru'[i].key = lru[i].key /\ lru'[i].doc = lru[i].doc
      <4> SUFFICES ASSUME NEW i \in 1..Len(lru)
                   PROVE  lru'[i] \in Entry /\ lru'[i].key = lru[i].key /\ lru'[i].doc = lru[i].doc
        OBVIOUS
      <4>1. lru'[i] = IF lru[i].left > 0 THEN [lru[i] EXCEPT !.left = @ - 1] ELSE lru[i]
        BY <2>1, <3>1
      <4>2. lru[i] \in Entry
        BY <1>00
      <4> QED
        BY <2>2, <4>1, <4>2
    <3>3. lru' \in [1..Len(lru) -> Entry]
      BY <2>1, <3>1, <3>2
    <3>4. lru' \in Seq(Entry) /\ DOMAIN lru' = 1..Len(lru)
      BY <1>0, <3>3, IsASeq
    <3>5. Len(lru') = Len(lru)
      BY <1>0, <3>4, LenProperties
    <3> QED
      BY <3>1, <3>2, <3>4, <3>5
  <2>4. MappingInv'
    BY <1>0, <2>1, <2>3 DEF MappingInv, Distinct, LastGiven
  <2>5. ASSUME NEW a \in Stored
        PROVE  LET b == IF a.age < MaxAge THEN [a EXCEPT !.age = @ + 1] ELSE a
               IN  b \in Stored /\ b.forced = a.forced
    BY AnswerAssumption DEF Stored
  <2>6. \A d \in CacheDocIDs : answers'[d] \in Stored /\ answers'[d].forced = answers[d].forced
    BY <1>0, <2>1, <2>5
  <2>7. StaleInv'
    BY <1>0, <2>1, <2>6 DEF StaleInv
  <2> QED
    BY <2>4, <2>7 DEF AnswerInv
<1>7. CASE UNCHANGED answerVars
  BY <1>7 DEF answerVars, AnswerInv, MappingInv, StaleInv, Distinct, LastGiven
<1> QED
  BY <1>1, <1>2, <1>3, <1>4, <1>5, <1>6, <1>7 DEF AnswerNext

(* As many requests are known as there are entries.                        *)
LEMMA KeysCounted ==
    ASSUME MappingInv PROVE Cardinality(Keys) = Len(lru)
<1> DEFINE n == Len(lru)
           f == [i \in 1..n |-> lru[i].key]
<1>1. n \in Nat /\ DOMAIN lru = 1..n
  BY LenProperties DEF MappingInv
<1>2. f \in Bijection(1..n, Keys)
  <2>1. f \in [1..n -> Keys]
    BY <1>1 DEF Keys
  <2>2. \A i, j \in 1..n : f[i] = f[j] => i = j
    BY DEF MappingInv, Distinct
  <2>3. \A k \in Keys : \E i \in 1..n : f[i] = k
    BY <1>1 DEF Keys
  <2> QED
    BY <2>1, <2>2, <2>3 DEF Bijection, Injection, Surjection, IsInjective
<1> HIDE DEF f, n
<1>3. IsFiniteSet(1..n) /\ Cardinality(1..n) = n
  BY <1>1, FS_Interval
<1>4. ExistsBijection(1..n, Keys)
  BY <1>2 DEF ExistsBijection
<1> QED
  BY <1>3, <1>4, FS_Bijection DEF n

(* No lookup finds an answer that was voted down fresh.                    *)
LEMMA AnswerInvRespected == AnswerInv => FeedbackRespected
<1> SUFFICES ASSUME AnswerInv PROVE FeedbackRespected
  OBVIOUS
<1>0. MappingInv /\ StaleInv
  BY DEF AnswerInv
<1>1. ASSUME NEW d \in downvoted PROVE CacheLookup(d) \subseteq {"miss", "hard_stale"}
  <2>1. answers[d].forced
    BY <1>0 DEF StaleInv
  <2>2. OutcomeOf(EvaluateStaleness(answers[d])) = "hard_stale"
    BY <2>1 DEF EvaluateStaleness, OutcomeOf
  <2> QED
    BY <2>2 DEF CacheLookup
<1>2. Len(lru) <= LRUCapacity /\ Cardinality(Keys) = Len(lru)
  BY <1>0, KeysCounted DEF MappingInv
<1>3. ASSUME NEW r \in Keys, ask[r] = "served" PROVE Mapping(r).doc = asks[r]
  <2>1. Place(r) \in 1..Len(lru) /\ Mapping(r) = lru[Place(r)] /\ Mapping(r).key = r
    BY <1>0, WithoutKey
  <2> QED
    BY <1>0, <1>3, <2>1 DEF MappingInv, LastGiven
<1> QED
  BY <1>1, <1>2, <1>3 DEF FeedbackRespected

(* No lookup finds a hit in an answer that was voted down and not replaced *)
(* since, the LRU stays within its capacity, and it maps a request that    *)
(* was served from the cache to the answer it got (internal/idx5).         *)
THEOREM FeedbackKept == AnswerSpec => []FeedbackRespected
BY AnswerInitInv, AnswerStep, AnswerInvRespected, PTL DEF AnswerSpec

-----------------------------------------------------------------------------
(* Routing: a decision asked somebody who can answer, and while the LLM is *)
(* waited for the rules were unsure.                                       *)
RouteInv ==
    /\ RoutedSomewhere
    /\ decision.source = "none" /\ rules.cat # "none" => rules.conf < ConfidenceThreshold

(* The winner has a score, so it is below the threshold or not below it.   *)
HasMax(S) == \E w \in S : w \in Int /\ \A y \in S : y \in Int /\ w >= y
(* A set of integers with one more has a greatest one still.               *)
LEMMA OneMoreHasMax ==
    ASSUME NEW S, HasMax(S), NEW x \in Int
    PROVE  HasMax(S \cup {x})
<1>1. PICK m \in S : m \in Int /\ \A y \in S : y \in Int /\ m >= y
  BY DEF HasMax
<1>2. CASE m >= x
  BY <1>1, <1>2 DEF HasMax
<1>3. CASE x > m
  BY <1>1, <1>3 DEF HasMax
<1> QED
  BY <1>1, <1>2, <1>3

(* A clamped number is a score.                                            *)
LEMMA Clamped == \A x \in Int : Clamp(x) \in 0..One
  BY DEF Clamp, One

(* Shares of a text are integers.                                          *)
LEMMA Shares ==
    ASSUME NEW n \in Int
    PROVE  Unit(n, 10 * MaxTokens) \in Int
<1>1. PICK x \in Int : x = n * One
  BY DEF One
<1>2. PICK d \in Nat \ {0} : d = 10 * MaxTokens
  BY RouterAssumption
<1>3. x \div d \in Int
  OBVIOUS
<1> QED
  BY <1>1, <1>2, <1>3 DEF Unit

(* Weighted densities are integers.                                        *)
LEMMA Densities ==
    ASSUME NEW n \in Int
    PROVE  Density(n, 8) \in Int /\ Density(n, 7) \in Int /\ Density(n, 5) \in Int
<1>1. 8 * n \in Int /\ 7 * n \in Int /\ 5 * n \in Int
  OBVIOUS
<1> QED
  BY <1>1, Shares DEF Density

(* Every category has a score, and so has the winner, which is one.        *)
LEMMA Scored ==
    ASSUME NEW q \in Queries
    PROVE  PickWinner(Score(q)).conf \in 0..One /\ PickWinner(Score(q)).cat \in Categories_
<1> DEFINE named == Categories_ \ {"unknown"}
           s == Score(q)
<1>1. q \in [hangul : HangulShares, particles : 0..MaxTokens, academic : 0..MaxTokens,
             social : 0..MaxTokens, web : 0..MaxTokens, english : BOOLEAN,
             lang : {"none", "ko", "en"}]
  BY DEF Queries
<1>2. /\ q.hangul \in HangulShares /\ q.particles \in 0..MaxTokens
      /\ q.academic \in 0..MaxTokens /\ q.social \in 0..MaxTokens /\ q.web \in 0..MaxTokens
  BY <1>1
<1>3. /\ q.hangul \in Int /\ q.particles \in Int
      /\ q.academic \in Int /\ q.social \in Int /\ q.web \in Int
  <2>1. MaxTokens \in Nat /\ HangulShares \subseteq 0..100
    BY RouterAssumption
  <2>2. q.hangul \in 0..100
    BY <1>2, <2>1
  <2> QED
    BY <1>2, <2>1, <2>2
<1>5. /\ Latin(q, 2) \in Int /\ Latin(q, 3) \in Int
      /\ Seen(q.social, 1) \in Int /\ Seen(q.web, 2) \in Int
  BY <1>3 DEF Latin, Seen, Unit, One
<1>6. /\ Density(q.academic, 8) \in Int /\ Density(q.social, 7) \in Int
      /\ Density(q.web, 5) \in Int
  BY <1>3, Densities
<1>0. One \in Nat /\ \A x \in 0..One : x \in Int
  BY DEF One
<1>7. ScoreKorean(q) \in 0..One
  <2>1. Unit(q.particles, 10 * MaxTokens) \in Int
    BY <1>3, Shares
  <2> DEFINE p == Unit(q.particles, 10 * MaxTokens)
             x == IF q.hangul >= RatioHigh THEN Unit(q.hangul, 100) + Unit(4, 10) + p
                  ELSE IF q.hangul >= RatioLow
                       THEN Unit(3, 10)
                            + Unit(5 * (q.hangul - RatioLow), 10 * (RatioHigh - RatioLow))
                       ELSE p
  <2>2. p \in Int
    BY <2>1
  <2>3. ScoreKorean(q) = Clamp(x)
    BY DEF ScoreKorean
  <2> HIDE DEF p
  <2>4. x \in Int
    BY <1>3, <2>2 DEF RatioLow, RatioHigh, Unit, One
  <2> HIDE DEF x
  <2> QED
    BY <2>3, <2>4, Clamped
<1>8. ScoreMixed(q) \in 0..One
  <2> DEFINE x == Unit(9, 10) - Unit(4 * Distance(q.hangul, 25), 150)
  <2>1. x \in Int
    BY <1>3 DEF Distance, Unit, One
  <2>2. Clamp(x) \in 0..One
    BY <2>1, Clamped
  <2>3. ScoreMixed(q) = 0 \/ ScoreMixed(q) = Clamp(x)
    BY DEF ScoreMixed
  <2> HIDE DEF x
  <2> QED
    BY <1>0, <2>2, <2>3
<1>9. \A c \in named : s[c] \in 0..One
  <2> DEFINE x == Density(q.academic, 8) + Latin(q, 2)
             y == Density(q.social, 7) + Latin(q, 2) + Seen(q.social, 1)
             z == Density(q.web, 5) + Latin(q, 3) + Seen(q.web, 2)
  <2>1. x \in Int /\ y \in Int /\ z \in Int
    BY <1>5, <1>6
  <2>2. Clamp(x) \in 0..One /\ Clamp(y) \in 0..One /\ Clamp(z) \in 0..One
    BY <2>1, Clamped
  <2>3. /\ s["academic"] = Clamp(x) /\ s["social"] = Clamp(y) /\ s["web"] = Clamp(z)
        /\ s["korean"] = ScoreKorean(q) /\ s["mixed"] = ScoreMixed(q)
    BY DEF Score, Categories_
  <2>4. named = {"academic", "korean", "social", "mixed", "web"}
    BY DEF Categories_
  <2> HIDE DEF s, x, y, z, named
  <2> QED
    BY <1>7, <1>8, <2>2, <2>3, <2>4
<1>10. HasMax({s[c] : c \in named})
  <2>1. {s[c] : c \in named} =
           ((({s["academic"]} \cup {s["korean"]}) \cup {s["social"]}) \cup {s["mixed"]}) \cup {s["web"]}
    BY DEF Categories_
  <2>2. /\ s["academic"] \in Int /\ s["korean"] \in Int /\ s["social"] \in Int
        /\ s["mixed"] \in Int /\ s["web"] \in Int
    <3>1. \A c \in named : s[c] \in Int
      BY <1>0, <1>9
    <3> HIDE DEF s
    <3> QED
      BY <3>1 DEF Categories_
  <2> HIDE DEF s
  <2>3. HasMax({s["academic"]})
    BY <2>2 DEF HasMax
  <2>4. HasMax({s["academic"]} \cup {s["korean"]})
    BY <2>2, <2>3, OneMoreHasMax
  <2>5. HasMax(({s["academic"]} \cup {s["korean"]}) \cup {s["social"]})
    BY <2>2, <2>4, OneMoreHasMax
  <2>6. HasMax((({s["academic"]} \cup {s["korean"]}) \cup {s["social"]}) \cup {s["mixed"]})
    BY <2>2, <2>5, OneMoreHasMax
  <2>7. HasMax(((({s["academic"]} \cup {s["korean"]}) \cup {s["social"]}) \cup {s["mixed"]}) \cup {s["web"]})
    BY <2>2, <2>6, OneMoreHasMax
  <2> QED
    BY <2>1, <2>7
<1>11. s["unknown"] \in 0..One
  <2>1. Max({s[c] : c \in named}) \in 0..One
    <3>1. Max({s[c] : c \in named}) \in {s[c] : c \in named}
      BY <1>10 DEF Max, HasMax
    <3> HIDE DEF s
    <3> QED
      BY <1>9, <3>1
  <2>2. s["unknown"] = One - Max({s[c] : c \in named})
    BY DEF Score, Categories_
  <2> HIDE DEF s
  <2> QED
    BY <1>0, <2>1, <2>2
<1>12. HasMax({s[c] : c \in DOMAIN s})
  <2>1. DOMAIN s = named \cup {"unknown"}
    BY DEF Score, Categories_
  <2>2. {s[c] : c \in DOMAIN s} = {s[c] : c \in named} \cup {s["unknown"]}
    BY <2>1
  <2>3. s["unknown"] \in Int
    BY <1>0, <1>11
  <2> QED
    BY <1>10, <2>2, <2>3, OneMoreHasMax
<1>13. Max({s[c] : c \in DOMAIN s}) \in {s[c] : c \in DOMAIN s}
  BY <1>12 DEF Max, HasMax
<1>14. PICK b \in DOMAIN s : s[b] = Max({s[c] : c \in DOMAIN s})
  BY <1>13
<1>15. DOMAIN s = Categories_ /\ Categories_ = named \cup {"unknown"}
  BY DEF Score, Categories_
<1> HIDE DEF s
<1>16. s[b] \in 0..One
  BY <1>9, <1>11, <1>14, <1>15
<1>17. TieBreakOrder[SelectInSeq(TieBreakOrder, LAMBDA c : s[c] = s[b])] \in Categories_
  <2> DEFINE I == {i \in 1..Len(TieBreakOrder) : s[TieBreakOrder[i]] = s[b]}
  <2>1. Len(TieBreakOrder) = 6 /\ \A i \in 1..6 : TieBreakOrder[i] \in Categories_
    BY DEF TieBreakOrder, Categories_
  <2>2. \E i \in 1..6 : TieBreakOrder[i] = b
    BY <1>14, <1>15 DEF TieBreakOrder, Categories_
  <2>3. I # {} /\ I \subseteq 1..6
    BY <2>1, <2>2
  <2>4. SelectInSeq(TieBreakOrder, LAMBDA c : s[c] = s[b]) = IF I # {} THEN Min(I) ELSE 0
    BY DEF SelectInSeq
  <2> HIDE DEF I
  <2> DEFINE R == OpToRel(<, Nat)
  <2>9. I \subseteq Nat
    BY <2>3
  <2>5. PICK i \in I : \A j \in I : <<j, i>> \notin R
    BY <2>3, <2>9, NatLessThanWellFounded, WFMin
  <2>10. \A j \in I : ~(j < i)
    BY <2>9, <2>5 DEF OpToRel
  <2>6. \A j \in I : i <= j
    BY <2>9, <2>10
  <2>7. Min(I) \in I
    BY <2>6 DEF Min
  <2>8. SelectInSeq(TieBreakOrder, LAMBDA c : s[c] = s[b]) \in I
    BY <2>3, <2>4, <2>7
  <2> QED
    BY <2>1, <2>3, <2>8
<1> QED
  BY <1>14, <1>16, <1>17 DEF PickWinner, s

(* A decision, whoever took it.                                            *)
LEMMA Decided ==
    ASSUME NEW q, NEW cat, NEW source, Decide(q, cat, source), names' = names, rules' = rules,
           source = "rule_based" \/ (source = "llm_fallback" /\ rules.conf < ConfidenceThreshold)
    PROVE  RouteInv'
<1>1. /\ decision'.lang = LangFor(q) /\ decision'.source = source
      /\ decision'.set = SelectAdapterSet(cat, LangFor(q))
  BY DEF Decide
<1>2. /\ Generalists # {} => SelectAdapterSet(cat, LangFor(q)) # {}
      /\ \A n \in SelectAdapterSet(cat, LangFor(q)) : LangCompatible(Caps[n].langs, LangFor(q))
  BY DEF SelectAdapterSet, Matched, Generalists, LangCompatible
<1>3. Generalists' = Generalists
  BY DEF Generalists
<1> QED
  BY <1>1, <1>2, <1>3 DEF RouteInv, RoutedSomewhere

(* Rules, LLM and fallback, and the other two operations.                  *)
LEMMA RouteStep == RouteInv /\ RouterNext => RouteInv'
<1> SUFFICES ASSUME RouteInv, RouterNext PROVE RouteInv'
  OBVIOUS
<1>1. ASSUME NEW q \in Queries, Classify(q) PROVE RouteInv'
  <2>1. rules'.conf \in Int
    <3>1. rules' = PickWinner(Score(q))
      BY <1>1 DEF Classify
    <3>2. rules'.conf \in 0..One
      BY <3>1, Scored
    <3>3. \A x \in 0..One : x \in Int
      BY DEF One
    <3> QED
      BY <3>2, <3>3
  <2>2. CASE rules'.conf >= ConfidenceThreshold
    <3>1. Decide(q, rules'.cat, "rule_based") /\ names' = names
      BY <1>1, <2>2 DEF Classify
    <3>2. decision'.source = "rule_based" /\ decision'.lang = LangFor(q)
      BY <3>1 DEF Decide
    <3>3. /\ Generalists # {} => decision'.set # {}
          /\ \A n \in decision'.set : LangCompatible(Caps[n].langs, LangFor(q))
      BY <3>1 DEF Decide, SelectAdapterSet, Matched, Generalists, LangCompatible
    <3>4. Generalists' = Generalists
      BY <3>1 DEF Generalists
    <3> QED
      BY <3>2, <3>3, <3>4 DEF RouteInv, RoutedSomewhere
  <2>3. CASE ~(rules'.conf >= ConfidenceThreshold)
    <3>1. decision' = NoDecision
      BY <1>1, <2>3 DEF Classify
    <3>2. decision'.source = "none"
      BY <3>1 DEF NoDecision
    <3>3. rules'.conf < ConfidenceThreshold
      BY <2>1, <2>3 DEF ConfidenceThreshold, Unit, One
    <3> QED
      BY <3>2, <3>3 DEF RouteInv, RoutedSomewhere
  <2> QED
    BY <2>2, <2>3
<1>2. ASSUME NEW cat \in Categories_, LLMAnswers(cat) PROVE RouteInv'
  <2>1. rules.conf < ConfidenceThreshold /\ Decide(asking, cat, "llm_fallback")
    BY <1>2 DEF LLMAnswers, RouteInv
  <2> QED
    BY <1>2, <2>1, Decided DEF LLMAnswers
<1>3. CASE LLMFails
  BY <1>3, Decided DEF LLMFails
<1>4. CASE NextQuery
  <2>1. decision'.source = "none" /\ rules'.cat = "none"
    BY <1>4 DEF NextQuery, NoDecision
  <2> QED
    BY <2>1 DEF RouteInv, RoutedSomewhere
<1> QED
  BY <1>1, <1>2, <1>3, <1>4 DEF RouterNext

(* Shards: the tag adds at most seven runes to the document's.             *)
LEMMA ShardsIntersect ==
    ASSUME NEW runes \in Nat, NEW hangul \in 0..runes, NEW lang \in DOMAIN LangTags,
           LangTags[lang] <= ShortTag
    PROVE  IndexShardForDoc(hangul, runes, lang) \cap QueryShardsForText(hangul, runes) # {}
<1>1. PICK tag \in 0..7 : tag = LangTags[lang]
  BY RouterAssumption DEF ShortTag
<1> DEFINE low == runes + tag > 0 /\ 100 * hangul >= 10 * (runes + tag)
           high == runes + tag > 0 /\ 100 * hangul >= 30 * (runes + tag)
           near == runes > 0 /\ 100 * hangul >= 10 * runes
           sure == runes > 0 /\ 100 * hangul >= 30 * runes
<1>2. IndexShardForDoc(hangul, runes, lang) =
        IF lang = "ko" THEN IF low THEN {"ko"} ELSE {"ko", "default"}
        ELSE IF high THEN {"ko"} ELSE IF low THEN {"ko", "default"} ELSE {"default"}
  BY <1>1 DEF IndexShardForDoc, AtLeast, RatioLow, RatioHigh
<1>3. QueryShardsForText(hangul, runes) =
        IF sure THEN {"ko"} ELSE IF near THEN {"ko", "default"} ELSE {"default"}
  BY DEF QueryShardsForText, AtLeast, RatioLow, RatioHigh
<1>4. (low => near) /\ (high => sure) /\ (sure => low)
  OBVIOUS
<1> HIDE DEF low, high, near, sure
<1> QED
  BY <1>2, <1>3, <1>4

(* A document filed is one its own title finds.                            *)
LEMMA FileStep == FileDocument => FoundAgain'
<1> SUFFICES ASSUME NEW runes \in 0..MaxTitle, NEW lang \in DOMAIN LangTags,
                    NEW hangul \in 0..runes,
                    filed' = [hangul |-> hangul, runes |-> runes, lang |-> lang,
                              shards |-> IndexShardForDoc(hangul, runes, lang)]
             PROVE  FoundAgain'
  BY DEF FileDocument
<1>1. runes \in Nat
  BY RouterAssumption
<1>2. /\ filed'.hangul = hangul /\ filed'.runes = runes /\ filed'.lang = lang
      /\ filed'.shards = IndexShardForDoc(hangul, runes, lang)
  OBVIOUS
<1> QED
  BY <1>1, <1>2, ShardsIntersect DEF FoundAgain

(* The merge: what is first in both lists has the highest sum.             *)
LEMMA FiniteKeys ==
    ASSUME NEW n \in Nat, NEW S, NEW list \in [1..n -> S]
    PROVE  IsFiniteSet(KeysOf(list))
<1> DEFINE f == [i \in 1..n |-> KeyOf(list[i])]
<1>1. f \in Surjection(1..n, KeysOf(list))
  BY DEF Surjection, KeysOf
<1>2. IsFiniteSet(1..n)
  BY FS_Interval
<1> QED
  BY <1>1, <1>2, FS_Surjection

(* The first of a list gets 62 parts or more from it, all others at most   *)
(* 61.                                                                     *)
LEMMA BestRank ==
    ASSUME NEW list, NEW key
    PROVE  /\ RankScore(list, key) \in Int
           /\ 1 \in DOMAIN list /\ KeyOf(list[1]) = key => RankScore(list, key) >= 62
           /\ 1 \in DOMAIN list /\ KeyOf(list[1]) # key => RankScore(list, key) <= 61
<1>1. (61 * 62) \div (60 + 1) = 62 /\ (61 * 62) \div (60 + 2) = 61
  OBVIOUS
<1> QED
  BY <1>1 DEF RankScore

(* The merge ranks each key once and what both put first first.            *)
LEMMA MergeStep == MergeRRF => MergedOnce'
<1> SUFFICES ASSUME MergeRRF PROVE MergedOnce'
  OBVIOUS
<1>1. PICK both \in [ko : ShardLists, default : ShardLists] :
          \E kept \in {f \in [KeysOf(both.ko) \cup KeysOf(both.default)
                               -> ToSet(both.ko) \cup ToSet(both.default)] :
                          \A k \in KeysOf(both.ko) \cup KeysOf(both.default) : KeyOf(f[k]) = k} :
             \E order \in Fusions(both, kept) :
                merged' = [lists |-> both, result |-> [i \in DOMAIN order |-> kept[order[i]]]]
  BY DEF MergeRRF
<1> DEFINE keys == KeysOf(both.ko) \cup KeysOf(both.default)
<1>2. PICK kept \in [keys -> ToSet(both.ko) \cup ToSet(both.default)] :
          /\ \A k \in keys : KeyOf(kept[k]) = k
          /\ \E order \in Fusions(both, kept) :
                merged' = [lists |-> both, result |-> [i \in DOMAIN order |-> kept[order[i]]]]
  BY <1>1
<1>3. PICK order \in Fusions(both, kept) :
             merged' = [lists |-> both, result |-> [i \in DOMAIN order |-> kept[order[i]]]]
  BY <1>2
<1> DEFINE n == Cardinality(keys)
           r == [i \in DOMAIN order |-> kept[order[i]]]
           score(key) == RankScore(both.ko, key) + RankScore(both.default, key)
<1>4. order \in Bijection(1..n, keys)
  <2>1. DOMAIN kept = keys
    OBVIOUS
  <2> QED
    BY <1>3, <2>1 DEF Fusions
<1>5. /\ DOMAIN order = 1..n /\ \A i \in 1..n : order[i] \in keys
      /\ \A i, j \in 1..n : order[i] = order[j] => i = j
      /\ \A k \in keys : \E i \in 1..n : order[i] = k
  BY <1>4 DEF Bijection, Injection, Surjection, IsInjective
<1>6. \A i, j \in 1..n : i < j => ~(score(order[j]) > score(order[i]))
  BY <1>3, <1>5 DEF Fusions
<1>7. PICK a \in Nat, b \in Nat : 
          both.ko \in [1..a -> ShardDocs] /\ both.default \in [1..b -> ShardDocs]
  <2>1. \A l \in ShardLists : \E m \in Nat : l \in [1..m -> ShardDocs]
    <3> SUFFICES ASSUME NEW l \in ShardLists PROVE \E m \in Nat : l \in [1..m -> ShardDocs]
      OBVIOUS
    <3>1. l \in UNION {[1..m -> ShardDocs] : m \in 0..2}
      BY DEF ShardLists
    <3>2. PICK F \in {[1..m -> ShardDocs] : m \in 0..2} : l \in F
      BY <3>1
    <3>3. PICK m \in 0..2 : F = [1..m -> ShardDocs]
      BY <3>2
    <3> QED
      BY <3>2, <3>3
  <2>2. both.ko \in ShardLists /\ both.default \in ShardLists
    OBVIOUS
  <2> QED
    BY <2>1, <2>2
<1>8. n \in Nat
  <2>1. IsFiniteSet(KeysOf(both.ko)) /\ IsFiniteSet(KeysOf(both.default))
    BY <1>7, FiniteKeys
  <2> QED
    BY <2>1, FS_Union, FS_CardinalityType
<1> HIDE DEF n
<1>9. \A i \in 1..n : KeyOf(r[i]) = order[i]
  BY <1>2, <1>5
<1>10. DOMAIN r = 1..n
  BY <1>5
<1>11. \A i, j \in DOMAIN r : KeyOf(r[i]) = KeyOf(r[j]) => i = j
  BY <1>5, <1>9, <1>10
<1>12. KeysOf(r) = keys
  <2>1. KeysOf(r) = {order[i] : i \in 1..n}
    BY <1>9, <1>10 DEF KeysOf
  <2> QED
    BY <1>5, <2>1
<1>13. ASSUME both.ko # <<>>, both.default # <<>>, KeyOf(both.ko[1]) = KeyOf(both.default[1])
       PROVE  KeyOf(r[1]) = KeyOf(both.ko[1])
  <2>1. 1 \in DOMAIN both.ko /\ 1 \in DOMAIN both.default
    BY <1>7, <1>13
  <2>2. PICK k \in keys : k = KeyOf(both.ko[1])
    BY <2>1 DEF KeysOf
  <2>3. PICK j \in 1..n : order[j] = k
    BY <1>5
  <2>4. 1 \in 1..n
    BY <1>8, <2>3
  <2>5. \A m : score(m) \in Int
    BY BestRank
  <2>6. score(k) >= 124
    <3>1. /\ RankScore(both.ko, k) \in Int /\ RankScore(both.default, k) \in Int
          /\ RankScore(both.ko, k) >= 62 /\ RankScore(both.default, k) >= 62
      BY <1>13, <2>1, <2>2, BestRank, Zenon
    <3> QED
      BY <3>1
  <2>7. \A m : m # k => score(m) <= 122
    <3> SUFFICES ASSUME NEW m, m # k PROVE score(m) <= 122
      OBVIOUS
    <3>0. KeyOf(both.ko[1]) # m /\ KeyOf(both.default[1]) # m
      BY <1>13, <2>2
    <3>1. /\ RankScore(both.ko, m) \in Int /\ RankScore(both.default, m) \in Int
          /\ RankScore(both.ko, m) <= 61 /\ RankScore(both.default, m) <= 61
      BY <1>13, <2>1, <2>2, <3>0, BestRank, Zenon
    <3> QED
      BY <3>1
  <2> HIDE DEF score, r
  <2>8. order[1] = k
    <3>1. SUFFICES ASSUME order[1] # k PROVE FALSE
      OBVIOUS
    <3>2. 1 < j
      BY <1>8, <2>3, <2>4, <3>1
    <3>3. ~(score(order[j]) > score(order[1]))
      BY <1>6, <2>4, <3>2
    <3>4. /\ score(order[j]) \in Int /\ score(order[j]) >= 124
          /\ score(order[1]) \in Int /\ score(order[1]) <= 122
      BY <2>3, <2>5, <2>6, <2>7, <3>1
    <3> QED
      BY <3>3, <3>4
  <2> QED
    BY <1>9, <2>2, <2>4, <2>8
<1>14. merged'.lists = both /\ merged'.result = r
  BY <1>3
<1> HIDE DEF r
<1> QED
  BY <1>11, <1>12, <1>13, <1>14 DEF MergedOnce

(* The router asks somebody who can answer, a document is found by its     *)
(* title, and a merge loses and repeats nothing (router.go, shard.go,      *)
(* merge.go).                                                              *)
THEOREM RoutingKept == RouterSpec => []RoutingSound
<1> DEFINE Inv == RouteInv /\ FoundAgain /\ MergedOnce
<1>1. RouterInit => Inv
  <2> SUFFICES ASSUME RouterInit PROVE Inv
    OBVIOUS
  <2>1. RouteInv /\ FoundAgain
    BY DEF RouterInit, RouteInv, RoutedSomewhere, NoDecision, FoundAgain
  <2>2. merged.lists.ko = <<>> /\ merged.lists.default = <<>> /\ merged.result = <<>>
    BY DEF RouterInit
  <2>3. MergedOnce
    BY <2>2 DEF MergedOnce, KeysOf
  <2> QED
    BY <2>1, <2>3
<1>2. Inv /\ [RouterNext \/ ShardNext]_routerVars => Inv'
  <2> SUFFICES ASSUME Inv, [RouterNext \/ ShardNext]_routerVars PROVE Inv'
    OBVIOUS
  <2>1. CASE RouterNext
    <3>1. UNCHANGED <<filed, merged>>
      BY <2>1 DEF RouterNext, Classify, LLMAnswers, LLMFails, NextQuery
    <3>2. FoundAgain' /\ MergedOnce'
      BY <3>1 DEF FoundAgain, MergedOnce
    <3> QED
      BY <2>1, <3>2, RouteStep
  <2>2. CASE FileDocument
    <3>1. UNCHANGED <<names, rules, decision, merged>>
      BY <2>2 DEF FileDocument
    <3>2. RouteInv' /\ MergedOnce'
      BY <3>1 DEF RouteInv, RoutedSomewhere, Generalists, MergedOnce
    <3> QED
      BY <2>2, <3>2, FileStep
  <2>3. CASE MergeRRF
    <3>1. UNCHANGED <<names, rules, decision, filed>>
      BY <2>3 DEF MergeRRF
    <3>2. RouteInv' /\ FoundAgain'
      BY <3>1 DEF RouteInv, RoutedSomewhere, Generalists, FoundAgain
    <3> QED
      BY <2>3, <3>2, MergeStep
  <2>4. CASE UNCHANGED routerVars
    BY <2>4 DEF routerVars, RouteInv, RoutedSomewhere, Generalists, FoundAgain, MergedOnce
  <2> QED
    BY <2>1, <2>2, <2>3, <2>4 DEF ShardNext
<1>3. Inv => RoutingSound
  BY DEF RouteInv, RoutingSound, ShardsMeet
<1> QED
  BY <1>1, <1>2, <1>3, PTL DEF RouterSpec

-----------------------------------------------------------------------------
(* The stores of the index: what a writer has reached is what they hold,   *)
(* and what Meilisearch has queued is what it will hold; what a search      *)
(* answers is what their answers rank.                                     *)

(* The greatest of some positions.                                         *)
LEMMA Greatest ==
    ASSUME NEW n \in Nat, NEW S \in SUBSET (1..n), S # {}
    PROVE  Max(S) \in S /\ \A y \in S : Max(S) >= y
<1> DEFINE R == OpToRel(<, Nat)
           T == {n - x : x \in S}
<1>0. \A x \in S : x \in Int /\ x <= n
  OBVIOUS
<1>1. T \subseteq Nat /\ T # {}
  <2>1. PICK x : x \in S
    OBVIOUS
  <2>2. n - x \in T
    BY <2>1
  <2> QED
    BY <1>0, <2>2
<1>2. PICK x \in T : \A y \in T : <<y, x>> \notin R
  <2> HIDE DEF T
  <2> QED
    BY <1>1, NatLessThanWellFounded, WFMin
<1>3. PICK m \in S : x = n - m
  BY <1>2
<1>4. \A y \in S : ~(n - y < n - m)
  BY <1>1, <1>2, <1>3 DEF OpToRel
<1>5. \A y \in S : m >= y
  BY <1>4
<1> QED
  BY <1>3, <1>5 DEF Max

-----------------------------------------------------------------------------
(* Positions, batches and versions.                                        *)
Own(w, id) == ~OtherWriters(w, id)
Latest(w, at, id) == Job[w][Max(Of(w, at, id))].version
Behind(w) == {i \in Valid(w) : Ordinal(w, i) < from[w]}
Reached(w, s) == IF wpc[w] = "idle" THEN {}
                 ELSE IF s \in awaited[w] THEN Behind(w) ELSE Behind(w) \cup Batch(w)
Holding(t, id) == Of(t.writer, t.at, id) # {}

(* The documents of a job are finitely many positions.                     *)
LEMMA Positions ==
    ASSUME NEW w \in Writers
    PROVE  /\ Len(Job[w]) \in Nat /\ Valid(w) \subseteq 1..Len(Job[w])
           /\ IsFiniteSet(Valid(w)) /\ Cardinality(Valid(w)) \in Nat
           /\ \A i \in Valid(w) : Job[w][i] \in IndexDoc
<1>1. Job[w] \in Seq(IndexDoc)
  BY IndexAssumption
<1>2. DOMAIN Job[w] = 1..Len(Job[w]) /\ Len(Job[w]) \in Nat
  BY <1>1
<1>3. IsFiniteSet(1..Len(Job[w]))
  BY <1>2, FS_Interval
<1>4. Valid(w) \subseteq 1..Len(Job[w])
  BY <1>2 DEF Valid
<1>5. IsFiniteSet(Valid(w)) /\ Cardinality(Valid(w)) \in Nat
  BY <1>3, <1>4, FS_Subset, FS_CardinalityType
<1> QED
  BY <1>1, <1>2, <1>4, <1>5

(* The valid ones are counted from 1 in the order of the job.              *)
LEMMA Ordinals ==
    ASSUME NEW w \in Writers
    PROVE  /\ \A i \in Valid(w) : Ordinal(w, i) \in 1..Cardinality(Valid(w))
           /\ \A i, j \in Valid(w) : Ordinal(w, i) < Ordinal(w, j) => i < j
<1> DEFINE upto(i) == {j \in Valid(w) : j <= i}
<1>1. ASSUME NEW i \in Valid(w)
      PROVE  Ordinal(w, i) \in 1..Cardinality(Valid(w))
  <2>1. upto(i) \subseteq Valid(w)
    OBVIOUS
  <2>2. i \in upto(i)
    BY Positions
  <2> HIDE DEF upto
  <2>3. IsFiniteSet(upto(i)) /\ Cardinality(upto(i)) \in Nat
        /\ Cardinality(upto(i)) <= Cardinality(Valid(w))
    BY <2>1, Positions, FS_Subset, FS_CardinalityType
  <2>4. Cardinality(upto(i)) # 0
    BY <2>2, <2>3, FS_EmptySet
  <2>5. Ordinal(w, i) = Cardinality(upto(i))
    BY DEF Ordinal, upto
  <2> QED
    BY <2>3, <2>4, <2>5, Positions
<1>2. ASSUME NEW i \in Valid(w), NEW j \in Valid(w), Ordinal(w, i) < Ordinal(w, j), ~(i < j)
      PROVE  FALSE
  <2>1. upto(j) \subseteq upto(i) /\ upto(i) \subseteq Valid(w)
    BY <1>2, Positions
  <2>2. Ordinal(w, i) = Cardinality(upto(i)) /\ Ordinal(w, j) = Cardinality(upto(j))
    BY DEF Ordinal
  <2> HIDE DEF upto
  <2>3. IsFiniteSet(upto(i))
    BY <2>1, Positions, FS_Subset
  <2>4. Cardinality(upto(j)) <= Cardinality(upto(i))
    BY <2>1, <2>3, FS_Subset
  <2> QED
    BY <1>1, <1>2, <2>2, <2>4
<1> QED
  BY <1>1, <1>2

(* The last position of an id among some of a writer's.                    *)
LEMMA LastOf ==
    ASSUME NEW w \in Writers, NEW at \in SUBSET Valid(w), NEW id, Of(w, at, id) # {}
    PROVE  /\ Max(Of(w, at, id)) \in Of(w, at, id) /\ Max(Of(w, at, id)) \in Nat
           /\ \A i \in Of(w, at, id) : i <= Max(Of(w, at, id)) /\ i \in Nat
<1>1. Of(w, at, id) \in SUBSET (1..Len(Job[w])) /\ Len(Job[w]) \in Nat
  BY Positions DEF Of
<1>2. Max(Of(w, at, id)) \in Of(w, at, id) /\ \A y \in Of(w, at, id) : Max(Of(w, at, id)) >= y
  BY <1>1, Greatest
<1> QED
  BY <1>1, <1>2

(* When one set of positions follows another, it decides what is latest.   *)
LEMMA LaterDecides ==
    ASSUME NEW w \in Writers, NEW at \in SUBSET Valid(w), NEW then \in SUBSET Valid(w),
           \A i \in at, j \in then : i < j, NEW id
    PROVE  Latest(w, at \cup then, id) = IF Of(w, then, id) = {} THEN Latest(w, at, id)
                                         ELSE Latest(w, then, id)
<1>1. Of(w, at \cup then, id) = Of(w, at, id) \cup Of(w, then, id)
  BY DEF Of
<1>2. CASE Of(w, then, id) = {}
  BY <1>1, <1>2 DEF Latest
<1>3. CASE Of(w, then, id) # {}
  <2> DEFINE m == Max(Of(w, at \cup then, id))
             k == Max(Of(w, then, id))
  <2>1. m \in Of(w, at \cup then, id) /\ m \in Nat /\ \A i \in Of(w, at \cup then, id) : i <= m
    BY <1>1, <1>3, LastOf
  <2>2. k \in Of(w, then, id) /\ k \in Nat /\ \A i \in Of(w, then, id) : i <= k
    BY <1>3, LastOf
  <2>3. m \notin Of(w, at, id)
    <3>1. Of(w, at, id) \subseteq at /\ Of(w, then, id) \subseteq then
      BY DEF Of
    <3>2. k <= m /\ k \in then
      BY <1>1, <2>1, <2>2, <3>1
    <3> QED
      BY <2>1, <2>2, <3>1, <3>2
  <2>4. m = k
    <3>1. m \in Of(w, then, id) /\ k \in Of(w, at \cup then, id)
      BY <1>1, <2>1, <2>2, <2>3
    <3>2. m <= k /\ k <= m
      BY <2>1, <2>2, <3>1
    <3> QED
      BY <2>1, <2>2, <3>2
  <2> QED
    BY <1>3, <2>4 DEF Latest
<1> QED
  BY <1>2, <1>3

(* A batch is what comes after everything behind the writer.               *)
LEMMA BatchFollows ==
    ASSUME NEW w \in Writers, from[w] \in Nat \ {0}
    PROVE  /\ Behind(w) \in SUBSET Valid(w) /\ Batch(w) \in SUBSET Valid(w)
           /\ \A i \in Behind(w), j \in Batch(w) : i < j
           /\ Behind(w) \cup Batch(w) = {i \in Valid(w) : Ordinal(w, i) < from[w] + BulkBatchSize}
           /\ from[w] = 1 => Behind(w) = {}
<1>1. \A i \in Valid(w) : Ordinal(w, i) \in 1..Cardinality(Valid(w))
  BY Ordinals
<1>2. Cardinality(Valid(w)) \in Nat /\ BulkBatchSize \in Nat \ {0}
  BY Positions, IndexAssumption
<1>3. \A i \in Behind(w), j \in Batch(w) : i < j
  <2>1. \A i \in Behind(w), j \in Batch(w) : Ordinal(w, i) < Ordinal(w, j)
    BY <1>1, <1>2 DEF Behind, Batch
  <2> QED
    BY <2>1, Ordinals DEF Behind, Batch
<1>4. Behind(w) \cup Batch(w) = {i \in Valid(w) : Ordinal(w, i) < from[w] + BulkBatchSize}
  BY <1>1, <1>2 DEF Behind, Batch
<1>5. from[w] = 1 => Behind(w) = {}
  BY <1>1, <1>2 DEF Behind
<1> QED
  BY <1>3, <1>4, <1>5 DEF Behind, Batch

(* Nobody else's job has a document that is a writer's own.                *)
LEMMA OnlyOwner ==
    ASSUME NEW w \in Writers, NEW v \in Writers, v # w, NEW id, Own(w, id), NEW at \in SUBSET Valid(v)
    PROVE  Of(v, at, id) = {}
BY DEF Own, OtherWriters, Of, Valid

-----------------------------------------------------------------------------
(* Meilisearch's queue. The version of a document that it will hold is the *)
(* one of the last task with it, or else the one it holds.                 *)
Task == {t \in [writer : Writers, at : SUBSET Nat] : t.at \subseteq Valid(t.writer)}
Comes(ts, content, id, x) ==
    /\ (\A k \in DOMAIN ts : ~Holding(ts[k], id)) => content[id].version = x
    /\ \A k \in DOMAIN ts :
          Holding(ts[k], id) /\ (\A l \in DOMAIN ts : l > k => ~Holding(ts[l], id)) =>
             Latest(ts[k].writer, ts[k].at, id) = x

(* A task put last decides what its documents come to.                     *)
LEMMA Appended ==
    ASSUME NEW ts \in Seq(Task), NEW t \in Task, NEW content, NEW id, NEW x
    PROVE  /\ Append(ts, t) \in Seq(Task)
           /\ Holding(t, id) /\ x = Latest(t.writer, t.at, id) => Comes(Append(ts, t), content, id, x)
           /\ ~Holding(t, id) /\ Comes(ts, content, id, x) => Comes(Append(ts, t), content, id, x)
<1> DEFINE us == Append(ts, t)
<1>1. /\ us \in Seq(Task) /\ Len(ts) \in Nat
      /\ DOMAIN ts = 1..Len(ts) /\ DOMAIN us = 1..(Len(ts) + 1)
      /\ \A k \in 1..Len(ts) : us[k] = ts[k]
      /\ us[Len(ts) + 1] = t
  OBVIOUS
<1> HIDE DEF us
<1>2. ASSUME Holding(t, id), x = Latest(t.writer, t.at, id)
      PROVE  Comes(us, content, id, x)
  <2>1. Len(ts) + 1 \in DOMAIN us
    BY <1>1
  <2>2. ASSUME NEW k \in DOMAIN us, \A l \in DOMAIN us : l > k => ~Holding(us[l], id)
        PROVE  k = Len(ts) + 1
    BY <1>1, <1>2, <2>1, <2>2
  <2> QED
    BY <1>1, <1>2, <2>1, <2>2 DEF Comes
<1>3. ASSUME ~Holding(t, id), Comes(ts, content, id, x)
      PROVE  Comes(us, content, id, x)
  <2>1. ASSUME \A k \in DOMAIN us : ~Holding(us[k], id)
        PROVE  content[id].version = x
    <3>1. \A k \in DOMAIN ts : k \in DOMAIN us /\ us[k] = ts[k]
      BY <1>1
    <3> QED
      BY <1>3, <2>1, <3>1 DEF Comes
  <2>2. ASSUME NEW k \in DOMAIN us, Holding(us[k], id), \A l \in DOMAIN us : l > k => ~Holding(us[l], id)
        PROVE  Latest(us[k].writer, us[k].at, id) = x
    <3>1. k \in DOMAIN ts /\ us[k] = ts[k]
      BY <1>1, <1>3, <2>2
    <3>2. \A l \in DOMAIN ts : l > k => ~Holding(ts[l], id)
      BY <1>1, <2>2
    <3> QED
      BY <1>3, <2>2, <3>1, <3>2 DEF Comes
  <2> QED
    BY <2>1, <2>2 DEF Comes
<1> QED
  BY <1>1, <1>2, <1>3 DEF us

(* What a store comes to does not change when the first task is done, nor  *)
(* for documents not in it when it is lost.                                *)
LEMMA Taken ==
    ASSUME NEW ts \in Seq(Task), ts # <<>>, NEW content, NEW id \in DocIds, NEW x,
           Comes(ts, content, id, x)
    PROVE  LET t == Head(ts) IN
           /\ t \in Task /\ Tail(ts) \in Seq(Task)
           /\ Comes(Tail(ts), Written("meili", content, t.writer, t.at), id, x)
           /\ ~Holding(t, id) => Comes(Tail(ts), content, id, x)
<1> DEFINE t == Head(ts)
           us == Tail(ts)
           new == Written("meili", content, t.writer, t.at)
<1>1. /\ us \in Seq(Task) /\ Len(ts) \in Nat \ {0} /\ t \in Task /\ t = ts[1]
      /\ DOMAIN ts = 1..Len(ts) /\ DOMAIN us = 1..(Len(ts) - 1)
      /\ \A k \in 1..(Len(ts) - 1) : us[k] = ts[k + 1]
  OBVIOUS
<1>2. t.writer \in Writers /\ t.at \in SUBSET Valid(t.writer)
  BY <1>1 DEF Task
<1> HIDE DEF t, us
<1>3. /\ ~Holding(t, id) => new[id] = content[id]
      /\ Holding(t, id) => new[id].version = Latest(t.writer, t.at, id)
  <2> DEFINE v == t.writer
             at == t.at
  <2>1. v \in Writers /\ at \in SUBSET Valid(v)
    BY <1>2
  <2> HIDE DEF v, at
  <2>2. /\ Of(v, at, id) = {} => Written("meili", content, v, at)[id] = content[id]
        /\ Of(v, at, id) # {} => Written("meili", content, v, at)[id].version = Latest(v, at, id)
    BY DEF Written, Converted, Latest
  <2> QED
    BY <2>2 DEF Holding, v, at
<1> HIDE DEF new
<1>4. ASSUME NEW k \in DOMAIN us, Holding(us[k], id), \A l \in DOMAIN us : l > k => ~Holding(us[l], id)
      PROVE  Latest(us[k].writer, us[k].at, id) = x
  <2>1. k \in Int /\ k + 1 \in DOMAIN ts /\ us[k] = ts[k + 1]
    BY <1>1
  <2>2. ASSUME NEW l \in DOMAIN ts, l > k + 1 PROVE ~Holding(ts[l], id)
    <3>1. l - 1 \in DOMAIN us /\ l - 1 > k /\ us[l - 1] = ts[l]
      BY <1>1, <2>1, <2>2
    <3> QED
      BY <1>4, <3>1
  <2> QED
    BY <1>4, <2>1, <2>2 DEF Comes
<1>5. ASSUME \A k \in DOMAIN us : ~Holding(us[k], id)
      PROVE  \A l \in DOMAIN ts : l > 1 => ~Holding(ts[l], id)
  <2> SUFFICES ASSUME NEW l \in DOMAIN ts, l > 1 PROVE ~Holding(ts[l], id)
    OBVIOUS
  <2>1. l - 1 \in DOMAIN us /\ us[l - 1] = ts[l]
    BY <1>1
  <2> QED
    BY <1>5, <2>1
<1>6. 1 \in DOMAIN ts
  BY <1>1
<1>7. ASSUME \A k \in DOMAIN us : ~Holding(us[k], id)
      PROVE  new[id].version = x /\ (~Holding(t, id) => content[id].version = x)
  <2>1. CASE Holding(t, id)
    BY <1>1, <1>3, <1>5, <1>6, <1>7, <2>1 DEF Comes
  <2>2. CASE ~Holding(t, id)
    <3>1. \A l \in DOMAIN ts : l = 1 \/ l > 1
      BY <1>1
    <3>2. \A l \in DOMAIN ts : ~Holding(ts[l], id)
      BY <1>1, <1>5, <1>7, <2>2, <3>1
    <3> QED
      BY <1>3, <2>2, <3>2 DEF Comes
  <2> QED
    BY <2>1, <2>2
<1> QED
  BY <1>1, <1>4, <1>7 DEF Comes, t, us, new

-----------------------------------------------------------------------------
(* What the writers know.                                                  *)
UpsertTypes ==
    /\ wpc \in [Writers -> {"idle", "writing", "done"}]
    /\ from \in [Writers -> Nat \ {0}]
    /\ awaited \in [Writers -> SUBSET Stores]
    /\ DOMAIN report = Writers /\ \A w \in Writers : "failed" \in DOMAIN report[w]
    /\ DOMAIN held = Stores
    /\ tasks \in Seq(Task)
Progress(w) ==
    /\ wpc[w] = "idle" => awaited[w] = {} /\ from[w] = 1
    /\ wpc[w] = "done" => awaited[w] = {} /\ from[w] + BulkBatchSize > Cardinality(Valid(w))
InStore(w, s, id) ==
    Own(w, id) /\ Of(w, Reached(w, s), id) # {} => held[s][id].version = Latest(w, Reached(w, s), id)
WrittenBy(w) == \A s \in {"qdrant", "pg"} \ report[w].failed : \A id \in DocIds : InStore(w, s, id)
Queued(w, id) ==
    Own(w, id) /\ Of(w, Reached(w, "meili"), id) # {} =>
        Comes(tasks, held["meili"], id, Latest(w, Reached(w, "meili"), id))
QueuedBy(w) == "meili" \notin report[w].failed => \A id \in DocIds \ taskFailed : Queued(w, id)
UpsertInv == UpsertTypes /\ \A w \in Writers : Progress(w) /\ WrittenBy(w) /\ QueuedBy(w)

(* At first nobody has written.                                            *)
LEMMA UpsertInit == IndexInit => UpsertInv
<1> SUFFICES ASSUME IndexInit PROVE UpsertInv
  OBVIOUS
<1>1. UpsertTypes
  <2>1. <<>> \in Seq(Task)
    OBVIOUS
  <2> QED
    BY <2>1 DEF IndexInit, UpsertTypes, NoReport
<1>2. \A w \in Writers : Progress(w)
  BY DEF IndexInit, Progress
<1>3. \A w \in Writers : \A s, id : Of(w, Reached(w, s), id) = {}
  BY DEF IndexInit, Reached, Of
<1> QED
  BY <1>1, <1>2, <1>3 DEF UpsertInv, WrittenBy, QueuedBy, InStore, Queued

(* What a writer has reached stands while it and its partials do.          *)
LEMMA ReachedStands ==
    ASSUME NEW w \in Writers, NEW s, wpc'[w] = wpc[w], from'[w] = from[w],
           s \in awaited'[w] <=> s \in awaited[w]
    PROVE  Reached(w, s)' = Reached(w, s)
BY DEF Reached, Behind, Batch

(* A writer that did nothing keeps what it knows when the queue and the    *)
(* stores keep its documents.                                              *)
LEMMA Bystander ==
    ASSUME UpsertInv, NEW v \in Writers,
           wpc'[v] = wpc[v], from'[v] = from[v], awaited'[v] = awaited[v],
           report'[v].failed = report[v].failed, taskFailed \subseteq taskFailed',
           \A id \in DocIds : Own(v, id) =>
              /\ \A s \in {"qdrant", "pg"} : held'[s][id] = held[s][id]
              /\ id \notin taskFailed' =>
                    \A x : Comes(tasks, held["meili"], id, x) => Comes(tasks', held'["meili"], id, x)
    PROVE  (Progress(v) /\ WrittenBy(v) /\ QueuedBy(v))'
<1>1. \A s : Reached(v, s)' = Reached(v, s)
  BY ReachedStands
<1>2. Progress(v) /\ WrittenBy(v) /\ QueuedBy(v)
  BY DEF UpsertInv
<1>3. Progress(v)'
  BY <1>2 DEF Progress
<1>4. WrittenBy(v)'
  <2> SUFFICES ASSUME NEW s \in {"qdrant", "pg"}, s \notin report[v].failed, NEW id \in DocIds
               PROVE  InStore(v, s, id)'
    BY DEF WrittenBy
  <2>1. InStore(v, s, id)
    BY <1>2 DEF WrittenBy
  <2> QED
    BY <1>1, <2>1 DEF InStore
<1>5. QueuedBy(v)'
  <2> SUFFICES ASSUME "meili" \notin report[v].failed, NEW id \in DocIds, id \notin taskFailed'
               PROVE  Queued(v, id)'
    BY DEF QueuedBy
  <2>1. Queued(v, id)
    BY <1>2 DEF QueuedBy
  <2>2. Own(v, id) => \A x : Comes(tasks, held["meili"], id, x) => Comes(tasks', held'["meili"], id, x)
    OBVIOUS
  <2> QED
    BY <1>1, <2>1, <2>2 DEF Queued
<1> QED
  BY <1>3, <1>4, <1>5

(* A writer starts: documents that are not valid are left out.             *)
LEMMA StartStep == ASSUME UpsertInv, NEW w \in Writers, StartUpsert(w) PROVE UpsertInv'
<1>0. UpsertTypes
  BY DEF UpsertInv
<1>1. UpsertTypes'
  BY <1>0 DEF UpsertTypes, StartUpsert
<1>2. from'[w] = 1 /\ Progress(w)'
  <2>1. from[w] = 1 /\ awaited[w] = {}
    BY DEF UpsertInv, Progress, StartUpsert
  <2>2. Valid(w) = {} => Cardinality(Valid(w)) = 0
    BY FS_EmptySet
  <2>3. BulkBatchSize \in Nat \ {0}
    BY IndexAssumption
  <2> QED
    BY <1>0, <2>1, <2>2, <2>3 DEF UpsertTypes, StartUpsert, Progress
<1>3. ASSUME NEW s \in Stores PROVE Reached(w, s)' = {}
  <2>1. Behind(w)' = {}
    BY <1>2, Ordinals DEF Behind
  <2>2. Valid(w) # {} => s \in awaited'[w]
    BY <1>0 DEF UpsertTypes, StartUpsert
  <2>3. Valid(w) = {} => Batch(w)' = {}
    BY DEF Batch
  <2> QED
    BY <2>1, <2>2, <2>3 DEF Reached
<1>4. \A id : Of(w, {}, id) = {}
  BY DEF Of
<1>5. WrittenBy(w)' /\ QueuedBy(w)'
  BY <1>3, <1>4 DEF WrittenBy, QueuedBy, InStore, Queued, Stores
<1>6. ASSUME NEW v \in Writers, v # w PROVE (Progress(v) /\ WrittenBy(v) /\ QueuedBy(v))'
  <2>1. /\ wpc'[v] = wpc[v] /\ from'[v] = from[v] /\ awaited'[v] = awaited[v]
        /\ report'[v].failed = report[v].failed
        /\ taskFailed' = taskFailed /\ held' = held /\ tasks' = tasks
    BY <1>0, <1>6 DEF UpsertTypes, StartUpsert
  <2> QED
    BY <2>1, Bystander
<1> QED
  BY <1>1, <1>2, <1>5, <1>6 DEF UpsertInv

(* The next batch: what was behind and in hand is behind now.              *)
LEMMA NextStep == ASSUME UpsertInv, NEW w \in Writers, NextBatch(w) PROVE UpsertInv'
<1>0. UpsertTypes
  BY DEF UpsertInv
<1> DEFINE ends == from[w] + BulkBatchSize > Cardinality(Valid(w))
<1>1. UpsertTypes'
  <2>1. BulkBatchSize \in Nat \ {0}
    BY IndexAssumption
  <2>2. from[w] + BulkBatchSize \in Nat \ {0}
    BY <1>0, <2>1 DEF UpsertTypes
  <2>3. from' \in [Writers -> Nat \ {0}]
    BY <1>0, <2>2 DEF UpsertTypes, NextBatch
  <2>4. awaited' \in [Writers -> SUBSET Stores] /\ wpc' \in [Writers -> {"idle", "writing", "done"}]
    BY <1>0 DEF UpsertTypes, NextBatch
  <2> QED
    BY <1>0, <2>3, <2>4 DEF UpsertTypes, NextBatch
<1>2. Progress(w)'
  <2>1. CASE ends
    <3>1. wpc'[w] = "done" /\ from' = from /\ awaited' = awaited /\ awaited[w] = {}
      BY <1>0, <2>1 DEF UpsertTypes, NextBatch
    <3> QED
      BY <2>1, <3>1 DEF Progress
  <2>2. CASE ~ends
    <3>1. wpc'[w] = "writing"
      BY <2>2 DEF NextBatch
    <3> QED
      BY <3>1 DEF Progress
  <2> QED
    BY <2>1, <2>2
<1>3. ASSUME NEW s \in Stores PROVE Reached(w, s)' = Reached(w, s)
  <2>1. Reached(w, s) = Behind(w) \cup Batch(w)
    BY DEF NextBatch, Reached
  <2>2. CASE ends
    BY <1>0, <2>1, <2>2 DEF UpsertTypes, NextBatch, Reached, Behind, Batch
  <2>3. CASE ~ends
    <3>1. /\ from'[w] = from[w] + BulkBatchSize /\ s \in awaited'[w] /\ wpc'[w] = "writing"
      BY <1>0, <2>3 DEF UpsertTypes, NextBatch
    <3>2. Reached(w, s)' = Behind(w)'
      BY <3>1 DEF Reached
    <3>3. Behind(w)' = {i \in Valid(w) : Ordinal(w, i) < from[w] + BulkBatchSize}
      BY <3>1 DEF Behind
    <3> QED
      BY <1>0, <2>1, <3>2, <3>3, BatchFollows DEF UpsertTypes
  <2> QED
    BY <2>2, <2>3
<1>4. report' = report /\ taskFailed' = taskFailed /\ held' = held /\ tasks' = tasks
  BY DEF NextBatch
<1>5. WrittenBy(w)' /\ QueuedBy(w)'
  <2>1. WrittenBy(w) /\ QueuedBy(w)
    BY DEF UpsertInv
  <2> QED
    BY <1>3, <1>4, <2>1 DEF WrittenBy, QueuedBy, InStore, Queued, Stores
<1>6. ASSUME NEW v \in Writers, v # w PROVE (Progress(v) /\ WrittenBy(v) /\ QueuedBy(v))'
  <2>1. /\ wpc'[v] = wpc[v] /\ from'[v] = from[v] /\ awaited'[v] = awaited[v]
    BY <1>0, <1>6 DEF UpsertTypes, NextBatch
  <2> QED
    BY <1>4, <2>1, Bystander
<1> QED
  BY <1>1, <1>2, <1>5, <1>6 DEF UpsertInv

(* The outcome of a store's write, a success or a failure.                 *)
Outcome(w, s) ==
    /\ s \in awaited[w]
    /\ Apply(s, w) \/ UNCHANGED <<held, tasks>>
    /\ awaited' = [awaited EXCEPT ![w] = @ \ {s}]
    /\ DOMAIN report' = DOMAIN report
    /\ \A v \in Writers : "failed" \in DOMAIN report'[v]
    /\ \A v \in Writers \ {w} : report'[v].failed = report[v].failed
    /\ \/ Apply(s, w) /\ report'[w].failed = report[w].failed
       \/ report'[w].failed = report[w].failed \cup {s}
    /\ UNCHANGED <<wpc, from, taskFailed>>

(* A success and a failure, as far as the stores can tell.                 *)
LEMMA Outcomes ==
    ASSUME UpsertTypes, NEW w \in Writers, NEW s \in Stores, StoreSucceeds(w, s) \/ StoreFails(w, s)
    PROVE  Outcome(w, s)
<1>1. CASE StoreSucceeds(w, s)
  BY <1>1 DEF UpsertTypes, StoreSucceeds, Outcome
<1>2. CASE StoreFails(w, s)
  BY <1>2 DEF UpsertTypes, StoreFails, Outcome
<1> QED
  BY <1>1, <1>2

(* A store's answer makes it hold, or queue, the batch, or names it as     *)
(* failed.                                                                 *)
LEMMA OutcomeStep == ASSUME UpsertInv, NEW w \in Writers, NEW s \in Stores, Outcome(w, s) PROVE UpsertInv'
<1> DEFINE t == [writer |-> w, at |-> Batch(w)]
<1>0. UpsertTypes /\ Progress(w) /\ WrittenBy(w) /\ QueuedBy(w)
  BY DEF UpsertInv
<1>a. /\ Behind(w) \in SUBSET Valid(w) /\ Batch(w) \in SUBSET Valid(w)
      /\ \A i \in Behind(w), j \in Batch(w) : i < j
  BY <1>0, BatchFollows DEF UpsertTypes
<1>b. t \in Task /\ t.writer = w /\ t.at = Batch(w)
  BY <1>a, Positions DEF Task
<1>c. wpc[w] \in {"writing", "done"} /\ s \in awaited[w]
  BY <1>0 DEF UpsertTypes, Progress, Outcome
<1>d. /\ wpc' = wpc /\ from' = from /\ taskFailed' = taskFailed
      /\ awaited'[w] = awaited[w] \ {s} /\ \A v \in Writers \ {w} : awaited'[v] = awaited[v]
      /\ \A v \in Writers \ {w} : report'[v].failed = report[v].failed
  BY <1>0 DEF UpsertTypes, Outcome
<1>e. \/ tasks' = tasks
      \/ s = "meili" /\ tasks' = Append(tasks, t)
  BY DEF Outcome, Apply
<1>f. \A id \in DocIds, u \in Stores :
         \/ held'[u][id] = held[u][id]
         \/ u = s /\ s # "meili" /\ held'[u][id] = Written(s, held[s], w, Batch(w))[id]
  BY <1>0 DEF Outcome, Apply, UpsertTypes
<1>1. UpsertTypes'
  <2>1. tasks' \in Seq(Task)
    BY <1>0, <1>b, <1>e, Appended DEF UpsertTypes
  <2>2. DOMAIN held' = Stores
    BY <1>0 DEF Outcome, Apply, UpsertTypes
  <2>3. awaited' \in [Writers -> SUBSET Stores]
    BY <1>0 DEF Outcome, UpsertTypes
  <2> QED
    BY <1>0, <1>d, <2>1, <2>2, <2>3 DEF Outcome, UpsertTypes
<1>2. Progress(w)'
  BY <1>0, <1>c, <1>d DEF Progress
<1>3. ASSUME NEW u \in Stores, u # s PROVE Reached(w, u)' = Reached(w, u)
  BY <1>3, <1>d, ReachedStands
<1>4. Reached(w, s) = Behind(w) /\ Reached(w, s)' = Behind(w) \cup Batch(w)
  <2>1. Behind(w)' = Behind(w) /\ Batch(w)' = Batch(w)
    BY <1>d DEF Behind, Batch
  <2> QED
    BY <1>c, <1>d, <2>1 DEF Reached
<1>5. ASSUME NEW id
      PROVE  /\ Latest(w, Behind(w) \cup Batch(w), id) =
                   IF Of(w, Batch(w), id) = {} THEN Latest(w, Behind(w), id) ELSE Latest(w, Batch(w), id)
             /\ Of(w, Behind(w) \cup Batch(w), id) = Of(w, Behind(w), id) \cup Of(w, Batch(w), id)
  <2>1. Of(w, Behind(w) \cup Batch(w), id) = Of(w, Behind(w), id) \cup Of(w, Batch(w), id)
    BY DEF Of
  <2> DEFINE at == Behind(w)
             then == Batch(w)
  <2>2. at \in SUBSET Valid(w) /\ then \in SUBSET Valid(w) /\ \A i \in at, j \in then : i < j
    BY <1>a
  <2> HIDE DEF at, then
  <2>3. Latest(w, at \cup then, id) = IF Of(w, then, id) = {} THEN Latest(w, at, id)
                                      ELSE Latest(w, then, id)
    BY <2>2, LaterDecides
  <2> QED
    BY <2>1, <2>3 DEF at, then
<1>6. WrittenBy(w)'
  <2> SUFFICES ASSUME NEW u \in {"qdrant", "pg"}, u \notin report'[w].failed, NEW id \in DocIds,
                      Own(w, id), Of(w, Reached(w, u)', id) # {}
               PROVE  held'[u][id].version = Latest(w, Reached(w, u)', id)
    BY DEF WrittenBy, InStore
  <2>1. u \in Stores /\ u \notin report[w].failed
    BY DEF Stores, Outcome
  <2>2. InStore(w, u, id)
    BY <1>0, <2>1 DEF WrittenBy
  <2>3. CASE u # s
    BY <1>3, <1>f, <2>1, <2>2, <2>3 DEF InStore
  <2>4. CASE u = s
    <3>1. Apply(s, w) /\ s # "meili"
      BY <2>4 DEF Outcome
    <3>2. held'[s] = Written(s, held[s], w, Batch(w))
      BY <1>0, <3>1 DEF Apply, UpsertTypes
    <3>3. CASE Of(w, Batch(w), id) = {}
      <4>1. held'[s][id] = held[s][id]
        BY <3>2, <3>3 DEF Written
      <4> QED
        BY <1>4, <1>5, <2>2, <2>4, <3>3, <4>1 DEF InStore
    <3>4. CASE Of(w, Batch(w), id) # {}
      <4>1. held'[s][id].version = Latest(w, Batch(w), id)
        BY <3>2, <3>4 DEF Written, Converted, Latest
      <4> QED
        BY <1>4, <1>5, <2>4, <3>4, <4>1
    <3> QED
      BY <3>3, <3>4
  <2> QED
    BY <2>3, <2>4
<1>7. QueuedBy(w)'
  <2> SUFFICES ASSUME "meili" \notin report'[w].failed, NEW id \in DocIds \ taskFailed,
                      Own(w, id), Of(w, Reached(w, "meili")', id) # {}
               PROVE  Comes(tasks', held'["meili"], id, Latest(w, Reached(w, "meili")', id))
    BY <1>d DEF QueuedBy, Queued
  <2>0. "meili" \in Stores
    BY DEF Stores
  <2>1. Queued(w, id)
    BY <1>0 DEF QueuedBy, Outcome
  <2>2. CASE s # "meili"
    <3>1. held'["meili"] = held["meili"] /\ tasks' = tasks
      BY <1>0, <2>0, <2>2 DEF Outcome, Apply, UpsertTypes
    <3> QED
      BY <1>3, <2>0, <2>1, <2>2, <3>1 DEF Queued
  <2>3. CASE s = "meili"
    <3>1. tasks' = Append(tasks, t) /\ held' = held
      BY <2>3 DEF Outcome, Apply
    <3>2. CASE Of(w, Batch(w), id) = {}
      <4>1. Comes(tasks, held["meili"], id, Latest(w, Behind(w), id))
        BY <1>4, <1>5, <2>1, <2>3, <3>2 DEF Queued
      <4>2. ~Holding(t, id)
        BY <1>b, <3>2 DEF Holding
      <4> HIDE DEF t
      <4>3. Comes(Append(tasks, t), held["meili"], id, Latest(w, Behind(w), id))
        BY <1>0, <1>b, <4>1, <4>2, Appended DEF UpsertTypes
      <4> QED
        BY <1>4, <1>5, <2>3, <3>1, <3>2, <4>3
    <3>3. CASE Of(w, Batch(w), id) # {}
      <4>1. Holding(t, id) /\ Latest(t.writer, t.at, id) = Latest(w, Batch(w), id)
        BY <1>b, <3>3 DEF Holding
      <4> HIDE DEF t
      <4>2. Comes(Append(tasks, t), held["meili"], id, Latest(w, Batch(w), id))
        BY <1>0, <1>b, <4>1, Appended DEF UpsertTypes
      <4> QED
        BY <1>4, <1>5, <2>3, <3>1, <3>3, <4>2
    <3> QED
      BY <3>2, <3>3
  <2> QED
    BY <2>2, <2>3
<1>8. ASSUME NEW v \in Writers, v # w PROVE (Progress(v) /\ WrittenBy(v) /\ QueuedBy(v))'
  <2>1. ASSUME NEW id \in DocIds, Own(v, id)
        PROVE  /\ \A u \in {"qdrant", "pg"} : held'[u][id] = held[u][id]
               /\ \A x : Comes(tasks, held["meili"], id, x) => Comes(tasks', held'["meili"], id, x)
    <3>1. Of(w, Batch(w), id) = {}
      BY <1>8, <1>a, <2>1, OnlyOwner
    <3>2. \A u \in {"qdrant", "pg"} : held'[u][id] = held[u][id]
      <4>1. Written(s, held[s], w, Batch(w))[id] = held[s][id]
        BY <3>1 DEF Written
      <4> QED
        BY <1>f, <4>1 DEF Stores
    <3>3. held'["meili"] = held["meili"]
      <4>1. "meili" \in DOMAIN held
        BY <1>0 DEF UpsertTypes, Stores
      <4>2. held' = held \/ (s # "meili" /\ held' = [held EXCEPT ![s] = Written(s, @, w, Batch(w))])
        BY DEF Outcome, Apply
      <4> QED
        BY <4>1, <4>2
    <3>4. ~Holding(t, id)
      BY <1>b, <3>1 DEF Holding
    <3> HIDE DEF t
    <3>5. \A x : Comes(tasks, held["meili"], id, x) => Comes(Append(tasks, t), held["meili"], id, x)
      BY <1>0, <1>b, <3>4, Appended DEF UpsertTypes
    <3> QED
      BY <1>e, <3>2, <3>3, <3>5
  <2>2. /\ wpc'[v] = wpc[v] /\ from'[v] = from[v] /\ awaited'[v] = awaited[v]
        /\ report'[v].failed = report[v].failed /\ taskFailed \subseteq taskFailed'
    BY <1>8, <1>d
  <2> QED
    BY <2>1, <2>2, Bystander
<1> QED
  BY <1>1, <1>2, <1>6, <1>7, <1>8 DEF UpsertInv

(* Meilisearch does its first task, or loses it.                           *)
LEMMA RunStep == ASSUME UpsertInv, RunTask PROVE UpsertInv'
<1>0. UpsertTypes
  BY DEF UpsertInv
<1> DEFINE t == Head(tasks)
<1>1. tasks \in Seq(Task) /\ tasks # <<>> /\ tasks' = Tail(tasks)
  BY <1>0 DEF UpsertTypes, RunTask
<1>2. t \in Task /\ Tail(tasks) \in Seq(Task)
  BY <1>1
<1>3. \/ /\ held' = [held EXCEPT !["meili"] = Written("meili", @, t.writer, t.at)]
         /\ taskFailed' = taskFailed
      \/ held' = held /\ taskFailed' = taskFailed \cup {Job[t.writer][i].id : i \in t.at}
  BY DEF RunTask
<1>4. UpsertTypes'
  <2>1. DOMAIN held' = Stores
    BY <1>0, <1>3 DEF UpsertTypes
  <2> QED
    BY <1>0, <1>1, <1>2, <2>1 DEF UpsertTypes, RunTask
<1>5. ASSUME NEW id \in DocIds, id \notin taskFailed', NEW x, Comes(tasks, held["meili"], id, x)
      PROVE  Comes(tasks', held'["meili"], id, x)
  <2>1. CASE held' = [held EXCEPT !["meili"] = Written("meili", @, t.writer, t.at)]
    <3>1. held'["meili"] = Written("meili", held["meili"], t.writer, t.at)
      BY <1>0, <2>1 DEF UpsertTypes, Stores
    <3>2. Comes(Tail(tasks), Written("meili", held["meili"], t.writer, t.at), id, x)
      BY <1>1, <1>5, Taken
    <3> QED
      BY <1>1, <3>1, <3>2
  <2>2. CASE held' = held /\ taskFailed' = taskFailed \cup {Job[t.writer][i].id : i \in t.at}
    <3>1. ~Holding(t, id)
      BY <1>5, <2>2 DEF Holding, Of
    <3>2. Comes(Tail(tasks), held["meili"], id, x)
      BY <1>1, <1>5, <3>1, Taken
    <3> QED
      BY <1>1, <2>2, <3>2
  <2> QED
    BY <1>3, <2>1, <2>2
<1>6. ASSUME NEW v \in Writers PROVE (Progress(v) /\ WrittenBy(v) /\ QueuedBy(v))'
  <2>1. /\ wpc'[v] = wpc[v] /\ from'[v] = from[v] /\ awaited'[v] = awaited[v]
        /\ report'[v].failed = report[v].failed
    BY DEF RunTask
  <2>2. taskFailed \subseteq taskFailed' /\ \A s \in {"qdrant", "pg"} : held'[s] = held[s]
    BY <1>0, <1>3 DEF UpsertTypes, Stores
  <2> QED
    BY <1>5, <2>1, <2>2, Bystander
<1> QED
  BY <1>4, <1>6 DEF UpsertInv

(* Every step of writers and of the queue; searches write nothing.         *)
LEMMA UpsertStep == UpsertInv /\ [IndexNext]_indexVars => UpsertInv'
<1> SUFFICES ASSUME UpsertInv, [IndexNext]_indexVars PROVE UpsertInv'
  OBVIOUS
<1>1. CASE UNCHANGED upsertVars
  <2>1. UpsertTypes /\ UNCHANGED <<held, tasks, wpc, from, awaited, report, taskFailed>>
    BY <1>1 DEF UpsertInv, upsertVars
  <2>2. UpsertTypes'
    BY <2>1 DEF UpsertTypes
  <2>3. ASSUME NEW v \in Writers PROVE (Progress(v) /\ WrittenBy(v) /\ QueuedBy(v))'
    BY <2>1, Bystander
  <2> QED
    BY <2>2, <2>3 DEF UpsertInv
<1>2. CASE UpsertNext
  <2>1. ASSUME NEW w \in Writers, StartUpsert(w) PROVE UpsertInv'
    BY <2>1, StartStep
  <2>2. ASSUME NEW w \in Writers, NextBatch(w) PROVE UpsertInv'
    BY <2>2, NextStep
  <2>3. ASSUME NEW w \in Writers, NEW s \in Stores, StoreSucceeds(w, s) \/ StoreFails(w, s)
        PROVE  UpsertInv'
    <3>1. Outcome(w, s)
      BY <2>3, Outcomes DEF UpsertInv
    <3> QED
      BY <3>1, OutcomeStep
  <2> QED
    BY <1>2, <2>1, <2>2, <2>3, RunStep DEF UpsertNext
<1>3. CASE SearchNext
  BY <1>1, <1>3 DEF SearchNext, StartSearch, FinishSearch, Answer, StoreSearchFails, StoreAnswers
<1> QED
  BY <1>1, <1>2, <1>3 DEF IndexNext, indexVars

(* A writer that is done has reached its whole job.                        *)
LEMMA UpsertInvTrue == UpsertInv => UpsertReportTrue
<1> SUFFICES ASSUME UpsertInv, NEW w \in Writers, wpc[w] = "done", NEW i \in Valid(w),
                    Own(w, Job[w][i].id)
             PROVE  LET id == Job[w][i].id IN
                    /\ \A s \in {"qdrant", "pg"} \ report[w].failed :
                          held[s][id].version = LastVersion(w, id)
                    /\ "meili" \notin report[w].failed /\ tasks = <<>> /\ id \notin taskFailed =>
                          held["meili"][id].version = LastVersion(w, id)
  BY DEF UpsertReportTrue, Own
<1> DEFINE id == Job[w][i].id
<1>1. UpsertTypes /\ Progress(w) /\ WrittenBy(w) /\ QueuedBy(w)
  BY DEF UpsertInv
<1>2. id \in DocIds
  BY Positions DEF IndexDoc
<1>3. ASSUME NEW s PROVE Reached(w, s) = Valid(w)
  <2>1. Reached(w, s) = Behind(w) \cup Batch(w)
    BY <1>1 DEF Progress, Reached
  <2>2. Behind(w) \cup Batch(w) = {k \in Valid(w) : Ordinal(w, k) < from[w] + BulkBatchSize}
    BY <1>1, BatchFollows DEF UpsertTypes
  <2>3. from[w] \in Nat /\ BulkBatchSize \in Nat /\ from[w] + BulkBatchSize > Cardinality(Valid(w))
    BY <1>1, IndexAssumption DEF UpsertTypes, Progress
  <2>4. \A k \in Valid(w) : Ordinal(w, k) < from[w] + BulkBatchSize
    BY <2>3, Ordinals, Positions
  <2> QED
    BY <2>1, <2>2, <2>4
<1>4. Of(w, Valid(w), id) # {} /\ LastVersion(w, id) = Latest(w, Valid(w), id)
  BY DEF Of, LastVersion, Latest
<1> HIDE DEF id
<1>5. ASSUME NEW s \in {"qdrant", "pg"} \ report[w].failed
      PROVE  held[s][id].version = LastVersion(w, id)
  <2>1. InStore(w, s, id)
    BY <1>1, <1>2 DEF WrittenBy
  <2> QED
    BY <1>3, <1>4, <2>1 DEF InStore, id
<1>6. ASSUME "meili" \notin report[w].failed, tasks = <<>>, id \notin taskFailed
      PROVE  held["meili"][id].version = LastVersion(w, id)
  <2>1. Queued(w, id)
    BY <1>1, <1>2, <1>6 DEF QueuedBy
  <2>2. Comes(tasks, held["meili"], id, LastVersion(w, id))
    BY <1>3, <1>4, <2>1 DEF Queued, id
  <2>3. DOMAIN tasks = {}
    BY <1>6
  <2> QED
    BY <2>2, <2>3 DEF Comes
<1> QED
  BY <1>5, <1>6 DEF id

-----------------------------------------------------------------------------
(* What a store's answer holds: documents of the query's team, each once.  *)
ListOK(l) ==
    /\ \E n \in 0..Cardinality(DocIds) : DOMAIN l.docs = 1..n
    /\ l.err => l.docs = <<>>
    /\ \A i \in DOMAIN l.docs : /\ l.docs[i].id \in DocIds /\ l.docs[i].copy.version # 0
                                /\ query.team # NoTeam => l.docs[i].copy.team = query.team
    /\ \A i, j \in DOMAIN l.docs : l.docs[i].id = l.docs[j].id => i = j
AskInv ==
    /\ DOMAIN lists \subseteq Stores /\ \A s \in DOMAIN lists : ListOK(lists[s])
    /\ searched.pc \in {"idle", "failed", "searching", "allFailed", "result"}
    /\ searched.pc = "idle" => DOMAIN lists = {}
    /\ query.max \in Nat
    /\ SearchAnswersTruly

(* Numbers of members: an enumeration without repetition misses nobody.    *)
LEMMA OrderOf ==
    ASSUME NEW S, IsFiniteSet(S), NEW order \in SetToSeqs(S)
    PROVE  /\ Cardinality(S) \in Nat /\ order \in [1..Cardinality(S) -> S]
           /\ Len(order) = Cardinality(S)
           /\ \A i, j \in DOMAIN order : order[i] = order[j] => i = j
           /\ \A x \in S : \E i \in DOMAIN order : order[i] = x
<1> DEFINE n == Cardinality(S)
<1>1. n \in Nat
  BY FS_CardinalityType
<1>2. order \in [1..n -> S] /\ \A i, j \in 1..n : i # j => order[i] # order[j]
  BY DEF SetToSeqs
<1>3. IsFiniteSet(1..n) /\ Cardinality(1..n) = n
  BY <1>1, FS_Interval
<1>4. order \in Injection(1..n, S)
  BY <1>2 DEF Injection, IsInjective
<1>5. order \in Surjection(1..n, S)
  BY <1>3, <1>4, FS_Injection
<1>6. \A x \in S : \E i \in 1..n : order[i] = x
  BY <1>5 DEF Surjection
<1>7. Len(order) = n
  BY <1>1, <1>2
<1> QED
  BY <1>1, <1>2, <1>6, <1>7

(* A score is a whole number of units, and a better rank scores more.      *)
LEMMA Quotient ==
    ASSUME NEW r \in 1..Cardinality(DocIds), Cardinality(DocIds) \in Nat
    PROVE  LET p == RRFUnit \div (RRFConstantK + r) IN
           p \in Nat \ {0} /\ RRFUnit = (RRFConstantK + r) * p
<1> DEFINE m == RRFConstantK + r
           p == RRFUnit \div m
<1>1. m \in Nat \ {0} /\ RRFUnit \in Nat \ {0} /\ RRFUnit % m = 0
  BY IndexAssumption
<1> HIDE DEF m
<1>2. RRFUnit = (m * p) + (RRFUnit % m) /\ p \in Int
  BY <1>1
<1>3. RRFUnit = m * p
  BY <1>1, <1>2
<1>4. p > 0
  BY <1>1, <1>2, <1>3
<1> QED
  BY <1>2, <1>3, <1>4 DEF m

(* Equal products: what goes with the larger is the smaller.               *)
LEMMA SmallerProduct ==
    ASSUME NEW a \in Nat \ {0}, NEW b \in Nat \ {0}, NEW p \in Nat \ {0}, NEW q \in Nat \ {0},
           a < b, a * p = b * q
    PROVE  q < p
<1> SUFFICES ASSUME p <= q PROVE FALSE
  OBVIOUS
<1>1. a * p <= a * q
  OBVIOUS
<1>2. a * q < b * q
  OBVIOUS
<1> QED
  BY <1>1, <1>2

(* A better rank has a larger reciprocal.                                  *)
LEMMA BetterRank ==
    ASSUME Cardinality(DocIds) \in Nat,
           NEW r \in 1..Cardinality(DocIds), NEW q \in 1..Cardinality(DocIds), r < q
    PROVE  RRFUnit \div (RRFConstantK + q) < RRFUnit \div (RRFConstantK + r)
<1> DEFINE a == RRFConstantK + r
           b == RRFConstantK + q
           x == RRFUnit \div a
           y == RRFUnit \div b
<1>1. x \in Nat \ {0} /\ y \in Nat \ {0} /\ RRFUnit = a * x /\ RRFUnit = b * y
  BY Quotient
<1>2. a \in Nat \ {0} /\ b \in Nat \ {0} /\ a < b
  BY IndexAssumption
<1> HIDE DEF a, b, x, y
<1>3. a * x = b * y
  BY <1>1
<1>4. y < x
  BY <1>1, <1>2, <1>3, SmallerProduct
<1> QED
  BY <1>4 DEF a, b, x, y

(* Weights are positive, whatever is configured.                           *)
LEMMA Weights == \A s : Weight(s) \in Nat \ {0}
BY IndexAssumption DEF Weight

(* The ranks of the documents of answered stores.                          *)
AllOK == DOMAIN lists = Stores /\ \A s \in Stores : ListOK(lists[s])
Dominating(a, b) == \A s \in RankedBy(b) : s \in RankedBy(a) /\ RankIn(s, a) < RankIn(s, b)

(* There are finitely many documents.                                      *)
LEMMA DocsCounted == Cardinality(DocIds) \in Nat
BY IndexAssumption, FS_CardinalityType

(* A ranked document has a place in the list.                              *)
LEMMA RankOf ==
    ASSUME AllOK, NEW d, NEW s \in RankedBy(d)
    PROVE  /\ RankIn(s, d) \in DOMAIN lists[s].docs /\ lists[s].docs[RankIn(s, d)].id = d
           /\ RankIn(s, d) \in 1..Cardinality(DocIds) /\ d \in DocIds
<1>1. \E i \in DOMAIN lists[s].docs : lists[s].docs[i].id = d
  BY DEF RankedBy
<1>2. RankIn(s, d) \in DOMAIN lists[s].docs /\ lists[s].docs[RankIn(s, d)].id = d
  BY <1>1 DEF RankIn
<1>3. ListOK(lists[s])
  BY DEF AllOK, RankedBy
<1>4. PICK n \in 0..Cardinality(DocIds) : DOMAIN lists[s].docs = 1..n
  BY <1>3 DEF ListOK
<1>5. RankIn(s, d) \in 1..Cardinality(DocIds)
  BY <1>2, <1>4, DocsCounted
<1> QED
  BY <1>2, <1>3, <1>5 DEF ListOK

(* A store adds to a document it ranks, and to no other.                   *)
LEMMA TermOf ==
    ASSUME AllOK, NEW d, NEW s \in Stores
    PROVE  Term(s, d) \in Nat /\ (s \in RankedBy(d) => Term(s, d) > 0)
<1>1. CASE s \notin RankedBy(d)
  BY <1>1 DEF Term
<1>2. CASE s \in RankedBy(d)
  <2> DEFINE p == RRFUnit \div (RRFConstantK + RankIn(s, d))
  <2>1. p \in Nat \ {0}
    BY <1>2, RankOf, DocsCounted, Quotient
  <2>2. Weight(s) \in Nat \ {0}
    BY Weights
  <2>3. Term(s, d) = Weight(s) * p
    BY <1>2 DEF Term
  <2> HIDE DEF p
  <2>4. Weight(s) * p \in Nat /\ Weight(s) * p > 0
    BY <2>1, <2>2
  <2> QED
    BY <2>3, <2>4
<1> QED
  BY <1>1, <1>2

(* A store adds more to what it ranks higher.                              *)
LEMMA MoreTerm ==
    ASSUME AllOK, NEW a, NEW b, Dominating(a, b), NEW s \in Stores
    PROVE  Term(s, a) >= Term(s, b) /\ (s \in RankedBy(b) => Term(s, a) > Term(s, b))
<1>1. CASE s \notin RankedBy(b)
  BY <1>1, TermOf DEF Term
<1>2. CASE s \in RankedBy(b)
  <2> DEFINE ra == RankIn(s, a)
             rb == RankIn(s, b)
             p == RRFUnit \div (RRFConstantK + ra)
             q == RRFUnit \div (RRFConstantK + rb)
             w == Weight(s)
  <2>1. s \in RankedBy(a) /\ ra < rb
    BY <1>2 DEF Dominating
  <2>2. ra \in 1..Cardinality(DocIds) /\ rb \in 1..Cardinality(DocIds)
    BY <1>2, <2>1, RankOf
  <2>3. Term(s, a) = w * p /\ Term(s, b) = w * q
    BY <1>2, <2>1 DEF Term
  <2> HIDE DEF ra, rb
  <2>4. p \in Nat \ {0} /\ q \in Nat \ {0}
    BY <2>2, DocsCounted, Quotient
  <2>5. q < p
    BY <2>1, <2>2, DocsCounted, BetterRank
  <2>6. w \in Nat \ {0}
    BY Weights
  <2> HIDE DEF p, q, w
  <2>7. w * q < w * p /\ w * q \in Nat /\ w * p \in Nat
    BY <2>4, <2>5, <2>6
  <2> QED
    BY <2>3, <2>7
<1> QED
  BY <1>1, <1>2

(* So the document ranked higher by all of them has the larger sum.        *)
LEMMA MoreScore ==
    ASSUME AllOK, NEW a, NEW b, Dominating(a, b), RankedBy(b) # {}
    PROVE  RRF(a) > RRF(b)
<1>1. PICK s \in RankedBy(b) : TRUE
  OBVIOUS
<1>2. /\ Term("qdrant", a) \in Nat /\ Term("qdrant", b) \in Nat /\ Term("qdrant", a) >= Term("qdrant", b)
      /\ Term("meili", a) \in Nat /\ Term("meili", b) \in Nat /\ Term("meili", a) >= Term("meili", b)
      /\ Term("pg", a) \in Nat /\ Term("pg", b) \in Nat /\ Term("pg", a) >= Term("pg", b)
  BY TermOf, MoreTerm DEF Stores
<1>3. s \in {"qdrant", "meili", "pg"} /\ Term(s, a) > Term(s, b)
  BY <1>1, MoreTerm DEF RankedBy, Stores
<1> QED
  BY <1>2, <1>3 DEF RRF

(* Scores are counted in whole units.                                      *)
LEMMA ScoreTyped == ASSUME AllOK, NEW d PROVE RRF(d) \in Nat
<1>1. Term("qdrant", d) \in Nat /\ Term("meili", d) \in Nat /\ Term("pg", d) \in Nat
  BY TermOf DEF Stores
<1> QED
  BY <1>1 DEF RRF

-----------------------------------------------------------------------------
(* At first nothing is asked.                                              *)
LEMMA AskInit == IndexInit => AskInv
<1> SUFFICES ASSUME IndexInit PROVE AskInv
  OBVIOUS
<1>1. DOMAIN lists = {} /\ searched = [pc |-> "idle"] /\ query.max = 0
  BY DEF IndexInit, NoIndexQuery
<1>2. SearchAnswersTruly
  BY <1>1 DEF SearchAnswersTruly
<1> QED
  BY <1>1, <1>2 DEF AskInv

(* A store answers with what it holds and the team may see.                *)
LEMMA AnswerOK ==
    ASSUME AskInv, NEW s \in Stores, Answer(s) \/ StoreSearchFails(s)
    PROVE  AskInv'
<1>1. PICK answer : StoreAnswers(s, answer) /\ ListOK(answer)
  <2>1. CASE StoreSearchFails(s)
    <3> DEFINE none == [err |-> TRUE, docs |-> <<>>]
    <3>1. DOMAIN none.docs = 1..0 /\ 0 \in 0..Cardinality(DocIds)
      BY DocsCounted
    <3>2. ListOK(none)
      BY <3>1 DEF ListOK
    <3> QED
      BY <2>1, <3>2 DEF StoreSearchFails
  <2>2. CASE Answer(s)
    <3>1. PICK found \in SUBSET Matches(s) : \E list \in SetToSeqs(found) :
             StoreAnswers(s, [err |-> FALSE,
                              docs |-> [i \in DOMAIN list |-> [id |-> list[i], copy |-> held[s][list[i]]]]])
      BY <2>2 DEF Answer
    <3>2. PICK list \in SetToSeqs(found) :
             StoreAnswers(s, [err |-> FALSE,
                              docs |-> [i \in DOMAIN list |-> [id |-> list[i], copy |-> held[s][list[i]]]]])
      BY <3>1
    <3> DEFINE docs == [i \in DOMAIN list |-> [id |-> list[i], copy |-> held[s][list[i]]]]
               answer == [err |-> FALSE, docs |-> docs]
    <3>3. found \in SUBSET DocIds
      BY DEF Matches
    <3>4. IsFiniteSet(found) /\ Cardinality(found) \in 0..Cardinality(DocIds)
      <4>1. IsFiniteSet(DocIds)
        BY IndexAssumption
      <4>2. IsFiniteSet(found) /\ Cardinality(found) <= Cardinality(DocIds)
        BY <3>3, <4>1, FS_Subset
      <4>3. Cardinality(found) \in Nat
        BY <4>2, FS_CardinalityType
      <4> QED
        BY <4>2, <4>3, DocsCounted
    <3>5. /\ list \in [1..Cardinality(found) -> found]
          /\ \A i, j \in DOMAIN list : list[i] = list[j] => i = j
      BY <3>4, OrderOf
    <3>6. \A i \in DOMAIN list : /\ list[i] \in DocIds /\ held[s][list[i]].version # 0
                                 /\ query.team # NoTeam => held[s][list[i]].team = query.team
      BY <3>3, <3>5 DEF Matches
    <3>7. ListOK(answer)
      <4>1. answer.docs = docs /\ ~answer.err /\ DOMAIN docs = 1..Cardinality(found)
        BY <3>5
      <4>2. \A i \in DOMAIN docs : docs[i].id = list[i] /\ docs[i].copy = held[s][list[i]] /\ i \in DOMAIN list
        OBVIOUS
      <4> HIDE DEF docs, answer
      <4> QED
        BY <3>4, <3>5, <3>6, <4>1, <4>2 DEF ListOK
    <3> QED
      BY <3>2, <3>7
  <2> QED
    BY <2>1, <2>2
<1>2. /\ query' = query /\ searched' = searched /\ searched.pc = "searching"
      /\ DOMAIN lists' = DOMAIN lists \cup {s}
      /\ \A t \in DOMAIN lists' : lists'[t] = answer \/ (t \in DOMAIN lists /\ lists'[t] = lists[t])
  BY <1>1 DEF StoreAnswers
<1>3. \A l : ListOK(l) => ListOK(l)'
  BY <1>2 DEF ListOK
<1>4. \A t \in DOMAIN lists' : ListOK(lists'[t])
  BY <1>1, <1>2 DEF AskInv
<1>5. \A t \in DOMAIN lists' : ListOK(lists[t])'
  BY <1>2, <1>4 DEF ListOK
<1>6. SearchAnswersTruly'
  BY <1>2 DEF SearchAnswersTruly
<1> QED
  BY <1>2, <1>5, <1>6 DEF AskInv

(* The answer of a search in which some store answered.                    *)
LEMMA Fusing ==
    ASSUME AskInv, FinishSearch, ~AllFailed
    PROVE  searched'.pc = "result" /\ SearchAnswersTruly'
<1>0. AllOK /\ query.max \in Nat
  BY DEF AskInv, FinishSearch, AllOK
<1>1. PICK order \in Fused : \E copy \in [Ranked -> UNION {Copies(d) : d \in Ranked}] :
               /\ \A d \in Ranked : copy[d] \in Copies(d)
               /\ searched' = [pc |-> "result",
                               docs |-> [i \in 1..Min({Limit, Len(order)}) |->
                                            [id |-> order[i], copy |-> copy[order[i]]]],
                               errs |-> {s \in Stores : lists[s].err}]
  BY DEF FinishSearch
<1>2. PICK copy \in [Ranked -> UNION {Copies(d) : d \in Ranked}] :
               /\ \A d \in Ranked : copy[d] \in Copies(d)
               /\ searched' = [pc |-> "result",
                               docs |-> [i \in 1..Min({Limit, Len(order)}) |->
                                            [id |-> order[i], copy |-> copy[order[i]]]],
                               errs |-> {s \in Stores : lists[s].err}]
  BY <1>1
<1> DEFINE m == Min({Limit, Len(order)})
           docs == [i \in 1..m |-> [id |-> order[i], copy |-> copy[order[i]]]]
<1>3. /\ searched'.pc = "result" /\ searched'.docs = docs
      /\ searched'.errs = {s \in Stores : lists[s].err}
      /\ lists' = lists /\ query' = query
  BY <1>2 DEF FinishSearch
<1>4. Ranked \in SUBSET DocIds
  BY DEF Ranked
<1>5. IsFiniteSet(Ranked)
  <2>1. IsFiniteSet(DocIds)
    BY IndexAssumption
  <2> QED
    BY <1>4, <2>1, FS_Subset
<1> DEFINE n == Cardinality(Ranked)
<1>6. /\ n \in Nat /\ order \in [1..n -> Ranked] /\ Len(order) = n
      /\ \A i, j \in DOMAIN order : order[i] = order[j] => i = j
      /\ \A x \in Ranked : \E i \in DOMAIN order : order[i] = x
  <2>1. order \in SetToSeqs(Ranked)
    BY DEF Fused
  <2> QED
    BY <1>5, <2>1, OrderOf
<1>7. Limit \in Nat \ {0}
  BY <1>0 DEF Limit, DefaultMaxResults
<1>8. m \in 0..n /\ (m < Limit => m = n) /\ (m = n \/ m = Limit)
  <2> DEFINE k == Limit
  <2>1. k \in Nat
    BY <1>7
  <2> HIDE DEF k
  <2>2. Min({k, n}) = IF k <= n THEN k ELSE n
    <3>1. \A x \in {k, n} : (\A y \in {k, n} : x <= y) <=> x = (IF k <= n THEN k ELSE n)
      BY <1>6, <2>1
    <3> QED
      BY <3>1 DEF Min
  <2>3. m = IF k <= n THEN k ELSE n
    BY <1>6, <2>2 DEF k
  <2> QED
    BY <1>6, <2>1, <2>3 DEF k
<1>9. ASSUME NEW i \in DOMAIN order, NEW j \in DOMAIN order, i < j
      PROVE  RRF(order[i]) >= RRF(order[j])
  <2>1. RRF(order[i]) > RRF(order[j]) \/ RRF(order[i]) = RRF(order[j])
    BY <1>9 DEF Fused
  <2> QED
    BY <1>0, <2>1, ScoreTyped
<1> HIDE DEF m
<1>10. /\ DOMAIN docs = 1..m /\ Len(docs) = m
       /\ \A i \in 1..m : docs[i].id = order[i] /\ docs[i].copy = copy[order[i]] /\ i \in DOMAIN order
  BY <1>6, <1>8
<1> HIDE DEF docs
<1>11. {s \in Stores : lists[s].err} # Stores
  <2>1. PICK s \in Stores : ~(lists[s].err /\ lists[s].docs = <<>>)
    BY DEF AllFailed
  <2>2. ~lists[s].err
    BY <1>0, <2>1 DEF AllOK, ListOK
  <2> QED
    BY <2>2
<1>12. \A i, j \in DOMAIN docs : docs[i].id = docs[j].id => i = j
  BY <1>6, <1>10
<1>13. ASSUME NEW i \in DOMAIN docs
       PROVE  docs[i].copy.version # 0 /\ (query.team # NoTeam => docs[i].copy.team = query.team)
  <2> DEFINE d == order[i]
  <2>1. docs[i].copy \in Copies(d)
    BY <1>2, <1>6, <1>10
  <2>2. PICK s \in RankedBy(d) : docs[i].copy = lists[s].docs[RankIn(s, d)].copy
    BY <2>1 DEF Copies
  <2> HIDE DEF d
  <2>3. RankIn(s, d) \in DOMAIN lists[s].docs /\ s \in Stores
    BY <1>0, RankOf DEF RankedBy
  <2>4. ListOK(lists[s])
    BY <1>0, <2>3 DEF AllOK
  <2> QED
    BY <2>2, <2>3, <2>4 DEF ListOK
<1> DEFINE Listed == {docs[i].id : i \in DOMAIN docs}
<1>14. ASSUME NEW a \in Ranked, NEW b \in Ranked, Dominating(a, b), NEW i \in DOMAIN docs, docs[i].id = b
       PROVE  \E j \in 1..(i - 1) : docs[j].id = a
  <2>1. RRF(a) > RRF(b) /\ RRF(a) \in Nat /\ RRF(b) \in Nat
    BY <1>0, <1>14, MoreScore, ScoreTyped DEF Ranked
  <2>2. PICK j \in DOMAIN order : order[j] = a
    BY <1>6
  <2>3. i \in 1..m /\ j \in 1..n /\ i \in 1..n /\ i \in DOMAIN order /\ order[i] = b
    BY <1>6, <1>8, <1>10, <1>14, <2>2
  <2>4. ~(i < j) /\ i # j
    BY <1>9, <2>1, <2>2, <2>3
  <2>5. j \in 1..m /\ j \in 1..(i - 1)
    BY <2>3, <2>4, <1>8
  <2> QED
    BY <1>10, <2>2, <2>5
<1>15. Len(docs) < Limit => Listed = Ranked
  <2> SUFFICES ASSUME m < Limit PROVE Listed = Ranked
    BY <1>10
  <2>1. m = n
    BY <1>8
  <2>2. Listed = {order[i] : i \in 1..n}
    BY <1>10, <2>1
  <2>3. {order[i] : i \in 1..n} = Ranked
    BY <1>6
  <2> QED
    BY <2>2, <2>3
<1>16. \A a, b \in Ranked : (\A s \in RankedBy(b) : s \in RankedBy(a) /\ RankIn(s, a) < RankIn(s, b)) =>
          \A i \in DOMAIN docs : docs[i].id = b => \E j \in 1..(i - 1) : docs[j].id = a
  BY <1>14 DEF Dominating
<1>17. /\ Ranked' = Ranked /\ Limit' = Limit
       /\ \A d : RankedBy(d)' = RankedBy(d)
       /\ \A s, d : RankIn(s, d)' = RankIn(s, d)
  BY <1>3 DEF Ranked, Limit, RankedBy, RankIn
<1>18. searched'.errs = {s \in Stores : lists'[s].err} /\ searched'.errs # Stores
  BY <1>3, <1>11
<1>19. /\ \A i, j \in DOMAIN searched'.docs : searched'.docs[i].id = searched'.docs[j].id => i = j
       /\ \A i \in DOMAIN searched'.docs :
             /\ searched'.docs[i].copy.version # 0
             /\ query'.team # NoTeam => searched'.docs[i].copy.team = query'.team
  BY <1>3, <1>12, <1>13
<1>20. \A a, b \in Ranked' :
          (\A s \in RankedBy(b)' : s \in RankedBy(a)' /\ RankIn(s, a)' < RankIn(s, b)') =>
             \A i \in DOMAIN searched'.docs : searched'.docs[i].id = b =>
                \E j \in 1..(i - 1) : searched'.docs[j].id = a
  BY <1>3, <1>16, <1>17
<1>21. Len(searched'.docs) < Limit' => {searched'.docs[i].id : i \in DOMAIN searched'.docs} = Ranked'
  BY <1>3, <1>15, <1>17
<1> HIDE DEF Listed, n
<1> QED
  BY <1>3, <1>18, <1>19, <1>20, <1>21 DEF SearchAnswersTruly

(* Every step of a search; writers change no list that was given.          *)
LEMMA AskStep == AskInv /\ [IndexNext]_indexVars => AskInv'
<1> SUFFICES ASSUME AskInv, [IndexNext]_indexVars PROVE AskInv'
  OBVIOUS
<1>1. CASE UNCHANGED searchVars
  <2>1. query' = query /\ lists' = lists /\ searched' = searched
    BY <1>1 DEF searchVars
  <2>2. SearchAnswersTruly'
    <3>1. /\ Ranked' = Ranked /\ Limit' = Limit
          /\ \A d : RankedBy(d)' = RankedBy(d)
          /\ \A s, d : RankIn(s, d)' = RankIn(s, d)
      BY <2>1 DEF Ranked, Limit, RankedBy, RankIn
    <3> QED
      BY <2>1, <3>1 DEF AskInv, SearchAnswersTruly
  <2> QED
    BY <2>1, <2>2 DEF AskInv, ListOK
<1>2. CASE UpsertNext
  BY <1>1, <1>2 DEF UpsertNext, StartUpsert, NextBatch, StoreSucceeds, StoreFails, RunTask
<1>3. CASE StartSearch
  <2>1. DOMAIN lists' = {} /\ query' \in IndexQueries /\ searched'.pc \in {"searching", "failed"}
    BY <1>3 DEF AskInv, StartSearch
  <2>2. query'.max \in Nat
    BY <2>1, IndexAssumption
  <2> QED
    BY <2>1, <2>2 DEF AskInv, SearchAnswersTruly
<1>4. ASSUME NEW s \in Stores, Answer(s) \/ StoreSearchFails(s) PROVE AskInv'
  BY <1>4, AnswerOK
<1>5. CASE FinishSearch
  <2>1. lists' = lists /\ query' = query /\ searched.pc = "searching"
    BY <1>5 DEF FinishSearch
  <2>2. searched'.pc \in {"allFailed", "result"} /\ SearchAnswersTruly'
    <3>1. CASE AllFailed
      BY <1>5, <2>1, <3>1 DEF FinishSearch, AllFailed, SearchAnswersTruly
    <3> QED
      BY <1>5, <3>1, Fusing
  <2> QED
    BY <2>1, <2>2 DEF AskInv, ListOK
<1> QED
  BY <1>1, <1>2, <1>3, <1>4, <1>5 DEF IndexNext, SearchNext, indexVars

(* Upsert's report and Search's answer are true of the stores.             *)
THEOREM StoresKept == IndexSpec => []StoresHonest
<1>1. IndexInit => UpsertInv /\ AskInv
  BY UpsertInit, AskInit
<1>2. UpsertInv /\ AskInv /\ [IndexNext]_indexVars => UpsertInv' /\ AskInv'
  BY UpsertStep, AskStep
<1>3. UpsertInv /\ AskInv => StoresHonest
  BY UpsertInvTrue DEF AskInv, StoresHonest
<1> QED
  BY <1>1, <1>2, <1>3, PTL DEF IndexSpec

-----------------------------------------------------------------------------
(* Types of the index.                                                     *)

(* The tenants' documents: a team is a known one or the sentinel.          *)

(* TenancyTypeOK, and the default team is one the start validated.         *)
TenancyTyped == TenancyTypeOK /\ ValidateTeamID(DefaultTeam)

(* It holds at first: nothing is stored.                                   *)
LEMMA TenancyInitTyped == TenancyInit => TenancyTyped
<1> SUFFICES ASSUME TenancyInit PROVE TenancyTyped
  OBVIOUS
<1>1. mode \in {"enforced", "permissive", "legacy"}
  BY Zenon DEF TenancyInit, ParseMode
<1>2. draft = {} /\ stored = {} /\ hits = NoHits /\ ValidateTeamID(DefaultTeam)
  BY Zenon DEF TenancyInit
<1> QED
  BY <1>1, <1>2 DEF TenancyTypeOK, TenancyTyped, NoHits

(* A document gets a known team; a search finds what is stored.            *)
LEMMA TenancyTypedStep == TenancyTyped /\ [TenancyNext]_tenancyVars => TenancyTyped'
<1> SUFFICES ASSUME TenancyTyped, [TenancyNext]_tenancyVars PROVE TenancyTyped'
  OBVIOUS
<1> USE DEF TenancyTyped, TenancyTypeOK
<1>1. ASSUME NEW metadata \in BOOLEAN, NEW claimed \in Carried,
             Receive(metadata, claimed)
      PROVE  TenancyTyped'
  <2> DEFINE d == [metadata |-> metadata, claimed |-> claimed, team |-> claimed, home |-> ""]
  <2>1. d \in Document
    BY DEF Document, Claimants
  <2>2. draft' = {d} /\ UNCHANGED <<mode, stored, asked, hits>>
    BY <1>1 DEF Receive
  <2> HIDE DEF d
  <2> QED
    BY <2>1, <2>2 DEF ValidateTeamID
<1>2. ASSUME NEW ctx \in Context, InjectTeam(ctx) PROVE TenancyTyped'
  <2> DEFINE team == ExtractTeamID(ctx)
             new(d) == [d EXCEPT !.team = InjectTeamID(d, team),
                                 !.home = IF team = "" THEN @ ELSE team]
  <2>2. \E d \in draft : draft' = {} \/ draft' = {new(d)}
    BY <1>2 DEF InjectTeam
  <2>3. UNCHANGED <<mode, stored, asked, hits>>
    BY <1>2 DEF InjectTeam
  <2>4. ASSUME NEW d \in draft PROVE new(d) \in Document
    BY InjectedTyped
  <2> HIDE DEF team, new
  <2> QED
    BY <2>2, <2>3, <2>4 DEF ValidateTeamID
<1>3. CASE UpsertDoc
  BY <1>3 DEF UpsertDoc, ValidateTeamID
<1>4. ASSUME NEW team, SearchIndex(team) PROVE TenancyTyped'
  BY <1>4 DEF SearchIndex, Shown, ValidateTeamID
<1>5. ASSUME NEW ctx, NEW public, SearchTenant(ctx, public) PROVE TenancyTyped'
  <2>1. mode' = mode /\ draft' = draft /\ stored' = stored
    BY <1>5 DEF SearchTenant
  <2>2. ASSUME NEW s \in PayloadStores PROVE hits'[s] \subseteq stored
    <3> DEFINE F == Shown("qdrant", TenancyFilter(ExtractTeamID(ctx), ctx.user, public))
               G == Shown("meili", BuildMeiliTenancyFilter(ExtractTeamID(ctx), ctx.user, public))
    <3>1. hits' = NoHits \/ hits' = [NoHits EXCEPT !["qdrant"] = F, !["meili"] = G]
      BY <1>5, Zenon DEF SearchTenant
    <3>2. F \subseteq stored /\ G \subseteq stored
      BY DEF Shown
    <3> HIDE DEF F, G
    <3>3. hits'[s] \in {{}, F, G}
      BY <3>1 DEF NoHits, PayloadStores
    <3> QED
      BY <3>2, <3>3
  <2> QED
    BY <2>1, <2>2 DEF ValidateTeamID
<1>6. CASE UNCHANGED tenancyVars
  BY <1>6 DEF tenancyVars, ValidateTeamID
<1> QED
  BY <1>1, <1>2, <1>3, <1>4, <1>5, <1>6 DEF TenancyNext

(* Who is asked is registered.                                             *)
LEMMA Selected ==
    ASSUME NEW q, NEW cat \in Categories_, NEW source, Decide(q, cat, source), names' = names
    PROVE  decision'.cat \in Categories_ /\ decision'.set \subseteq names'
<1>1. decision'.cat = cat /\ decision'.set = SelectAdapterSet(cat, LangFor(q))
  BY DEF Decide
<1>2. SelectAdapterSet(cat, LangFor(q)) \subseteq names
  BY DEF SelectAdapterSet, Matched, Generalists
<1> QED
  BY <1>1, <1>2

(* Rules, the LLM and what is decided without it.                          *)
LEMMA RouterTypedStep == RouterTypeOK /\ [RouterNext \/ ShardNext]_routerVars => RouterTypeOK'
<1> SUFFICES ASSUME RouterTypeOK, [RouterNext \/ ShardNext]_routerVars PROVE RouterTypeOK'
  OBVIOUS
<1>1. ASSUME NEW q \in Queries, Classify(q) PROVE RouterTypeOK'
  <2>1. rules' = PickWinner(Score(q)) /\ names' = names /\ filed' = filed
    BY <1>1 DEF Classify
  <2>2. rules'.conf \in 0..One /\ rules'.cat \in Categories_
    BY <2>1, Scored
  <2>3. Decide(q, rules'.cat, "rule_based") \/ decision' = NoDecision
    BY <1>1 DEF Classify
  <2>4. decision'.cat \in Categories_ /\ decision'.set \subseteq names'
    <3>1. CASE decision' = NoDecision
      BY <3>1 DEF NoDecision, Categories_
    <3> QED
      BY <2>1, <2>2, <2>3, <3>1, Selected
  <2> QED
    BY <2>1, <2>2, <2>4 DEF RouterTypeOK
<1>2. ASSUME NEW cat \in Categories_, NEW q, NEW source, Decide(q, cat, source), UNCHANGED <<names, rules, filed>>
      PROVE  RouterTypeOK'
  BY <1>2, Selected DEF RouterTypeOK
<1>3. ASSUME NEW cat \in Categories_, LLMAnswers(cat) PROVE RouterTypeOK'
  BY <1>2, <1>3 DEF LLMAnswers
<1>4. CASE LLMFails
  <2>1. rules.cat \in Categories_
    BY <1>4 DEF LLMFails, RouterTypeOK
  <2> QED
    BY <1>2, <1>4, <2>1 DEF LLMFails
<1>5. CASE NextQuery
  <2>1. /\ rules' = [cat |-> "none", conf |-> 0] /\ decision' = NoDecision /\ UNCHANGED <<names, filed>>
    BY <1>5 DEF NextQuery
  <2>2. One \in Nat
    BY DEF One
  <2> QED
    BY <2>1, <2>2 DEF RouterTypeOK, NoDecision, Categories_
<1>6. CASE FileDocument
  <2>1. filed'.shards \subseteq {"ko", "default"}
    BY <1>6 DEF FileDocument, IndexShardForDoc
  <2>2. UNCHANGED <<names, rules, decision>>
    BY <1>6 DEF FileDocument
  <2> QED
    BY <2>1, <2>2 DEF RouterTypeOK
<1>7. CASE MergeRRF \/ UNCHANGED routerVars
  <2>1. UNCHANGED <<names, rules, decision, filed>>
    BY <1>7 DEF MergeRRF, routerVars
  <2> QED
    BY <2>1 DEF RouterTypeOK
<1> QED
  BY <1>1, <1>3, <1>4, <1>5, <1>6, <1>7 DEF RouterNext, ShardNext

(* At first nothing is decided.                                            *)
LEMMA RouterInitTyped == RouterInit => RouterTypeOK
<1> SUFFICES ASSUME RouterInit PROVE RouterTypeOK
  OBVIOUS
<1>1. rules = [cat |-> "none", conf |-> 0] /\ decision = NoDecision /\ filed = NoDocument
  BY DEF RouterInit
<1>2. One \in Nat
  BY DEF One
<1> QED
  BY <1>1, <1>2 DEF RouterTypeOK, NoDecision, NoDocument, Categories_

(* Answers: ages stay within the bound, lives within the LRU's.            *)
AskTyped ==
    /\ ask \in [AskIds -> {"idle", "looked", "served", "writing", "done"}]
    /\ outcome \in [AskIds -> {"none", "hit", "soft_hit", "miss", "hard_stale", "bypassed"}]
    /\ asks \in [AskIds -> CacheDocIDs]

(* What a lookup may find.                                                 *)
LEMMA LookupFinds ==
    \A d : CacheLookup(d) \subseteq {"miss", "hit", "soft_hit", "hard_stale"}
<1> SUFFICES ASSUME NEW d PROVE CacheLookup(d) \subseteq {"miss", "hit", "soft_hit", "hard_stale"}
  OBVIOUS
<1>1. OutcomeOf(EvaluateStaleness(answers[d])) \in {"hit", "soft_hit", "hard_stale"}
  BY DEF OutcomeOf, EvaluateStaleness
<1> QED
  BY <1>1 DEF CacheLookup

(* A request's place, its question and what was found of it are typed.     *)
LEMMA AskTypedStep == AskTyped /\ [AnswerNext]_answerVars => AskTyped'
<1> SUFFICES ASSUME AskTyped, [AnswerNext]_answerVars PROVE AskTyped'
  OBVIOUS
<1>1. ASSUME NEW r \in AskIds, LookupWithBypass(r) PROVE AskTyped'
  <2>1. PICK d \in CacheDocIDs : \E o \in {"bypassed"} \cup CacheLookup(d) :
           asks' = [asks EXCEPT ![r] = d] /\ outcome' = [outcome EXCEPT ![r] = o]
    BY <1>1 DEF LookupWithBypass
  <2>2. PICK o \in {"none", "hit", "soft_hit", "miss", "hard_stale", "bypassed"} :
           outcome' = [outcome EXCEPT ![r] = o]
    BY <2>1, LookupFinds
  <2>3. ask' = [ask EXCEPT ![r] = "looked"]
    BY <1>1 DEF LookupWithBypass
  <2> QED
    BY <2>1, <2>2, <2>3 DEF AskTyped
<1>2. ASSUME NEW r \in AskIds, \/ Serve(r) \/ FanoutAnswered(r) \/ WriteBack(r) \/ AskAgain(r)
                               \/ \E t \in AnswerTeams : Feedback(r, t)
      PROVE  AskTyped'
  <2>1. asks' = asks
    BY <1>2 DEF Serve, FanoutAnswered, WriteBack, AskAgain, Feedback
  <2>2. outcome' = outcome \/ outcome' = [outcome EXCEPT ![r] = "none"]
    BY <1>2 DEF Serve, FanoutAnswered, WriteBack, AskAgain, Feedback
  <2>3. ask' = ask \/ \E p \in {"idle", "served", "writing", "done"} : ask' = [ask EXCEPT ![r] = p]
    BY <1>2 DEF Serve, FanoutAnswered, WriteBack, AskAgain, Feedback
  <2> QED
    BY <2>1, <2>2, <2>3 DEF AskTyped
<1>3. CASE AnswerTick
  BY <1>3 DEF AnswerTick, AskTyped
<1>4. CASE UNCHANGED answerVars
  BY <1>4 DEF answerVars, AskTyped
<1> QED
  BY <1>1, <1>2, <1>3, <1>4 DEF AnswerNext

(* The answers' types, with the invariant the ages and lives follow from.  *)
AnswerTyped == AnswerInv /\ AskTyped

(* At first nobody asks anything.                                          *)
LEMMA AnswerInitTyped == AnswerInit => AnswerTyped
<1> SUFFICES ASSUME AnswerInit PROVE AnswerTyped
  OBVIOUS
<1>1. CacheDocIDs # {}
  <2>1. PICK q, t : q \in Asked /\ t \in AnswerTeams
    BY AnswerAssumption
  <2>2. <<q, t>> \in CacheDocIDs
    BY <2>1 DEF CacheDocIDs
  <2> QED
    BY <2>2
<1>2. asks \in [AskIds -> CacheDocIDs]
  BY <1>1 DEF AnswerInit
<1> QED
  BY <1>2, AnswerInitInv DEF AnswerTyped, AskTyped, AnswerInit

(* Every step keeps them.                                                  *)
LEMMA AnswerTypedStep == AnswerTyped /\ [AnswerNext]_answerVars => AnswerTyped'
BY AnswerStep, AskTypedStep DEF AnswerTyped

(* Ages are within the bound, lives within the LRU's.                      *)
LEMMA AnswerTypedOK == AnswerTyped => AnswerTypeOK
<1> SUFFICES ASSUME AnswerTyped PROVE AnswerTypeOK
  OBVIOUS
<1>1. \A d \in CacheDocIDs : answers[d].age \in 0..MaxAge
  BY DEF AnswerTyped, AnswerInv, StaleInv, Stored
<1>2. lru \in Seq(Entry)
  BY DEF AnswerTyped, AnswerInv, MappingInv
<1>3. \A i \in DOMAIN lru : lru[i] \in Entry
  BY <1>2
<1>4. \A i \in DOMAIN lru : lru[i].left \in 0..LRULife
  BY <1>3 DEF Entry
<1> QED
  BY <1>1, <1>4 DEF AnswerTyped, AskTyped, AnswerTypeOK
-----------------------------------------------------------------------------
(* The stores hold copies, the queue positions of jobs.                    *)
StoresTyped == UpsertTypes /\ IndexTypeOK

(* A copy written over another content is a content.                       *)
LEMMA WrittenTyped ==
    ASSUME NEW s, NEW content \in [DocIds -> Copy], NEW w \in Writers, NEW at \in SUBSET Valid(w)
    PROVE  Written(s, content, w, at) \in [DocIds -> Copy]
<1>1. ASSUME NEW id \in DocIds, Of(w, at, id) # {}
      PROVE  Converted(s, Job[w][Max(Of(w, at, id))]) \in Copy
  <2>1. PICK d \in IndexDoc : d = Job[w][Max(Of(w, at, id))]
    <3>1. Max(Of(w, at, id)) \in Valid(w)
      BY <1>1, LastOf DEF Of
    <3> QED
      BY <3>1, Positions
  <2>2. d.version \in Nat /\ d.team \in STRING
    BY DEF IndexDoc
  <2>3. NoTeam \in STRING
    BY IndexAssumption
  <2> QED
    BY <2>1, <2>2, <2>3 DEF Converted, Copy
<1> QED
  BY <1>1 DEF Written

(* What a store is given or Meilisearch runs leaves contents in the stores.*)
HeldTyped == \A s \in Stores : held[s] \in [DocIds -> Copy]
LEMMA AppliedTyped ==
    ASSUME UpsertTypes, HeldTyped, NEW s \in Stores, NEW w \in Writers, NEW at \in SUBSET Valid(w),
           held' = held \/ held' = [held EXCEPT ![s] = Written(s, @, w, at)]
    PROVE  DOMAIN held' = Stores /\ HeldTyped'
<1>1. Written(s, held[s], w, at) \in [DocIds -> Copy]
  BY WrittenTyped DEF HeldTyped
<1> QED
  BY <1>1 DEF UpsertTypes, HeldTyped

(* Every step of writers and of the queue.                                 *)
LEMMA UpsertTypedStep == ASSUME StoresTyped, UpsertNext PROVE StoresTyped'
<1>0. /\ UpsertTypes /\ HeldTyped /\ DOMAIN lists \subseteq Stores
      /\ \A w \in Writers : report[w].failed \subseteq Stores \cup {"validation"}
  BY DEF StoresTyped, IndexTypeOK, HeldTyped
<1>1. ASSUME NEW w \in Writers, StartUpsert(w) PROVE StoresTyped'
  <2>1. UpsertTypes'
    BY <1>0, <1>1 DEF UpsertTypes, StartUpsert
  <2>2. \A v \in Writers : report'[v].failed \subseteq Stores \cup {"validation"}
    BY <1>0, <1>1 DEF UpsertTypes, StartUpsert
  <2>3. held' = held /\ lists' = lists
    BY <1>1 DEF StartUpsert, searchVars
  <2> QED
    BY <1>0, <2>1, <2>2, <2>3 DEF StoresTyped, IndexTypeOK, HeldTyped, UpsertTypes
<1>2. ASSUME NEW w \in Writers, NextBatch(w) PROVE StoresTyped'
  <2>1. from[w] + BulkBatchSize \in Nat \ {0}
    BY <1>0, IndexAssumption DEF UpsertTypes
  <2>2. from' \in [Writers -> Nat \ {0}]
    BY <1>0, <1>2, <2>1 DEF UpsertTypes, NextBatch
  <2>3. awaited' \in [Writers -> SUBSET Stores] /\ wpc' \in [Writers -> {"idle", "writing", "done"}]
    BY <1>0, <1>2 DEF UpsertTypes, NextBatch
  <2>4. held' = held /\ lists' = lists /\ report' = report /\ tasks' = tasks
    BY <1>2 DEF NextBatch, searchVars
  <2> QED
    BY <1>0, <2>2, <2>3, <2>4 DEF StoresTyped, IndexTypeOK, HeldTyped, UpsertTypes
<1>3. ASSUME NEW w \in Writers, NEW s \in Stores, StoreSucceeds(w, s) \/ StoreFails(w, s)
      PROVE  StoresTyped'
  <2>1. Outcome(w, s)
    BY <1>0, <1>3, Outcomes
  <2>2. Batch(w) \in SUBSET Valid(w)
    BY <1>0, BatchFollows DEF UpsertTypes
  <2> DEFINE t == [writer |-> w, at |-> Batch(w)]
  <2>3. t \in Task
    BY <2>2, Positions DEF Task
  <2>4. tasks' = tasks \/ tasks' = Append(tasks, t)
    BY <2>1 DEF Outcome, Apply
  <2>5. held' = held \/ held' = [held EXCEPT ![s] = Written(s, @, w, Batch(w))]
    BY <2>1 DEF Outcome, Apply
  <2>6. DOMAIN held' = Stores /\ HeldTyped'
    BY <1>0, <2>2, <2>5, AppliedTyped
  <2> HIDE DEF t
  <2>7. tasks' \in Seq(Task)
    BY <1>0, <2>3, <2>4, Appended DEF UpsertTypes
  <2>8. awaited' \in [Writers -> SUBSET Stores] /\ wpc' = wpc /\ from' = from
    BY <1>0, <2>1 DEF Outcome, UpsertTypes
  <2>9. \A v \in Writers : report'[v].failed \subseteq Stores \cup {"validation"}
    BY <1>0, <2>1 DEF Outcome
  <2>10. lists' = lists
    BY <1>3 DEF StoreSucceeds, StoreFails, searchVars
  <2>11. DOMAIN report' = Writers /\ \A v \in Writers : "failed" \in DOMAIN report'[v]
    BY <1>0, <2>1 DEF Outcome, UpsertTypes
  <2> QED
    BY <1>0, <2>6, <2>7, <2>8, <2>9, <2>10, <2>11 DEF StoresTyped, IndexTypeOK, HeldTyped, UpsertTypes
<1>4. CASE RunTask
  <2> DEFINE t == Head(tasks)
  <2>1. tasks \in Seq(Task) /\ tasks # <<>> /\ tasks' = Tail(tasks)
    BY <1>0, <1>4 DEF UpsertTypes, RunTask
  <2>2. t \in Task /\ Tail(tasks) \in Seq(Task)
    BY <2>1
  <2>3. held' = held \/ held' = [held EXCEPT !["meili"] = Written("meili", @, t.writer, t.at)]
    BY <1>4 DEF RunTask
  <2>4. t.writer \in Writers /\ t.at \in SUBSET Valid(t.writer) /\ "meili" \in Stores
    BY <2>2 DEF Task, Stores
  <2> HIDE DEF t
  <2>5. DOMAIN held' = Stores /\ HeldTyped'
    BY <1>0, <2>3, <2>4, AppliedTyped
  <2>6. lists' = lists /\ wpc' = wpc /\ from' = from /\ awaited' = awaited /\ report' = report
    BY <1>4 DEF RunTask, searchVars
  <2> QED
    BY <1>0, <2>1, <2>2, <2>5, <2>6 DEF StoresTyped, IndexTypeOK, HeldTyped, UpsertTypes
<1> QED
  BY <1>1, <1>2, <1>3, <1>4 DEF UpsertNext

(* A search writes no store; only stores answer it.                        *)
LEMMA StoresTypedStep == StoresTyped /\ [IndexNext]_indexVars => StoresTyped'
<1> SUFFICES ASSUME StoresTyped, [IndexNext]_indexVars PROVE StoresTyped'
  OBVIOUS
<1>1. CASE SearchNext
  <2>1. UNCHANGED <<held, tasks, wpc, from, awaited, report, taskFailed>>
    BY <1>1 DEF SearchNext, StartSearch, FinishSearch, Answer, StoreSearchFails, StoreAnswers, upsertVars
  <2>2. DOMAIN lists' \subseteq Stores
    <3>1. lists' = lists \/ \E s \in Stores : DOMAIN lists' = DOMAIN lists \cup {s}
      BY <1>1 DEF SearchNext, StartSearch, FinishSearch, Answer, StoreSearchFails, StoreAnswers
    <3> QED
      BY <3>1 DEF StoresTyped, IndexTypeOK
  <2> QED
    BY <2>1, <2>2 DEF StoresTyped, IndexTypeOK, UpsertTypes
<1>2. CASE UNCHANGED indexVars
  <2>1. UNCHANGED <<held, tasks, wpc, from, awaited, report, taskFailed, lists>>
    BY <1>2 DEF indexVars, upsertVars, searchVars
  <2> QED
    BY <2>1 DEF StoresTyped, IndexTypeOK, UpsertTypes
<1> QED
  BY <1>1, <1>2, UpsertTypedStep DEF IndexNext

(* At first the stores hold nothing.                                       *)
LEMMA StoresInitTyped == IndexInit => StoresTyped
<1> SUFFICES ASSUME IndexInit PROVE StoresTyped
  OBVIOUS
<1>1. UpsertTypes
  BY UpsertInit DEF UpsertInv
<1>2. NoDoc \in Copy
  <2>1. NoTeam \in STRING
    BY IndexAssumption
  <2> QED
    BY <2>1 DEF NoDoc, Copy
<1>3. \A s \in Stores : held[s] \in [DocIds -> Copy]
  BY <1>2 DEF IndexInit
<1>4. \A w \in Writers : report[w].failed = {}
  BY DEF IndexInit, NoReport
<1>5. DOMAIN lists = {}
  BY DEF IndexInit
<1> QED
  BY <1>1, <1>3, <1>4, <1>5 DEF StoresTyped, IndexTypeOK, UpsertTypes
=============================================================================
