----------------------------- MODULE MCService ------------------------------
(* The serving side for TLC: a search and its routing, the MCP server, the *)
(* index with its tenancy and answer cache, the CLI's history, the audit   *)
(* trail, authentication and team membership. In the model they share no   *)
(* state (a store, a table or a header is each part's own), so a behaviour *)
(* runs one of them, "focus"; the others keep one initial state.           *)
EXTENDS SearchPipeline, IntentRouter, McpServer, IndexStores, Tenancy,
        AnswerCache, HistoryStore, AuditTrail, AuthGate, TeamMembers

CONSTANTS r1, c1, c2, d1, d2, d3, h1, h2   \* model values
VARIABLE focus

(* search and routing                                                      *)
MCSourceOf == [d \in {"d1", "d2"} |-> IF d = "d1" THEN "a" ELSE "b"]
MCAnswers == {<<>>, << <<1>> >>, << <<2, 1, 2>>, <<>> >>, << <<1>>, <<1>> >>}
MCCaps == [n \in {"hn", "naver", "arxiv", "searxng"} |->
    CASE n = "hn" -> [types |-> {"post"}, langs |-> {"en"}]
      [] n = "naver" -> [types |-> {"article", "post"}, langs |-> {"ko"}]
      [] n = "arxiv" -> [types |-> {"paper"}, langs |-> {"en"}]
      [] OTHER -> [types |-> {"article", "other"}, langs |-> {}]]
MCLangTags == [t \in {"ko", "en", "zh-Hant", "zh-Hant-TW"} |->
    CASE t = "zh-Hant" -> 7 [] t = "zh-Hant-TW" -> 10 [] OTHER -> 2]
MCShardDocs == {[id |-> 1, hash |-> 1], [id |-> 2, hash |-> 1], [id |-> 3, hash |-> 0]}
MCHangul == {0, 5, 10, 15, 20, 25, 30, 40, 45, 60, 100}

(* the index: two upserts of one document, and what a search may find      *)
MCDoc(i, v, t, ok) == [id |-> i, version |-> v, team |-> t, valid |-> ok]
MCJob == [w \in {"w1", "w2"} |->
    IF w = "w1" THEN <<MCDoc(1, 1, "a", TRUE), MCDoc(2, 2, "b", TRUE)>>
    ELSE <<MCDoc(1, 1, "b", FALSE), MCDoc(1, 2, "b", TRUE)>>]
MCIndexQueries == {[team |-> "a", max |-> 1, empty |-> FALSE],
                   [team |-> "no team", max |-> 0, empty |-> TRUE]}
MCWeights == [s \in {"qdrant", "meili"} |-> IF s = "qdrant" THEN 2 ELSE 0]
MCCopy(v, t) == [version |-> v, team |-> t]
(* A bound: at most two writes to the stores fail.                        *)
FewFailures == report'["w1"].errors + report'["w2"].errors <= 2
(* Bounds: a behaviour ends with its search over the tenants' documents,   *)
(* which leaves them alone; a trail has rows or a chain of hashes.         *)
OneSearch == asked = NotAsked /\ (asked' # asked => draft = {})
RowsOrChain == rows' = <<>> \/ chain' = <<>>
(* The stores' teams are strings: true of any literals, for the proofs.    *)
ASSUME TeamNames == {"a", "b"} \subseteq STRING
Filled ==
    /\ held \in [Stores -> [DocIds -> {MCCopy(0, NoTeam), MCCopy(1, "a"), MCCopy(2, "b"), MCCopy(1, NoTeam)}]]
    /\ \A d \in DocIds : /\ held["qdrant"][d] # MCCopy(1, NoTeam)
                         /\ \A s \in Stores \ {"qdrant"} : held[s][d].team = NoTeam
    /\ tasks = <<>> /\ taskFailed = {}
    /\ wpc = [w \in Writers |-> "done"] /\ from = [w \in Writers |-> 1]
    /\ awaited = [w \in Writers |-> {}]
    /\ report = [w \in Writers |-> [NoReport EXCEPT !.failed = Stores]]
    /\ query = NoIndexQuery /\ lists = [s \in {} |-> {}] /\ searched = [pc |-> "idle"]

(* answers, members                                                        *)
MCCategories == [c \in {"web"} |-> 2]
MCThreshold == [t \in {"a", "b"} |-> IF t = "a" THEN 92 ELSE 50]
MCMembers == {[user |-> "ann", role |-> "role_member", team |-> "x"],
              [user |-> "bob", role |-> "role_observer", team |-> "x"],
              [user |-> "ann", role |-> "role_observer", team |-> ""]}

serviceVars == <<focus, pipeVars, routerVars, mcpVars, indexVars,
                 tenancyVars, answerVars, historyVars,
                 auditVars, authVars, memberVars>>

ServiceInit ==
    /\ focus \in {"pipeline", "router", "shards", "merge", "sessions", "deep", "upserts",
                  "search", "tenancy", "answers", "history", "async", "reconcile",
                  "retention", "replay", "auth", "limits", "members"}
    /\ PipeInit /\ McpInit /\ AnswerInit /\ HistoryInit /\ AuditInit /\ MembersInit
    /\ RouterInit /\ (focus # "router" => names = DOMAIN Caps)
    /\ IF focus = "search" THEN Filled ELSE IndexInit
    /\ TenancyInit /\ (focus # "tenancy" => mode = "enforced")
    /\ AuthInit
    /\ focus # "auth" => /\ setting.mode = "strict" /\ setting.revocation = "off"
                         /\ \A t \in AuthTokens : exp[t] = 1
    /\ focus # "limits" => setting.limiter = "memory"

ServiceNext == UNCHANGED focus /\
    (\/ /\ focus = "pipeline" /\ PipeNext
        /\ UNCHANGED <<routerVars, mcpVars, indexVars, tenancyVars, answerVars,
                       historyVars, auditVars, authVars, memberVars>>
     \/ /\ \/ focus = "router" /\ RouterNext
           \/ focus = "shards" /\ FileDocument
           \/ focus = "merge" /\ MergeRRF
        /\ UNCHANGED <<pipeVars, mcpVars, indexVars, tenancyVars, answerVars,
                       historyVars, auditVars, authVars, memberVars>>
     \/ /\ \/ focus = "sessions" /\ SessionNext
           \/ focus = "deep" /\ DeepNext
        /\ UNCHANGED <<pipeVars, routerVars, indexVars, tenancyVars,
                       answerVars, historyVars, auditVars, authVars,
                       memberVars>>
     \/ /\ \/ focus = "upserts" /\ UpsertNext /\ FewFailures
           \/ focus = "search" /\ SearchNext
        /\ UNCHANGED <<pipeVars, routerVars, mcpVars, tenancyVars, answerVars,
                       historyVars, auditVars, authVars, memberVars>>
     \/ /\ focus = "tenancy" /\ TenancyNext /\ OneSearch
        /\ UNCHANGED <<pipeVars, routerVars, mcpVars, indexVars, answerVars,
                       historyVars, auditVars, authVars, memberVars>>
     \/ /\ focus = "answers" /\ AnswerNext
        /\ UNCHANGED <<pipeVars, routerVars, mcpVars, indexVars, tenancyVars,
                       historyVars, auditVars, authVars, memberVars>>
     \/ /\ \/ focus = "history" /\ FileNext
           \/ focus = "async" /\ AsyncNext
        /\ UNCHANGED <<pipeVars, routerVars, mcpVars, indexVars, tenancyVars,
                       answerVars, auditVars, authVars, memberVars>>
     \/ /\ \/ focus = "reconcile" /\ ReconcileNext
           \/ focus = "retention" /\ RetentionNext
           \/ focus = "replay" /\ ReplayNext /\ RowsOrChain
        /\ UNCHANGED <<pipeVars, routerVars, mcpVars, indexVars, tenancyVars,
                       answerVars, historyVars, authVars, memberVars>>
     \/ /\ \/ focus = "auth" /\ AuthTokenNext
           \/ focus = "limits" /\ LimitNext
        /\ UNCHANGED <<pipeVars, routerVars, mcpVars, indexVars, tenancyVars,
                       answerVars, historyVars, auditVars, memberVars>>
     \/ /\ focus = "members" /\ MembersNext
        /\ UNCHANGED <<pipeVars, routerVars, mcpVars, indexVars, tenancyVars,
                       answerVars, historyVars, auditVars, authVars>>)

ServiceSpec == ServiceInit /\ [][ServiceNext]_serviceVars

-----------------------------------------------------------------------------
(* The type invariants of the parts.                                       *)
ServiceTypesOK ==
    /\ PipeTypeOK /\ RouterTypeOK /\ McpTypeOK /\ IndexTypeOK /\ TenancyTypeOK
    /\ AnswerTypeOK /\ HistoryTypeOK /\ AuditTypeOK /\ AuthTypeOK /\ MembersTypeOK

(* What each surface answers is what its search found: documents of the    *)
(* sources it was asked about, an exit code or status that fits (query.go, *)
(* api_handlers.go), a deep_research pipeline that ran was charged once,   *)
(* and its call and every other the cap store did not fail has its audit   *)
(* line (deep_research.go).                                                *)
SurfacesHonest == PipelineHonest /\ DeepAccounted

(* Who is let in: a token only while it is sound and not revoked, a caller *)
(* and a tenant within their rates (internal/auth, internal/ratelimit),    *)
(* and a team's members are those the administrators' answers say (rbac).  *)
AccessSound == GateSound /\ MembershipKept
=============================================================================
