----------------------------- MODULE MCSources ------------------------------
(* Where documents come from, for TLC: the content fetcher, the adapters'  *)
(* searches and what they wait for, the Korean news adapter, and the       *)
(* adapter registry. They share no state, so a behaviour runs one of them, *)
(* "focus", while the rest keep one initial state.                         *)
EXTENDS AccessFetch, Adapters, AdapterWaits, KoreaNews, AdapterRegistry

CONSTANTS f1, f2     \* the calls of Fetch
VARIABLE focus

(* Bounds: f1 alone has options or a context that ends, and the robots     *)
(* entry expires once f1 is past it; searches reach one adapter of the     *)
(* registry, and the others are healthy.                                   *)
FewExtras ==
    /\ skip'[f2] = {} /\ ~ctxDone'[f2] /\ (skip'[f1] = {} \/ ~ctxDone'[f1])
    /\ robots' = "unknown" => robots = "unknown" \/ Len(attempts[f1]) = 2
OneSearched == \A n \in ProbedSources \ {"s"} : calls'[n] = calls[n]

MCCorpora == UNION {[1..n -> {"linked"}] : n \in 0..6} \cup UNION {[1..n -> Items] : n \in 1..3}

sourcesVars == <<focus, vars, adapterVars, waitsVars, newsVars, registryVars>>

SourcesInit ==
    /\ focus \in {"fetcher", "adapter", "reddit", "arxiv", "feed", "news", "registry"}
    /\ Init /\ WaitsInit
    /\ AdaptersInit /\ (focus # "adapter" =>
                           source = "hackernews" /\ corpus = <<>> /\ ask = 0 /\ ~blank)
    /\ NewsInit /\ (focus # "news" => \A o \in DOMAIN nopts : nopts[o])
    /\ RegistryInit /\ \A n \in ProbedSources : n # "s" \/ focus # "registry" => health[n] = "healthy"

SourcesNext == UNCHANGED focus /\
    (\/ /\ focus = "fetcher" /\ Next /\ FewExtras
        /\ UNCHANGED <<adapterVars, waitsVars, newsVars, registryVars>>
     \/ /\ focus = "adapter" /\ AdaptersNext
        /\ UNCHANGED <<vars, waitsVars, newsVars, registryVars>>
     \/ /\ \/ focus = "reddit" /\ RedditNext
           \/ focus = "arxiv" /\ ArxivNext
           \/ focus = "feed" /\ FeedNext
        /\ UNCHANGED <<vars, adapterVars, newsVars, registryVars>>
     \/ /\ focus = "news" /\ NewsNext
        /\ UNCHANGED <<vars, adapterVars, waitsVars, registryVars>>
     \/ /\ focus = "registry" /\ RegistryNext /\ OneSearched
        /\ UNCHANGED <<vars, adapterVars, waitsVars, newsVars>>)

(* AccessFetch's Fairness, for the behaviours that run the fetcher.        *)
FetcherRuns == focus = "fetcher" /\ UNCHANGED <<focus, adapterVars, waitsVars, newsVars, registryVars>>
SourcesFairness ==
    /\ \A f \in Fetches :
          /\ WF_vars(FetcherRuns /\ Cascade(f)) /\ WF_vars(FetcherRuns /\ PoolTimeout(f))
          /\ WF_vars(FetcherRuns /\ (Rendered(f) \/ Discard(f) \/ Refill(f)))
          /\ WF_vars(FetcherRuns /\ UpsertDone(f))
    /\ WF_vars(FetcherRuns /\ Drain)

SourcesSpec == SourcesInit /\ [][SourcesNext]_sourcesVars /\ SourcesFairness

-----------------------------------------------------------------------------
(* The type invariants of the parts.                                       *)
SourcesTypesOK ==
    TypeOK /\ AdaptersTypeOK /\ WaitsTypeOK /\ NewsTypeOK /\ RegistryTypeOK

(* The adapters' searches: following the cursors gets every document of a  *)
(* corpus once and links it where the service does; an error's category    *)
(* says whose fault it was; and the Korean news adapter loses nothing its  *)
(* answering sub-sources had.                                              *)
AdaptersSound == PagesSound /\ ErrorsTellWhoseFault /\ NewsWhole

=============================================================================
