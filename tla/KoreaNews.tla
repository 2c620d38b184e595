------------------------------ MODULE KoreaNews ------------------------------
(***************************************************************************)
(* The Korean-news adapter: one Search over three sub-sources in turn, the *)
(* RSS feeds fetched in parallel, then the KNC sidecar, then Daum, which   *)
(* always fails; what they found merged, deduplicated and sorted. Feeds,   *)
(* sidecar and the caller's context are external.                          *)
(***************************************************************************)
EXTENDS Integers, Sequences, FiniteSets, SequencesExt, FiniteSetsExt, Subsequences

CONSTANTS Feeds,            \* positions in RSSFeeds, 1..n
          MaxParallelFeeds,
          Pages             \* the articles there are, by canonical address

ASSUME KoreaNewsAssumption ==
    /\ MaxParallelFeeds \in Nat \ {0}
    /\ IsFiniteSet(Feeds) /\ Feeds # {} /\ Feeds = 1..Cardinality(Feeds)

(* An item as a source lists it: without a link, an article that does not  *)
(* match the query, or one that does, under its plain address or with      *)
(* tracking parameters that canonicalizeURL removes.                       *)
Variants == {"plain", "tracked"}
NoLink == [page |-> "none", variant |-> "plain", match |-> TRUE]
NewsItems == {NoLink} \cup [page : Pages, variant : Variants, match : BOOLEAN]
Contents == {<<>>} \cup {<<i>> : i \in NewsItems}

VARIABLES nopts,     \* Options: rss, feeds configured, knc, daum; and the query blank or not
          nctx,      \* the caller's context: "live", "deadline" or "cancelled"
          npc,
          feedState, \* feed -> "queued", "fetching", "ok", "failed"
          feedDocs,  \* feed -> results[i]
          allDocs, firstErr, anySuccess,
          found,     \* history: what the sub-sources that answered had for the query
          newsAnswer     \* [err, docs]

newsVars == <<nopts, nctx, npc, feedState, feedDocs, allDocs, firstErr, anySuccess, found, newsAnswer>>

NoErr == "none"
Nothing == [err |-> NoErr, docs |-> {}]

NewsInit ==
    /\ nopts \in [rss : BOOLEAN, feeds : BOOLEAN, knc : BOOLEAN, daum : BOOLEAN, blank : BOOLEAN]
    /\ nctx = "live" /\ npc = "start"
    /\ feedState = [f \in Feeds |-> "queued"] /\ feedDocs = [f \in Feeds |-> <<>>]
    /\ allDocs = <<>> /\ firstErr = NoErr /\ anySuccess = FALSE /\ found = {}
    /\ newsAnswer = Nothing

-----------------------------------------------------------------------------
(* Items without a link are skipped; RSS items are matched against the     *)
(* query here, the sidecar's articles were by the sidecar.                 *)
FeedItemsToDocs(items) == KeepAt(items, {i \in DOMAIN items : items[i].page # "none" /\ items[i].match})
KncArticlesToDocs(articles) == KeepAt(articles, {i \in DOMAIN articles : articles[i].page # "none"})

(* dedupDocs keeps the first document of each canonical address. The sort  *)
(* that follows orders by Score, which is 0.5 for every document.          *)
CanonicalKey(doc) == doc.page
DedupNews(docs) ==
    {docs[i] : i \in {j \in DOMAIN docs :
                        \A k \in 1..(j - 1) : CanonicalKey(docs[k]) # CanonicalKey(docs[j])}}

FirstError(e) == IF firstErr = NoErr THEN e ELSE firstErr
Answered(e, docs) == npc' = "done" /\ newsAnswer' = [err |-> e, docs |-> docs]

CallerGivesUp ==
    /\ nctx = "live" /\ npc # "done" /\ nctx' \in {"deadline", "cancelled"}
    /\ UNCHANGED <<nopts, npc, feedState, feedDocs, allDocs, firstErr, anySuccess, found, newsAnswer>>

Refused == nopts.blank \/ (nopts.rss /\ ~nopts.feeds)
RefuseNews ==
    /\ npc = "start" /\ Refused /\ Answered("permanent", {})
    /\ UNCHANGED <<nopts, nctx, feedState, feedDocs, allDocs, firstErr, anySuccess, found>>

(* searchRSS is not entered at all when the context has ended by then: it  *)
(* returns neither documents nor errors.                                   *)
EnterRSS ==
    /\ npc = "start" /\ ~Refused
    /\ npc' = IF nopts.rss /\ nctx = "live" THEN "rss" ELSE "knc"
    /\ UNCHANGED <<nopts, nctx, feedState, feedDocs, allDocs, firstErr, anySuccess, found, newsAnswer>>

Fetching == {f \in Feeds : feedState[f] = "fetching"}
FetchFeed(f) ==
    /\ npc = "rss" /\ feedState[f] = "queued" /\ Cardinality(Fetching) < MaxParallelFeeds
    /\ \A g \in Feeds : g < f => feedState[g] # "queued"      \* g.Go in the order of the feeds
    /\ feedState' = [feedState EXCEPT ![f] = "fetching"]
    /\ UNCHANGED <<nopts, nctx, npc, feedDocs, allDocs, firstErr, anySuccess, found, newsAnswer>>
FeedAnswers(f) ==
    /\ npc = "rss" /\ feedState[f] = "fetching" /\ nctx = "live"
    /\ \E items \in Contents :
          /\ feedDocs' = [feedDocs EXCEPT ![f] = FeedItemsToDocs(items)]
          /\ found' = found \cup {CanonicalKey(d) : d \in Range(FeedItemsToDocs(items))}
    /\ feedState' = [feedState EXCEPT ![f] = "ok"]
    /\ UNCHANGED <<nopts, nctx, npc, allDocs, firstErr, anySuccess, newsAnswer>>
(* An HTTP or parse error, the per-feed timeout, or the ended context; the *)
(* other feeds go on.                                                      *)
FeedFails(f) ==
    /\ npc = "rss" /\ feedState[f] = "fetching"
    /\ feedState' = [feedState EXCEPT ![f] = "failed"]
    /\ UNCHANGED <<nopts, nctx, npc, feedDocs, allDocs, firstErr, anySuccess, found, newsAnswer>>

(* Feeds that answered without a match count neither as a success nor as   *)
(* an error.                                                               *)
JoinFeeds ==
    /\ npc = "rss" /\ \A f \in Feeds : feedState[f] \in {"ok", "failed"}
    /\ allDocs' = FlattenSeq([f \in Feeds |-> feedDocs[f]])
    /\ anySuccess' = (allDocs' # <<>>)
    /\ firstErr' = FirstError(IF allDocs' = <<>> /\ \E f \in Feeds : feedState[f] = "failed"
                              THEN "transient" ELSE NoErr)
    /\ npc' = "knc"
    /\ UNCHANGED <<nopts, nctx, feedState, feedDocs, found, newsAnswer>>

(* The sidecar: unreachable or 503 is "unavailable", anything else         *)
(* unexpected "transient"; after the context has ended it is unreachable.  *)
AskKNC ==
    /\ npc = "knc" /\ npc' = "daum"
    /\ \/ ~nopts.knc /\ UNCHANGED <<allDocs, firstErr, anySuccess, found>>
       \/ /\ nopts.knc /\ nctx = "live"
          /\ \E articles \in Contents :
                /\ allDocs' = allDocs \o KncArticlesToDocs(articles)
                /\ found' = found \cup {CanonicalKey(d) : d \in Range(KncArticlesToDocs(articles))}
          /\ anySuccess' = TRUE /\ UNCHANGED firstErr
       \/ /\ nopts.knc /\ \E e \in {"unavailable", "transient"} :
                             /\ e = "transient" => nctx = "live"
                             /\ firstErr' = FirstError(e)
          /\ UNCHANGED <<allDocs, anySuccess, found>>
    /\ UNCHANGED <<nopts, nctx, feedState, feedDocs, newsAnswer>>

AskDaum ==
    /\ npc = "daum" /\ npc' = "merge"
    /\ firstErr' = IF nopts.daum THEN FirstError("permanent") ELSE firstErr
    /\ UNCHANGED <<nopts, nctx, feedState, feedDocs, allDocs, anySuccess, found, newsAnswer>>

FinishNews ==
    /\ npc = "merge"
    /\ \/ /\ ~anySuccess /\ firstErr # NoErr /\ Answered(firstErr, {})
       \/ /\ anySuccess \/ firstErr = NoErr
          /\ \/ nctx = "deadline" /\ Answered("transient", {})
             \/ nctx = "cancelled" /\ Answered("unavailable", {})
             \/ nctx = "live" /\ Answered(NoErr, DedupNews(allDocs))
    /\ UNCHANGED <<nopts, nctx, feedState, feedDocs, allDocs, firstErr, anySuccess, found>>

NewsNext == \/ CallerGivesUp \/ RefuseNews \/ EnterRSS \/ JoinFeeds \/ AskKNC \/ AskDaum \/ FinishNews
            \/ \E f \in Feeds : FetchFeed(f) \/ FeedAnswers(f) \/ FeedFails(f)
NewsSpec == NewsInit /\ [][NewsNext]_newsVars

-----------------------------------------------------------------------------
NewsTypeOK ==
    /\ nctx \in {"live", "deadline", "cancelled"}
    /\ npc \in {"start", "rss", "knc", "daum", "merge", "done"}
    /\ Cardinality(Fetching) <= MaxParallelFeeds
    /\ Range(allDocs) \subseteq NewsItems
    /\ newsAnswer.err \in {NoErr, "permanent", "transient", "unavailable"} /\ newsAnswer.docs \subseteq NewsItems

(* Search (search.go): an answer without an error has every article a      *)
(* sub-source found for the query, each of them once, whatever failed      *)
(* beside it; and an empty one never hides that all that was asked failed. *)
NewsWhole ==
    npc = "done" /\ newsAnswer.err = NoErr =>
        /\ {CanonicalKey(d) : d \in newsAnswer.docs} = found
        /\ Cardinality(newsAnswer.docs) = Cardinality(found)
        /\ newsAnswer.docs = {} =>
              \/ anySuccess
              \/ ~nopts.knc /\ ~nopts.daum /\ \A f \in Feeds : feedState[f] # "failed"
=============================================================================
