------------------------------- MODULE Adapters -------------------------------
(***************************************************************************)
(* The source adapters (internal/adapters): a caller asks one adapter for  *)
(* a page of results, and may ask again with the cursor it finds in the    *)
(* last document. Each adapter has its own rules for what it refuses, for  *)
(* the error it makes of a response, for the items it drops and for the    *)
(* cursor it hands out. The services behind them are external: they keep a *)
(* list of items and serve it page by page.                                *)
(***************************************************************************)
EXTENDS Integers, Sequences, FiniteSets, SequencesExt, FiniteSetsExt, Subsequences

CONSTANTS Corpora,          \* the lists of items a service may hold
          Asks,             \* Query.MaxResults of the callers
          DefaultResults, MaxResults,   \* 25 and 100 in the code
          NaverLastStart,   \* 1000 in the code
          ServicePage,      \* the page of the services that take no limit
          XEnabled          \* USEARCH_X_ENABLED is "true" and a provider is set

Sources == {"hackernews", "github code", "github issues", "github repos", "github commits",
            "arxiv", "reddit", "reddit-rss", "youtube", "naver blog", "naver news", "naver web",
            "naver shop", "naver datalab", "searxng", "bluesky", "x-official", "twitterapi",
            "threads", "facebook"}
(* An item: one the parser keeps, one it keeps although the service gave   *)
(* no link for it, one it drops.                                           *)
Items == {"linked", "unlinked", "dropped"}

ASSUME AdaptersAssumption ==
    /\ Corpora \subseteq Seq(Items) /\ Asks \subseteq Int
    /\ {DefaultResults, MaxResults, ServicePage, NaverLastStart} \subseteq Nat \ {0}
    /\ DefaultResults <= MaxResults

VARIABLES source, corpus, ask,
          blank,    \* Query.Text holds nothing but space
          cursor,   \* Query.Cursor of the next call
          got,      \* the documents of the pages so far
          walk,     \* ready, done, refused or failed
          category, \* of the last error
          answer    \* the response that error was made of

adapterVars == <<source, corpus, ask, blank, cursor, got, walk, category, answer>>

NoCursor == -1     \* the empty string; every other cursor is a number or a token

-----------------------------------------------------------------------------
(* Page sizes.                                                             *)
LimitOrDefault(n) == IF n <= 0 THEN DefaultResults ELSE Min({n, MaxResults})
HNLimit(n) == IF n = 0 THEN DefaultResults ELSE Max({1, Min({n, MaxResults})})
RedditLimit(n) == HNLimit(n)
NaverDisplay(n) == HNLimit(n)
ThreadsLimit(n) == HNLimit(n)
ArxivLimit(n) == LimitOrDefault(n)
Limit(s) ==
    CASE s = "hackernews" -> HNLimit(ask)
      [] s = "reddit" -> RedditLimit(ask)
      [] s \in {"naver blog", "naver news", "naver web", "naver shop"} -> NaverDisplay(ask)
      [] s = "threads" -> ThreadsLimit(ask)
      [] s = "arxiv" -> ArxivLimit(ask)
      [] s \in {"searxng", "twitterapi", "naver datalab", "reddit-rss"} -> ServicePage
      [] OTHER -> LimitOrDefault(ask)

(* What the service returns from an offset on.                             *)
Window(offset, n) == [i \in 1..Max({0, Min({n, Len(corpus) - offset})}) |-> offset + i]
Kept(page) == KeepAt(page, {k \in DOMAIN page : corpus[page[k]] # "dropped"})
Doc(i, url) == [item |-> i, url |-> url]
Docs(page, Url(_)) == [i \in DOMAIN page |-> Doc(page[i], Url(page[i]))]
LinkOnly(i) == IF corpus[i] = "unlinked" THEN "" ELSE "link"
LinkOr(i, own) == IF corpus[i] = "unlinked" THEN own ELSE "link"
(* Most adapters put the cursor into the last document that they keep.     *)
OnLast(docs, next) == IF docs = <<>> THEN NoCursor ELSE next

-----------------------------------------------------------------------------
(* One operator per parser: the documents of the page at a cursor and the  *)
(* cursor to the next one.                                                 *)
HNHitUrl(i) == LinkOr(i, "item page")
HNPage_FromOne(c, n) ==
    LET page == Max({c, 0})
        docs == Docs(Kept(Window(page * n, n)), HNHitUrl)
    IN  [docs |-> docs, next |-> OnLast(docs, IF (page + 1) * n < Len(corpus) THEN Max({page, 1}) + 1 ELSE NoCursor)]
HNPage(c, n) ==
    LET page == Max({c, 0})
        docs == Docs(Kept(Window(page * n, n)), HNHitUrl)
    IN  [docs |-> docs, next |-> OnLast(docs, IF (page + 1) * n < Len(corpus) THEN page + 1 ELSE NoCursor)]

(* GitHub: the cursor goes with the last item of the page, so it is lost   *)
(* when that one is dropped. Only commits have a link of their own.        *)
GitHubPage(c, n, own) ==
    LET number == IF c = NoCursor THEN 1 ELSE c
        page == Window((number - 1) * n, n)
        kept == page # <<>> /\ corpus[Last(page)] # "dropped"
    IN  [docs |-> Docs(Kept(page), LAMBDA i : LinkOr(i, own)),
         next |-> IF kept /\ number * n < Len(corpus) THEN number + 1 ELSE NoCursor]
GitHubCode(c, n) == GitHubPage(c, n, "")
GitHubIssues(c, n) == GitHubPage(c, n, "")
GitHubRepos(c, n) == GitHubPage(c, n, "")
GitHubCommitUrl == "repository and sha"
GitHubCommits(c, n) == GitHubPage(c, n, GitHubCommitUrl)

(* arXiv drops nothing; an entry's id is its link.                         *)
ArxivUrl(i) == "link"
ArxivPage(c, n) ==
    LET start == Max({c, 0})
        page == Window(start, n)
    IN  [docs |-> Docs(page, ArxivUrl),
         next |-> IF page # <<>> /\ start + Len(page) < Len(corpus) THEN start + Len(page) ELSE NoCursor]

RedditPostUrl(i) == "permalink"
RedditPage(c, n) ==
    LET after == Max({c, 0})
        docs == Docs(Kept(Window(after, n)), RedditPostUrl)
    IN  [docs |-> docs, next |-> OnLast(docs, IF after + n < Len(corpus) THEN after + n ELSE NoCursor)]

(* A feed has one page; an item without a link is dropped.                 *)
RedditFeed(c, n) ==
    [docs |-> Docs(KeepAt(Window(0, Len(corpus)), {i \in DOMAIN corpus : corpus[i] = "linked"}), LinkOnly),
     next |-> NoCursor]

YouTubeUrl(i) == LinkOnly(i)
YouTubePage(c, n) ==
    LET offset == Max({c, 0})
        page == Window(offset, n)
        docs == Docs(Kept(page), YouTubeUrl)
        more == offset + n < Len(corpus)
        next == offset + Len(page)
    IN  [docs |-> docs, next |-> OnLast(docs, IF more /\ next < MaxResults THEN next ELSE NoCursor)]

NaverNextCursor(start, display) ==
    LET next == start + display
    IN  IF next > NaverLastStart \/ next > Len(corpus) THEN NoCursor ELSE next
NaverStart(c) == IF c < 1 THEN 1 ELSE c
NaverPage(c, n, own) ==
    LET page == Window(NaverStart(c) - 1, n)
        docs == Docs(page, LAMBDA i : LinkOr(i, own))
    IN  [docs |-> docs, next |-> OnLast(docs, NaverNextCursor(NaverStart(c), Len(page)))]
NaverBlog(c, n) == NaverPage(c, n, "")
NaverNewsUrl == "naver's copy"
NaverNews(c, n) == NaverPage(c, n, NaverNewsUrl)
NaverWeb(c, n) == NaverPage(c, n, "")
NaverShop(c, n) == NaverPage(c, n, "")
NaverDatalabUrl(i) == "the trend page"
NaverDatalab(c, n) == [docs |-> Docs(Window(0, Len(corpus)), NaverDatalabUrl), next |-> NoCursor]

(* SearXNG always names a next page; the walk ends at an empty one.        *)
SearxngHitUrl(i) == LinkOnly(i)
SearxngPage(c, n) ==
    LET number == IF c = NoCursor THEN 1 ELSE c
        docs == Docs(Window((number - 1) * n, n), SearxngHitUrl)
    IN  [docs |-> docs, next |-> OnLast(docs, number + 1)]

(* Bluesky: a post whose AT-URI does not parse is dropped.                 *)
BlueskyPostUrl(i) == "handle or did, and record key"
BlueskyPage(c, n) ==
    LET docs == Docs(Kept(Window(Max({c, 0}), n)), BlueskyPostUrl)
        next == Max({c, 0}) + n
    IN  [docs |-> docs, next |-> OnLast(docs, IF next < Len(corpus) THEN next ELSE NoCursor)]

(* X: two providers behind one normalisation, which drops nothing.         *)
XTweetUrl(i) == LinkOr(i, "status page")
NormalizeXTweets(page, next) ==
    [docs |-> Docs(page, XTweetUrl), next |-> IF page = <<>> THEN NoCursor ELSE next]
XTweets(c, n) ==
    LET page == Window(Max({c, 0}), n)
        next == Max({c, 0}) + n
    IN  [page |-> page, next |-> IF next < Len(corpus) THEN next ELSE NoCursor]
XOfficialSearch(c, n) == XTweets(c, n)
TwitterAPISearch(c, n) == XTweets(c, n)
SearchX(tweets) == NormalizeXTweets(tweets.page, tweets.next)

(* Threads takes no cursor and gives none.                                 *)
ThreadsPostUrl(i) == LinkOnly(i)
ThreadsPage(c, n) == [docs |-> Docs(Window(0, n), ThreadsPostUrl), next |-> NoCursor]

Page(s, c) ==
    LET n == Limit(s) IN
    CASE s = "hackernews" -> HNPage(c, n)
      [] s = "github code" -> GitHubCode(c, n)
      [] s = "github issues" -> GitHubIssues(c, n)
      [] s = "github repos" -> GitHubRepos(c, n)
      [] s = "github commits" -> GitHubCommits(c, n)
      [] s = "arxiv" -> ArxivPage(c, n)
      [] s = "reddit" -> RedditPage(c, n)
      [] s = "reddit-rss" -> RedditFeed(c, n)
      [] s = "youtube" -> YouTubePage(c, n)
      [] s = "naver blog" -> NaverBlog(c, n)
      [] s = "naver news" -> NaverNews(c, n)
      [] s = "naver web" -> NaverWeb(c, n)
      [] s = "naver shop" -> NaverShop(c, n)
      [] s = "naver datalab" -> NaverDatalab(c, n)
      [] s = "searxng" -> SearxngPage(c, n)
      [] s = "bluesky" -> BlueskyPage(c, n)
      [] s = "x-official" -> SearchX(XOfficialSearch(c, n))
      [] s = "twitterapi" -> SearchX(TwitterAPISearch(c, n))
      [] s = "threads" -> ThreadsPage(c, n)
      [] s = "facebook" -> [docs |-> <<>>, next |-> NoCursor]

-----------------------------------------------------------------------------
(* What Search refuses before any request: a blank query, and a cursor     *)
(* below the first page, for the adapters that number them. YouTube also   *)
(* refuses a page that ends past the cap, Facebook everything.             *)
HNRefuses(c) == blank \/ c < NoCursor
ArxivRefuses(c) == blank \/ c < NoCursor
GitHubRefuses(c) == blank \/ (c # NoCursor /\ c < 1)
SearxngRefuses(c) == blank \/ (c # NoCursor /\ c < 1)
YouTubeRefuses(c) ==
    blank \/ c < NoCursor \/ LimitOrDefault(ask) + Max({c, 0}) > MaxResults
FacebookRefuses(c) == TRUE
XRefuses(c) == ~XEnabled \/ blank
GitHubSources == {"github code", "github issues", "github repos", "github commits"}
Refuses(s, c) ==
    CASE s = "hackernews" -> HNRefuses(c)
      [] s = "arxiv" -> ArxivRefuses(c)
      [] s \in GitHubSources -> GitHubRefuses(c)
      [] s = "searxng" -> SearxngRefuses(c)
      [] s = "youtube" -> YouTubeRefuses(c)
      [] s = "facebook" -> FacebookRefuses(c)
      [] s \in {"x-official", "twitterapi"} -> XRefuses(c)
      [] s = "naver datalab" -> FALSE
      [] OTHER -> blank

(* The responses an error is made of.                                      *)
Statuses == {0, 200, 304, 401, 403, 404, 429, 500, 503}   \* 0: no response
Bodies == {"good", "unread", "malformed", "envelope"}
(* at: the endpoint that gave it, since Reddit's adapter may need a token  *)
(* first; cut: why there is no response. Each part where it matters.       *)
Responses ==
    {r \in [at : {"search", "token"}, status : Statuses, body : Bodies, retryAfter : BOOLEAN,
            cut : {"no", "redirect", "deadline", "eof"}] :
        /\ r.status # 0 => r.cut = "no"
        /\ r.status = 0 => r.body = "good"
        /\ r.status # 200 => r.body \in {"good", "unread"}
        /\ r.status \notin {403, 429} => ~r.retryAfter}

CommonCategory(r) ==
    CASE r.status = 429 -> "rate_limited"
      [] r.status # 429 /\ r.status \in 400..499 -> "permanent"
      [] r.status \in 500..599 \cup {0} -> "unavailable"
      [] OTHER -> "unknown"
HNCategory(r) == CommonCategory(r)
YouTubeCategory(r) == CommonCategory(r)
NaverCategory(r) == CommonCategory(r)
BlueskyCategory(r) == CommonCategory(r)
ThreadsCategory(r) == CommonCategory(r)
ArxivCategory(r) == IF r.status >= 500 THEN "unavailable" ELSE CommonCategory(r)
RedditCategory(r) == IF r.status = 401 THEN "unavailable" ELSE CommonCategory(r)
RedditRSSCategory(r) == IF r.status \in {0, 304, 403} THEN "unavailable" ELSE CommonCategory(r)
SearxngCategory(r) == IF r.status = 403 /\ r.retryAfter THEN "rate_limited" ELSE CommonCategory(r)
(* The client library has told a rate limit from other refusals already.   *)
GitHubCategory(r) ==
    IF r.status \in {403, 429} /\ r.retryAfter THEN "rate_limited"
    ELSE IF r.status \in 400..499 THEN "permanent" ELSE "unavailable"

(* The error of a call; "none" when there is none. The adapters differ in  *)
(* whether they check where a redirect goes, and in what they make of a    *)
(* body they cannot read or parse, or that carries an error of its own.    *)
ErrorOf(r, category_, rules) ==
    CASE r.status = 0 -> {IF r.cut = "redirect" THEN rules.redirect
                          ELSE IF r.cut = "deadline" THEN rules.deadline ELSE category_}
      [] r.status # 0 /\ r.status # 200 -> {category_}
      [] r.status = 200 -> rules[r.body]
Rules == [redirect |-> "permanent", deadline |-> "unavailable", good |-> {"none"},
          unread |-> {"unavailable"}, malformed |-> {"permanent"}, envelope |-> {"none"}]

HNError(r) == ErrorOf(r, HNCategory(r), Rules)
ArxivError(r) == ErrorOf(r, ArxivCategory(r), [Rules EXCEPT !.unread = {"transient"}])
(* Every refusal of a token but that of the credentials is a passing one.  *)
TokenError(r) ==
    CASE r.status = 200 /\ r.body = "good" -> {"none"}
      [] r.status \in {401, 403} -> {"permanent"}
      [] OTHER -> {"unavailable"}
RedditError(r) == IF r.at = "token" THEN TokenError(r) ELSE ErrorOf(r, RedditCategory(r), Rules)
SearxngError(r) == ErrorOf(r, SearxngCategory(r), Rules)
RedditRSSError(r) ==
    ErrorOf(r, RedditRSSCategory(r),
            [Rules EXCEPT !.redirect = "unavailable", !.deadline = "transient",
                          !.unread = {"transient"}, !.malformed = {"transient"}])
NaverError(r) == ErrorOf(r, NaverCategory(r), [Rules EXCEPT !.redirect = "unavailable"])
BlueskyError(r) == ErrorOf(r, BlueskyCategory(r), [Rules EXCEPT !.envelope = {"permanent"}])
ThreadsError(r) == ErrorOf(r, ThreadsCategory(r), [Rules EXCEPT !.envelope = {"permanent"}])
XError(r) ==
    ErrorOf(r, BlueskyCategory(r),
            [Rules EXCEPT !.redirect = "unavailable", !.envelope = {"permanent"}])
(* An EOF is taken for a truncated body, wherever it came from.            *)
GitHubError(r) ==
    IF r.cut = "eof" THEN {"permanent"}
    ELSE ErrorOf(r, GitHubCategory(r),
                 [Rules EXCEPT !.redirect = "unavailable", !.unread = {"unavailable", "permanent"}])
(* The sidecar names the category of an error it reports itself; the body  *)
(* is read before the status is looked at.                                 *)
SidecarCategories == {"rate_limited", "permanent", "transient", "unavailable"}
YouTubeError(r) ==
    IF r.body = "unread" THEN {"unavailable"}
    ELSE ErrorOf(r, YouTubeCategory(r),
                 [Rules EXCEPT !.redirect = "unavailable", !.envelope = SidecarCategories])

SearchError(s, r) ==
    CASE s = "hackernews" -> HNError(r)
      [] s = "arxiv" -> ArxivError(r)
      [] s = "reddit" -> RedditError(r)
      [] s = "reddit-rss" -> RedditRSSError(r)
      [] s = "searxng" -> SearxngError(r)
      [] s = "youtube" -> YouTubeError(r)
      [] s = "bluesky" -> BlueskyError(r)
      [] s = "threads" -> ThreadsError(r)
      [] s \in {"x-official", "twitterapi"} -> XError(r)
      [] s \in GitHubSources -> GitHubError(r)
      [] OTHER -> NaverError(r)

-----------------------------------------------------------------------------
NoResponse == [at |-> "search", status |-> 200, body |-> "good", retryAfter |-> FALSE, cut |-> "no"]

AdaptersInit ==
    /\ source \in Sources /\ corpus \in Corpora /\ ask \in Asks
    /\ blank \in BOOLEAN /\ cursor = NoCursor /\ got = <<>> /\ walk = "ready"
    /\ category = "none" /\ answer = NoResponse

SearchRefused ==
    /\ walk = "ready" /\ Refuses(source, cursor)
    /\ walk' = "refused" /\ category' = "permanent"
    /\ UNCHANGED <<source, corpus, ask, blank, cursor, got, answer>>

(* A failed call, which the caller may make again.                         *)
SearchFails ==
    /\ walk = "ready" /\ ~Refuses(source, cursor)
    /\ \E r \in Responses : \E e \in SearchError(source, r) \ {"none"} :
          /\ r.at = "token" => source = "reddit"
          /\ answer' = r /\ category' = e
    /\ walk' = "failed"
    /\ UNCHANGED <<source, corpus, ask, blank, cursor, got>>
SearchAgain ==
    /\ walk = "failed"
    /\ walk' = "ready" /\ category' = "none" /\ answer' = NoResponse
    /\ UNCHANGED <<source, corpus, ask, blank, cursor, got>>

SearchSucceeds ==
    /\ walk = "ready" /\ ~Refuses(source, cursor)
    /\ LET page == Page(source, cursor) IN
          /\ got' = got \o page.docs
          /\ cursor' = page.next
          /\ walk' = IF page.next = NoCursor THEN "done" ELSE "ready"
    /\ category' = "none"
    /\ UNCHANGED <<source, corpus, ask, blank, answer>>

AdaptersNext == SearchRefused \/ SearchFails \/ SearchAgain \/ SearchSucceeds
AdaptersSpec == AdaptersInit /\ [][AdaptersNext]_adapterVars

-----------------------------------------------------------------------------
AdaptersTypeOK ==
    /\ source \in Sources /\ cursor \in Int
    /\ walk \in {"ready", "done", "refused", "failed"}
    /\ category \in {"none", "rate_limited", "permanent", "transient", "unavailable", "unknown"}
    /\ \A i \in DOMAIN got : got[i].item \in DOMAIN corpus

(* The adapters that hand out a cursor, those that drop items, and those   *)
(* that stop at a position whatever is left.                               *)
Paged == Sources \ {"reddit-rss", "naver datalab", "threads", "facebook"}
Dropping == {"hackernews", "reddit", "youtube", "bluesky"} \cup GitHubSources
Capped(s, m) == \/ s = "youtube" /\ m >= MaxResults
                \/ s \in {"naver blog", "naver news", "naver web", "naver shop"} /\ m >= NaverLastStart

(* The parsers' next_cursor: a caller who follows the cursors gets the     *)
(* items in order and none twice or left out, save those the adapter       *)
(* drops; the walk ends at the last one or at the cap, or early, before an *)
(* item that was dropped.                                                  *)
WalkGetsEachOnce ==
    LET m == IF got = <<>> THEN 0 ELSE Last(got).item
        drops(i) == source \in Dropping /\ corpus[i] = "dropped"
    IN  source \in Paged =>
        /\ \A i, j \in DOMAIN got : i < j => got[i].item < got[j].item
        /\ {got[i].item : i \in DOMAIN got} = {i \in 1..m : ~drops(i)}
        /\ walk = "done" => m = Len(corpus) \/ Capped(source, m) \/ drops(m + 1)

(* The transforms of the items: where the adapter can make a link of its   *)
(* own, or drops what has none, no document leaves without a link, which   *)
(* the index would refuse.                                                 *)
LinkedWherePossible ==
    source \in {"hackernews", "reddit", "reddit-rss", "arxiv", "bluesky", "x-official", "twitterapi",
               "naver news", "naver datalab", "github commits"} =>
        \A i \in DOMAIN got : got[i].url # ""
PagesSound == WalkGetsEachOnce /\ LinkedWherePossible

(* categorizeStatus of each adapter and its callers: the caller may retry  *)
(* what is not permanent, so a fault of the search itself is never         *)
(* reported as one of the service, nor the other way about: a rate limit   *)
(* is named one and a missing page permanent, whatever the adapter, and a  *)
(* service that fails or cannot be reached may be asked again. Not so, and *)
(* not promised here: GitHub's 429 without rate limit headers and an EOF   *)
(* on its connection are permanent, the statuses of Reddit's token         *)
(* endpoint other than 401 and 403 are passing faults, and a YouTube       *)
(* response whose body cannot be read is one whatever its status.          *)
ErrorsTellWhoseFault ==
    LET onGitHub == source \in GitHubSources
        judged == answer.at = "search" /\ ~(source = "youtube" /\ answer.body = "unread")
        unreached == answer.status = 0 /\ answer.cut # "redirect" /\ ~(onGitHub /\ answer.cut = "eof")
    IN category # "none" /\ walk # "refused" =>
        /\ judged /\ answer.status = 429 /\ ~onGitHub => category = "rate_limited"
        /\ judged /\ answer.status = 404 => category = "permanent"
        /\ unreached \/ answer.status >= 500 => category \in {"unavailable", "transient"}
        /\ category = "rate_limited" => answer.status \in {403, 429, 200}
        /\ answer.at = "token" /\ category = "permanent" => answer.status \in {401, 403}
        /\ answer.status = 403 /\ answer.retryAfter /\ source = "searxng" => category = "rate_limited"
=============================================================================
