---------------------------- MODULE IntentRouter ----------------------------
(***************************************************************************)
(* The intent router: keyword and Hangul rules score a query for each      *)
(* category, a cheap LLM is asked when they are unsure, and the category   *)
(* and the language choose the adapters. With it the shard router of the   *)
(* Korean index, which uses the same Hangul ratio: the shards a document   *)
(* is written to, those a query reads, and the merge of what they return.  *)
(*                                                                         *)
(* A query is what the rules measure of it: its share of Hangul in per     *)
(* cent, how many of its Tokens are keywords or end in a particle, and     *)
(* whether it has an English word. Scores are counted in units of 1/3000.  *)
(***************************************************************************)
EXTENDS Integers, Sequences, FiniteSets, FiniteSetsExt, SequencesExt

CONSTANTS Caps,           \* adapter name -> [types, langs], as registered
          MaxTokens,         \* the words of a query
          HangulShares,   \* shares of Hangul tried, per cent
          MaxTitle,       \* bound: the runes of a title
          LangTags,       \* language tag -> its length
          ShardDocs       \* documents a shard may hold: [id, hash]

ASSUME RouterAssumption ==
    /\ MaxTokens \in Nat \ {0} /\ MaxTitle \in Nat
    /\ HangulShares \subseteq 0..100 /\ \A h \in HangulShares : h % 5 = 0
    /\ \A t \in DOMAIN LangTags : LangTags[t] \in Nat
    /\ Caps # <<>>

VARIABLES names,      \* Router.adapterNames: the registry when New ran
          asking,     \* the query being classified, NoQuery when there is none
          rules,      \* [cat, conf]: what the rules said of it
          decision,   \* the last RoutingDecision
          filed,      \* the document just written: [hangul, runes, lang, shards]
          merged      \* the last merge: [lists, result]

routerVars == <<names, asking, rules, decision, filed, merged>>

TypesOf == {"article", "post", "paper", "video", "repo", "issue", "social", "other"}
Categories_ == {"academic", "korean", "social", "mixed", "web", "unknown"}
NoQuery == [hangul |-> 0, particles |-> 0, academic |-> 0, social |-> 0, web |-> 0,
            english |-> FALSE, lang |-> "none"]
NoDecision == [cat |-> "unknown", lang |-> "none", source |-> "none", set |-> {}, fallback |-> FALSE]
NoDocument == [hangul |-> 0, runes |-> 0, lang |-> "none", shards |-> {}]

-----------------------------------------------------------------------------
One == 3000
Unit(n, d) == (n * One) \div d
Clamp(x) == IF x < 0 THEN 0 ELSE IF x > One THEN One ELSE x
RatioLow == 10
RatioHigh == 30
ConfidenceThreshold == Unit(85, 100)

ScoreKorean(q) ==
    LET p == Unit(q.particles, 10 * MaxTokens) IN
    Clamp(IF q.hangul >= RatioHigh THEN Unit(q.hangul, 100) + Unit(4, 10) + p
          ELSE IF q.hangul >= RatioLow
               THEN Unit(3, 10) + Unit(5 * (q.hangul - RatioLow), 10 * (RatioHigh - RatioLow))
               ELSE p)
Distance(a, b) == IF a > b THEN a - b ELSE b - a
ScoreMixed(q) ==
    IF q.hangul < RatioLow \/ q.hangul > 40 \/ ~q.english THEN 0
    ELSE Clamp(Unit(9, 10) - Unit(4 * Distance(q.hangul, 25), 150))

Latin(q, tenths) == Unit(tenths * (100 - q.hangul), 1000)
Density(n, tenths) == Unit(tenths * n, 10 * MaxTokens)
Seen(n, tenths) == IF n > 0 THEN Unit(tenths, 10) ELSE 0
Score(q) ==
    LET s(c) ==
        CASE c = "academic" -> Clamp(Density(q.academic, 8) + Latin(q, 2))
          [] c = "korean"   -> ScoreKorean(q)
          [] c = "social"   -> Clamp(Density(q.social, 7) + Latin(q, 2) + Seen(q.social, 1))
          [] c = "mixed"    -> ScoreMixed(q)
          [] c = "web"      -> Clamp(Density(q.web, 5) + Latin(q, 3) + Seen(q.web, 2))
        named == Categories_ \ {"unknown"}
    IN  [c \in Categories_ |->
            IF c = "unknown" THEN One - Max({s(k) : k \in named}) ELSE s(c)]

(* The first of the highest, in this order.                                *)
TieBreakOrder == <<"academic", "korean", "social", "mixed", "web", "unknown">>
PickWinner(s) ==
    LET best == Max({s[c] : c \in DOMAIN s}) IN
    [cat |-> TieBreakOrder[SelectInSeq(TieBreakOrder, LAMBDA c : s[c] = best)], conf |-> best]

-----------------------------------------------------------------------------
EligibleTypes(cat) ==
    CASE cat = "web" -> {"article", "post", "other"}
      [] cat = "social" -> {"post", "social", "video"}
      [] cat = "academic" -> {"paper", "repo", "issue"}
      [] cat \in {"korean", "mixed"} -> TypesOf
      [] OTHER -> {"article", "post", "other", "social", "video"}

LangCompatible(langs, lang) == langs = {} \/ lang \in langs

(* When nobody is left, the adapters of any language with articles.        *)
Matched(cat, lang) == {n \in names : /\ Caps[n].types \cap EligibleTypes(cat) # {}
                                     /\ LangCompatible(Caps[n].langs, lang)}
Generalists == {n \in names : Caps[n].langs = {} /\ Caps[n].types \cap {"article", "other"} # {}}
SelectAdapterSet_NoFallback(cat, lang) == Matched(cat, lang)
SelectAdapterSet(cat, lang) ==
    IF Matched(cat, lang) # {} THEN Matched(cat, lang) ELSE Generalists

DetectLang(hangul) == IF hangul >= RatioHigh THEN "ko" ELSE "en"
LangFor(q) == IF q.lang # "none" THEN q.lang ELSE DetectLang(q.hangul)

Decide(q, cat, source) ==
    /\ decision' = [cat |-> cat, lang |-> LangFor(q), source |-> source,
                    set |-> SelectAdapterSet(cat, LangFor(q)),
                    fallback |-> Matched(cat, LangFor(q)) = {}]
    /\ asking' = NoQuery

(* Queries there can be: keywords are English, all Hangul has no English.  *)
Plausible(q) ==
    /\ q.academic + q.social + q.web + q.particles <= MaxTokens
    /\ q.academic + q.social + q.web > 0 => q.english
    /\ q.hangul = 100 => ~q.english
    /\ q.particles > 0 => q.hangul > 0
Queries == {q \in [hangul : HangulShares, particles : 0..MaxTokens, academic : 0..MaxTokens,
                   social : 0..MaxTokens, web : 0..MaxTokens, english : BOOLEAN,
                   lang : {"none", "ko", "en"}] : Plausible(q)}

(* Below the threshold the LLM is asked next.                              *)
Classify(q) ==
    /\ asking = NoQuery /\ rules.cat = "none"
    /\ rules' = PickWinner(Score(q))
    /\ IF rules'.conf >= ConfidenceThreshold
       THEN Decide(q, rules'.cat, "rule_based")
       ELSE asking' = q /\ decision' = NoDecision
    /\ UNCHANGED <<names, filed, merged>>

(* Its answer is taken whatever its own confidence.                        *)
LLMAnswers(cat) ==
    /\ rules.cat # "none" /\ decision.source = "none"
    /\ Decide(asking, cat, "llm_fallback")
    /\ UNCHANGED <<names, rules, filed, merged>>

(* Unavailable, too late or unreadable: the rules' winner stands.          *)
LLMFails ==
    /\ rules.cat # "none" /\ decision.source = "none"
    /\ Decide(asking, rules.cat, "rule_based")
    /\ UNCHANGED <<names, rules, filed, merged>>

NextQuery ==
    /\ rules.cat # "none" /\ decision.source # "none"
    /\ rules' = [cat |-> "none", conf |-> 0] /\ asking' = NoQuery /\ decision' = NoDecision
    /\ UNCHANGED <<names, filed, merged>>

-----------------------------------------------------------------------------
(* The language tag counts as text: it lowers the document's ratio.        *)
AtLeast(hangul, runes, percent) == runes > 0 /\ 100 * hangul >= percent * runes
IndexShardForDoc(hangul, runes, lang) ==
    LET ratio(percent) == AtLeast(hangul, runes + LangTags[lang], percent) IN
    IF lang = "ko" THEN IF ratio(RatioLow) THEN {"ko"} ELSE {"ko", "default"}
    ELSE IF ratio(RatioHigh) THEN {"ko"}
    ELSE IF ratio(RatioLow) THEN {"ko", "default"} ELSE {"default"}

QueryShardsForText(hangul, runes) ==
    IF AtLeast(hangul, runes, RatioHigh) THEN {"ko"}
    ELSE IF AtLeast(hangul, runes, RatioLow) THEN {"ko", "default"} ELSE {"default"}

FileDocument ==
    /\ \E runes \in 0..MaxTitle, lang \in DOMAIN LangTags : \E hangul \in 0..runes :
          filed' = [hangul |-> hangul, runes |-> runes, lang |-> lang,
                    shards |-> IndexShardForDoc(hangul, runes, lang)]
    /\ UNCHANGED <<names, asking, rules, decision, merged>>

(* Reciprocal ranks add up by hash, an empty hash by id; the order is by   *)
(* the sum, then by the id of the copy kept, which the map's order decides *)
(* when both have the same score. Ranks are 1 and 2: units of 1 / 61 / 62. *)
KeyOf(d) == IF d.hash = 0 THEN <<"id", d.id>> ELSE <<"hash", d.hash>>
KeysOf(list) == {KeyOf(list[i]) : i \in DOMAIN list}
RankScore(list, key) ==
    LET at(i) == IF i \in DOMAIN list /\ KeyOf(list[i]) = key THEN (61 * 62) \div (60 + i) ELSE 0
    IN  at(1) + at(2)
Fusions(lists, kept) ==
    LET score(key) == RankScore(lists.ko, key) + RankScore(lists.default, key)
        before(a, b) == score(a) > score(b) \/ (score(a) = score(b) /\ kept[a].id < kept[b].id)
    IN  {order \in Bijection(1..Cardinality(DOMAIN kept), DOMAIN kept) :
             \A i, j \in DOMAIN order : i < j => ~before(order[j], order[i])}

ShardLists == {l \in UNION {[1..n -> ShardDocs] : n \in 0..2} : IsInjective(l)}
MergeRRF ==
    /\ \E lists \in [ko : ShardLists, default : ShardLists] :
          LET copies == ToSet(lists.ko) \cup ToSet(lists.default)
              keys == KeysOf(lists.ko) \cup KeysOf(lists.default)
          IN  \E kept \in {f \in [keys -> copies] : \A k \in keys : KeyOf(f[k]) = k} :
                 \E order \in Fusions(lists, kept) :
                    merged' = [lists |-> lists, result |-> [i \in DOMAIN order |-> kept[order[i]]]]
    /\ UNCHANGED <<names, asking, rules, decision, filed>>

-----------------------------------------------------------------------------
RouterInit ==
    /\ names \in SUBSET DOMAIN Caps \ {{}}    \* New refuses an empty registry
    /\ asking = NoQuery /\ rules = [cat |-> "none", conf |-> 0] /\ decision = NoDecision
    /\ filed = NoDocument
    /\ merged = [lists |-> [ko |-> <<>>, default |-> <<>>], result |-> <<>>]

RouterNext ==
    \/ \E q \in Queries : Classify(q)
    \/ \E cat \in Categories_ : LLMAnswers(cat)
    \/ LLMFails \/ NextQuery

ShardNext == FileDocument \/ MergeRRF

RouterSpec == RouterInit /\ [][RouterNext \/ ShardNext]_routerVars

-----------------------------------------------------------------------------
(* Decisions name known categories and adapters of the registry.           *)
RouterTypeOK ==
    /\ rules.cat \in Categories_ \cup {"none"} /\ rules.conf \in 0..One
    /\ decision.cat \in Categories_ /\ decision.set \subseteq names
    /\ filed.shards \subseteq {"ko", "default"}

(* A decision asks somebody whenever the registry holds an adapter that    *)
(* takes any language and has articles, nobody it asks lacks the query's   *)
(* language, and the LLM has a say only where the rules were unsure.       *)
RoutedSomewhere == decision.source # "none" =>
    /\ Generalists # {} => decision.set # {}
    /\ \A n \in decision.set : LangCompatible(Caps[n].langs, decision.lang)
    /\ decision.source = "llm_fallback" => rules.conf < ConfidenceThreshold

(* A document can be found again by its title: the query's shards and the  *)
(* document's meet, though the document's ratio counts its language tag    *)
(* and the query's does not. (A tag above seven letters, zh-Hant-TW, can   *)
(* outweigh a title of one syllable.) What the shards return is merged     *)
(* without a loss and without a repetition, and a document first in both   *)
(* comes first.                                                            *)
ShortTag == 7
FoundAgain == filed # NoDocument /\ LangTags[filed.lang] <= ShortTag =>
    filed.shards \cap QueryShardsForText(filed.hangul, filed.runes) # {}
MergedOnce == LET l == merged.lists  r == merged.result IN
    /\ \A i, j \in DOMAIN r : KeyOf(r[i]) = KeyOf(r[j]) => i = j
    /\ KeysOf(r) = KeysOf(l.ko) \cup KeysOf(l.default)
    /\ (l.ko # <<>> /\ l.default # <<>> /\ KeyOf(l.ko[1]) = KeyOf(l.default[1]))
          => KeyOf(r[1]) = KeyOf(l.ko[1])
ShardsMeet == FoundAgain /\ MergedOnce

(* The router asks somebody who can answer (router.go), and a document is  *)
(* filed where queries in its language look (shard.go), once per merge.    *)
RoutingSound == RoutedSomewhere /\ ShardsMeet
=============================================================================
