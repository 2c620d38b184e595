--------------------------- MODULE SearchPipeline ---------------------------
(***************************************************************************)
(* One search as its four surfaces run it: the query command, the two      *)
(* endpoints of usearch-api (one answer, a stream of events) and the MCP   *)
(* search tool. Each routes the prompt, keeps the sources the caller       *)
(* named, dispatches to them, synthesises, and presents what came of it;   *)
(* they differ in what they refuse, which failures end the run and what    *)
(* the caller sees. Router, fanout and synthesis answer as their own       *)
(* modules promise: here any answer they may give.                         *)
(***************************************************************************)
EXTENDS Integers, Sequences, FiniteSets, SequencesExt, Subsequences

CONSTANTS Runs,           \* concurrent requests
          Adapters_,      \* registered adapters
          SourceOf,       \* document -> the adapter that finds it
          Answers         \* the texts of the synthesis: sequences of sentences,
                          \* a sentence being the sequence of its markers

VARIABLES
    run,        \* Runs -> the request and what is known of it so far
    history,    \* the CLI's history: set of [run, code]
    docCache    \* the MCP server's documents, shared by its requests

pipeVars == <<run, history, docCache>>

Documents == DOMAIN SourceOf
Surfaces == {"cli", "api", "stream", "mcp"}
Ghost == "ghost"          \* a name no adapter has
Markers == UNION UNION {{ToSet(a[i]) : i \in DOMAIN a} : a \in Answers}
ASSUME PipeAssumption == \A text \in Answers : text \in Seq(Seq(Markers))
IdleRun == [surface |-> "cli", stage |-> "idle", prompt |-> TRUE, filter |-> {},
            asked |-> {}, docs |-> {}, errs |-> {}, expired |-> FALSE,
            synthErr |-> FALSE, answer |-> <<>>, cites |-> <<>>,
            at |-> 0, out |-> <<>>, shown |-> {}, end |-> "none"]

PipeInit ==
    /\ run = [r \in Runs |-> IdleRun]
    /\ history = {} /\ docCache = {}

-----------------------------------------------------------------------------
(* "end" is the exit code, the HTTP status or the name of the MCP error    *)
(* the caller gets; a stream that has begun ends by an event instead.      *)
Ended(q, end) == [q EXCEPT !.stage = "done", !.end = end]
Errors(surface) == CASE surface = "api" -> "200"        \* an empty answer
                     [] surface = "mcp" -> "internal"
                     [] surface = "stream" -> "error"
                     [] OTHER -> "1"

(* Prompt and named sources are checked before anything runs. The stream's *)
(* search service checks the names after the 200 is out, the MCP tool does *)
(* not check them, and leaves an empty prompt to the router.               *)
ParseRequest(q) ==
    IF ~q.prompt /\ q.surface # "mcp" THEN Ended(q, IF q.surface = "cli" THEN "1" ELSE "400")
    ELSE IF Ghost \in q.filter /\ q.surface # "mcp"
         THEN Ended(q, CASE q.surface = "cli" -> "1" [] q.surface = "api" -> "400"
                         [] OTHER -> "error")
    ELSE [q EXCEPT !.stage = "route"]

Arrive(r) ==
    /\ run[r].stage = "idle"
    /\ \E s \in Surfaces, prompt \in BOOLEAN, filter \in SUBSET (Adapters_ \cup {Ghost}) :
          run' = [run EXCEPT ![r] = ParseRequest([IdleRun EXCEPT
                     !.surface = s, !.prompt = prompt, !.filter = filter])]
    /\ UNCHANGED <<history, docCache>>

(* An empty filter asks everybody the router chose.                        *)
IntersectSources_Loose(chosen, filter) ==
    IF chosen \cap filter = {} THEN chosen ELSE chosen \cap filter
IntersectSources(chosen, filter) == IF filter = {} THEN chosen ELSE chosen \cap filter

NobodyAsked(q) == Ended(q, CASE q.surface = "cli" -> "2" [] q.surface = "api" -> "200"
                             [] q.surface = "mcp" -> "noAdapters" [] OTHER -> "complete")

Route(r) == LET q == run[r] IN
    /\ q.stage = "route"
    /\ \/ run' = [run EXCEPT ![r] = Ended(q, Errors(q.surface))]
       \/ /\ q.prompt
          /\ \E chosen \in SUBSET Adapters_ :
                LET asked == IntersectSources(chosen, q.filter) IN
                run' = [run EXCEPT ![r] =
                          IF asked = {} THEN NobodyAsked(q)
                          ELSE [q EXCEPT !.stage = "fanout", !.asked = asked]]
    /\ UNCHANGED <<history, docCache>>

(* What FanoutPromise leaves possible: an adapter that failed has an error *)
(* and no documents. Only the command and the tool set a deadline, and     *)
(* only the command looks whether it passed: it then drops the documents.  *)
AllAdaptersFailed(docs, errs) == docs = {} /\ errs # {}
AfterFanout(q) ==
    IF q.surface = "cli" /\ q.expired THEN Ended(q, "2")
    ELSE IF q.surface = "cli" /\ AllAdaptersFailed(q.docs, q.errs) THEN Ended(q, "2")
    ELSE IF q.surface = "mcp" /\ AllAdaptersFailed(q.docs, q.errs) THEN Ended(q, "allFailed")
    ELSE [q EXCEPT !.stage = "synth"]

FanoutDone(r) == LET q == run[r] IN
    /\ q.stage = "fanout"
    /\ \E errs \in SUBSET q.asked, expired \in BOOLEAN :
          \E docs \in SUBSET {d \in Documents : SourceOf[d] \in q.asked \ errs} :
             run' = [run EXCEPT ![r] = AfterFanout([q EXCEPT
                        !.docs = docs, !.errs = errs,
                        !.expired = expired /\ q.surface \in {"cli", "mcp"}])]
    /\ UNCHANGED <<history, docCache>>

-----------------------------------------------------------------------------
DetermineExitCode(q) ==
    LET synthOK == ~q.synthErr /\ q.answer # <<>> IN
    IF q.docs # {} /\ synthOK /\ q.errs = {} THEN "0"
    ELSE IF q.docs # {} /\ (q.synthErr \/ q.errs # {}) THEN "3"
    ELSE "2"

(* The command writes its history before it prints; a backend that fails   *)
(* only warns, an output that fails changes the exit code after the entry. *)
PresentCLI(r, q) == LET code == DetermineExitCode(q) IN
    \E saved, printed \in BOOLEAN :
       /\ history' = history \cup (IF saved THEN {[run |-> r, code |-> code]} ELSE {})
       /\ run' = [run EXCEPT ![r] = [Ended(q, IF printed THEN code ELSE "2")
                                       EXCEPT !.shown = IF printed THEN q.docs ELSE {}]]
       /\ UNCHANGED docCache

(* The answer of a failed synthesis is empty, and so are its citations.    *)
PresentAPI(r, q) ==
    /\ run' = [run EXCEPT ![r] =
                 [Ended(q, "200") EXCEPT !.shown = {q.cites[m] : m \in DOMAIN q.cites}]]
    /\ UNCHANGED <<history, docCache>>

PresentMCP(r, q) ==
    /\ docCache' = docCache \cup q.docs
    /\ run' = [run EXCEPT ![r] = [Ended(q, "ok") EXCEPT !.shown = q.docs]]
    /\ UNCHANGED history

Present(r, q) ==
    CASE q.surface = "cli" -> PresentCLI(r, q)
      [] q.surface = "api" -> PresentAPI(r, q)
      [] q.surface = "mcp" -> PresentMCP(r, q)
      [] OTHER -> /\ run' = [run EXCEPT ![r] = [q EXCEPT !.stage = "stream", !.at = 1]]
                  /\ UNCHANGED <<history, docCache>>

(* The tool has a placeholder in place of the synthesis: one sentence, no  *)
(* citations, no error. Otherwise a text cites some of the documents.      *)
SynthDone(r) == LET q == run[r] IN
    /\ q.stage = "synth"
    /\ \/ /\ q.surface = "mcp"
          /\ Present(r, [q EXCEPT !.answer = << <<>> >>])
       \/ /\ q.surface # "mcp"
          /\ Present(r, [q EXCEPT !.synthErr = TRUE])
       \/ /\ q.surface # "mcp"
          /\ \E text \in Answers, cited \in SUBSET Markers :
                \E cites \in [cited -> q.docs] :
                   Present(r, [q EXCEPT !.answer = text, !.cites = cites])

-----------------------------------------------------------------------------
(* handleStreamQuery: a sentence, then the citations of its markers that   *)
(* the synthesis resolved, each marker once, in the order it appears.      *)
DistinctMarkers_Every(sentence) == sentence
DistinctMarkers(sentence) == KeepAt(sentence, FirstPlaces(sentence))
SentenceEvent(i) == [event |-> "sentence", n |-> i, marker |-> 0]
CitationEvents(q, i) ==
    LET distinct == DistinctMarkers(q.answer[i])
        cited == KeepAt(distinct, {k \in DOMAIN distinct : distinct[k] \in DOMAIN q.cites})
    IN  [k \in DOMAIN cited |-> [event |-> "citation", n |-> i, marker |-> cited[k]]]
SentenceEvents(q, i) == <<SentenceEvent(i)>> \o CitationEvents(q, i)

StreamSentence(r) == LET q == run[r] IN
    /\ q.stage = "stream" /\ q.at <= Len(q.answer)
    /\ run' = [run EXCEPT ![r] =
                 [q EXCEPT !.out = @ \o SentenceEvents(q, q.at), !.at = @ + 1]]
    /\ UNCHANGED <<history, docCache>>

(* The client's context is looked at before each sentence only.            *)
StreamAbandoned(r) == LET q == run[r] IN
    /\ q.stage = "stream" /\ q.at <= Len(q.answer)
    /\ run' = [run EXCEPT ![r] = Ended(q, "gone")]
    /\ UNCHANGED <<history, docCache>>

StreamComplete(r) == LET q == run[r] IN
    /\ q.stage = "stream" /\ q.at > Len(q.answer)
    /\ run' = [run EXCEPT ![r] = Ended(q, "complete")]
    /\ UNCHANGED <<history, docCache>>

(* get_citation, of any document a search of this server has found.        *)
Resolvable(d) == d \in docCache

PipeNext == \E r \in Runs :
    \/ Arrive(r) \/ Route(r) \/ FanoutDone(r) \/ SynthDone(r)
    \/ StreamSentence(r) \/ StreamAbandoned(r) \/ StreamComplete(r)

PipeSpec == PipeInit /\ [][PipeNext]_pipeVars

-----------------------------------------------------------------------------
(* Every surface's request is in a stage and ends in its own vocabulary.   *)
PipeTypeOK ==
    /\ \A r \in Runs : LET q == run[r] IN
          /\ q.surface \in Surfaces
          /\ q.stage \in {"idle", "route", "fanout", "synth", "stream", "done"}
          /\ q.asked \subseteq Adapters_ /\ q.docs \subseteq Documents
          /\ q.end \in {"none", "0", "1", "2", "3", "200", "400", "ok", "noAdapters",
                        "allFailed", "internal", "complete", "error", "gone"}
    /\ docCache \subseteq Documents

(* A caller who named sources sees documents of those only, and what the   *)
(* end tells him is true: exit code 0 or a result of the tool is never     *)
(* given for a search in which somebody failed and nothing was found, an   *)
(* exit code that promises documents comes with them, and the history      *)
(* entry of a run carries the code it exits with unless printing failed.   *)
NamedOnly(q) == q.filter # {} => \A d \in q.shown : SourceOf[d] \in q.filter
EndTold(q) ==
    /\ q.end \in {"0", "3"} => q.shown # {}
    /\ q.end = "0" => q.errs = {} /\ q.answer # <<>>
    /\ q.end = "ok" => ~(q.docs = {} /\ q.errs # {})
PipelineHonest ==
    /\ \A r \in Runs : run[r].stage = "done" => NamedOnly(run[r]) /\ EndTold(run[r])
    /\ \A h \in history : run[h.run].end \in {h.code, "2"}
    /\ \A d \in Documents : Resolvable(d) =>
          \E r \in Runs : run[r].surface = "mcp" /\ run[r].end = "ok" /\ d \in run[r].shown

(* A stream's client can resolve what it reads: a citation comes after the *)
(* sentence it belongs to and before the next one, at most once for each,  *)
(* only for a marker of that sentence; and a stream that is complete has   *)
(* delivered every sentence with every citation the synthesis resolved.    *)
StreamWellFormed == \A r \in Runs : LET q == run[r]  out == q.out IN
    /\ \A i \in DOMAIN out :
          /\ out[i].event = "citation" =>
                /\ out[i].marker \in ToSet(q.answer[out[i].n]) \cap DOMAIN q.cites
                /\ i > 1 /\ out[i - 1].n = out[i].n
          /\ out[i].event = "sentence" /\ i > 1 => out[i - 1].n = out[i].n - 1
    /\ IsInjective(out)
    /\ q.end = "complete" /\ q.asked # {} =>
          \A i \in DOMAIN q.answer :
             /\ Contains(out, SentenceEvent(i))
             /\ \A m \in ToSet(q.answer[i]) \cap DOMAIN q.cites :
                   Contains(out, [event |-> "citation", n |-> i, marker |-> m])
=============================================================================
