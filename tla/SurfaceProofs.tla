--------------------------- MODULE SurfaceProofs ----------------------------
(***************************************************************************)
(* Proofs about what the surfaces answer and the trail they leave, for any *)
(* number of searches, adapters, documents and texts, any MCP clients, any *)
(* number of deep_research calls and any cap, any pollers, partitions and  *)
(* rows, any processes on a history of any length: the searches            *)
(* (SearchPipeline), the MCP transport's sessions and the deep_research    *)
(* tool (McpServer), the audit trail and the CLI's history. MCService runs *)
(* one part at a time and leaves the others as they are, so a step of it   *)
(* is a step or a stutter of each part; the types of all the parts, those  *)
(* of the gate and of the index among them, are put together at the end.   *)
(***************************************************************************)
EXTENDS MCService, GateProofs, IndexProofs, SubsequenceLemmas, FiniteSetTheorems,
        SequenceTheorems, TLAPS

-----------------------------------------------------------------------------
(* Searches: what is known of one at each of its stages, until it is done  *)
(* and what its caller was told is true.                                   *)
Fields == {"surface", "stage", "prompt", "filter", "asked", "docs", "errs", "expired", "synthErr",
           "answer", "cites", "at", "out", "shown", "end"}
Underway == {"idle", "route", "fanout", "synth", "stream"}
IsRun(q) == DOMAIN q = Fields
Asks(q) == q.filter # {} => q.asked \subseteq q.filter
Found(q) == \A d \in q.docs : SourceOf[d] \in q.asked
RunInv(q) ==
    /\ IsRun(q) /\ q.stage \in Underway \cup {"done"}
    /\ q.stage \in Underway => q.shown = {}
    /\ q.stage \in {"fanout", "synth"} => Asks(q)
    /\ q.stage = "synth" => /\ Found(q) /\ q.cites = <<>> /\ q.surface \in Surfaces
                            /\ q.surface = "mcp" => ~AllAdaptersFailed(q.docs, q.errs)
    /\ q.stage \in {"idle", "route", "fanout"} => q.cites = <<>> /\ q.surface \in Surfaces
    /\ q.stage = "done" => NamedOnly(q) /\ EndTold(q)
SearchInv ==
    /\ DOMAIN run = Runs /\ \A r \in Runs : RunInv(run[r])
    /\ \A h \in history : /\ h.run \in Runs /\ run[h.run].stage = "done"
                          /\ run[h.run].end \in {h.code, "2"}
    /\ \A d \in docCache : \E r \in Runs : /\ run[r].stage = "done" /\ run[r].surface = "mcp"
                                           /\ run[r].end = "ok" /\ d \in run[r].shown

(* A search ended keeps everything but its stage and its end.              *)
LEMMA EndedFields ==
    ASSUME NEW q, IsRun(q), NEW end
    PROVE  LET p == Ended(q, end) IN
           /\ IsRun(p) /\ p.stage = "done" /\ p.end = end
           /\ p.surface = q.surface /\ p.filter = q.filter /\ p.shown = q.shown /\ p.docs = q.docs
           /\ p.errs = q.errs /\ p.answer = q.answer
BY DEF Ended, IsRun, Fields

(* PipeInit: no search has begun.                                        *)
LEMMA SearchInitInv == PipeInit => SearchInv
<1> SUFFICES ASSUME PipeInit PROVE SearchInv
  OBVIOUS
<1>1. RunInv(IdleRun)
  BY DEF RunInv, IdleRun, IsRun, Fields, Underway, Surfaces
<1>2. run = [r \in Runs |-> IdleRun] /\ history = {} /\ docCache = {}
  BY DEF PipeInit
<1> QED
  BY <1>1, <1>2 DEF SearchInv

(* A search that ends early has shown nothing, and is not told otherwise.  *)
LEMMA EndsEarly ==
    ASSUME NEW q, IsRun(q), q.shown = {}, NEW end,
           end \notin {"0", "3"}, end = "ok" => ~(q.docs = {} /\ q.errs # {})
    PROVE  RunInv(Ended(q, end))
<1> DEFINE p == Ended(q, end)
<1>1. /\ IsRun(p) /\ p.stage = "done" /\ p.end = end
      /\ p.shown = {} /\ p.docs = q.docs /\ p.errs = q.errs
  BY EndedFields
<1> HIDE DEF p
<1>2. RunInv(p)
  BY <1>1 DEF RunInv, Underway, NamedOnly, EndTold
<1> QED
  BY <1>2 DEF p

(* The one search that takes a step, and what the others were shown.       *)
LEMMA SearchMoves ==
    ASSUME SearchInv, NEW r \in Runs, run[r].stage # "done", NEW p, RunInv(p),
           run' = [run EXCEPT ![r] = p],
           \A h \in history' : h \in history \/ (h.run = r /\ p.stage = "done" /\ p.end \in {h.code, "2"}),
           \A d \in docCache' : d \in docCache \/ (p.stage = "done" /\ p.surface = "mcp" /\ p.end = "ok" /\ d \in p.shown)
    PROVE  SearchInv'
<1>1. /\ DOMAIN run' = Runs /\ run'[r] = p /\ \A e \in Runs : e # r => run'[e] = run[e]
  BY DEF SearchInv
<1>2. \A e \in Runs : RunInv(run'[e])
  BY <1>1 DEF SearchInv
<1>3. \A h \in history' : /\ h.run \in Runs /\ run'[h.run].stage = "done"
                          /\ run'[h.run].end \in {h.code, "2"}
  BY <1>1 DEF SearchInv
<1>4. ASSUME NEW d \in docCache'
      PROVE  \E e \in Runs : /\ run'[e].stage = "done" /\ run'[e].surface = "mcp"
                             /\ run'[e].end = "ok" /\ d \in run'[e].shown
  BY <1>1 DEF SearchInv
<1> QED
  BY <1>1, <1>2, <1>3, <1>4 DEF SearchInv

(* A step that writes neither the history nor the documents.               *)
LEMMA QuietMove ==
    ASSUME SearchInv, NEW r \in Runs, run[r].stage # "done", NEW p, RunInv(p),
           run' = [run EXCEPT ![r] = p], UNCHANGED <<history, docCache>>
    PROVE  SearchInv'
<1>1. history' = history /\ docCache' = docCache
  OBVIOUS
<1> QED
  BY <1>1, SearchMoves

(* ParseRequest: a request is refused, or goes on to the router.         *)
LEMMA ArriveStep ==
    ASSUME SearchInv, NEW r \in Runs, Arrive(r) PROVE SearchInv'
<1>1. PICK s \in Surfaces, prompt \in BOOLEAN, filter \in SUBSET (Adapters_ \cup {Ghost}) :
          run' = [run EXCEPT ![r] = ParseRequest([IdleRun EXCEPT
                     !.surface = s, !.prompt = prompt, !.filter = filter])]
  BY DEF Arrive
<1>2. run[r].stage = "idle" /\ UNCHANGED <<history, docCache>>
  BY DEF Arrive
<1> DEFINE q == [IdleRun EXCEPT !.surface = s, !.prompt = prompt, !.filter = filter]
           p == ParseRequest(q)
<1>3. /\ IsRun(q) /\ q.shown = {} /\ q.cites = <<>> /\ q.surface \in Surfaces
  BY DEF IdleRun, IsRun, Fields
<1> HIDE DEF q
<1>4. \A end \in {"1", "400", "error"} : RunInv(Ended(q, end))
  BY <1>3, EndsEarly
<1>5. RunInv([q EXCEPT !.stage = "route"])
  BY <1>3 DEF RunInv, IsRun, Fields, Underway
<1>6. p \in {Ended(q, "1"), Ended(q, "400"), Ended(q, "error"), [q EXCEPT !.stage = "route"]}
  BY DEF ParseRequest
<1>7. RunInv(p)
  <2> HIDE DEF p
  <2> QED
    BY <1>4, <1>5, <1>6
<1>8. run' = [run EXCEPT ![r] = p]
  BY <1>1 DEF q
<1> HIDE DEF p
<1> QED
  BY <1>2, <1>7, <1>8, QuietMove

(* The router fails, chooses nobody, or chooses among the named sources. *)
LEMMA SourcesChosen ==
    ASSUME SearchInv, NEW r \in Runs, Route(r) PROVE SearchInv'
<1> DEFINE q == run[r]
<1>1. /\ q.stage = "route" /\ RunInv(q)
      /\ UNCHANGED <<history, docCache>>
  BY DEF Route, SearchInv
<1>2. /\ IsRun(q) /\ q.shown = {} /\ q.cites = <<>> /\ q.surface \in Surfaces
  BY <1>1 DEF RunInv, Underway
<1>3. \A end \in {"1", "2", "200", "internal", "error", "noAdapters", "complete"} : RunInv(Ended(q, end))
  <2> HIDE DEF q
  <2> QED
    BY <1>2, EndsEarly
<1>4. CASE run' = [run EXCEPT ![r] = Ended(q, Errors(q.surface))]
  <2>1. Errors(q.surface) \in {"1", "200", "internal", "error"}
    BY DEF Errors
  <2>2. RunInv(Ended(q, Errors(q.surface)))
    BY <1>3, <2>1
  <2> QED
    BY <1>1, <1>4, <2>2, QuietMove
<1>5. ASSUME NEW chosen \in SUBSET Adapters_,
             run' = [run EXCEPT ![r] =
                       IF IntersectSources(chosen, q.filter) = {} THEN NobodyAsked(q)
                       ELSE [q EXCEPT !.stage = "fanout", !.asked = IntersectSources(chosen, q.filter)]]
      PROVE  SearchInv'
  <2> DEFINE left == IntersectSources(chosen, q.filter)
  <2>1. q.filter # {} => left \subseteq q.filter
    BY DEF IntersectSources
  <2> HIDE DEF left, q
  <2>2. CASE left = {}
    <3>1. NobodyAsked(q) \in {Ended(q, "2"), Ended(q, "200"), Ended(q, "noAdapters"), Ended(q, "complete")}
      BY DEF NobodyAsked
    <3>2. RunInv(NobodyAsked(q))
      BY <1>3, <3>1
    <3>3. run' = [run EXCEPT ![r] = NobodyAsked(q)]
      BY <1>5, <2>2 DEF left
    <3> QED
      BY <1>1, <3>2, <3>3, QuietMove DEF q
  <2>3. CASE left # {}
    <3> DEFINE p == [q EXCEPT !.stage = "fanout", !.asked = left]
    <3>1. /\ IsRun(p) /\ p.stage = "fanout" /\ p.asked = left /\ p.filter = q.filter
          /\ p.shown = q.shown /\ p.cites = q.cites /\ p.surface = q.surface
      BY <1>2 DEF IsRun, Fields
    <3>2. run' = [run EXCEPT ![r] = p]
      BY <1>5, <2>3 DEF left
    <3> HIDE DEF p
    <3>3. RunInv(p)
      BY <1>2, <2>1, <3>1 DEF RunInv, Underway, Asks
    <3> QED
      BY <1>1, <3>2, <3>3, QuietMove DEF q
  <2> QED
    BY <2>2, <2>3
<1>6. \/ run' = [run EXCEPT ![r] = Ended(q, Errors(q.surface))]
      \/ \E chosen \in SUBSET Adapters_ :
            run' = [run EXCEPT ![r] =
                      IF IntersectSources(chosen, q.filter) = {} THEN NobodyAsked(q)
                      ELSE [q EXCEPT !.stage = "fanout", !.asked = IntersectSources(chosen, q.filter)]]
  BY DEF Route
<1> QED
  BY <1>4, <1>5, <1>6

(* What was dispatched was asked for, and so are the documents it found. *)
LEMMA FanoutStep ==
    ASSUME SearchInv, NEW r \in Runs, FanoutDone(r) PROVE SearchInv'
<1> DEFINE q == run[r]
<1>1. /\ q.stage = "fanout" /\ RunInv(q)
      /\ UNCHANGED <<history, docCache>>
  BY DEF FanoutDone, SearchInv
<1>2. /\ IsRun(q) /\ q.shown = {} /\ q.cites = <<>> /\ q.surface \in Surfaces /\ Asks(q)
  BY <1>1 DEF RunInv, Underway
<1>3. PICK errs \in SUBSET q.asked, expired \in BOOLEAN :
          \E docs \in SUBSET {d \in Documents : SourceOf[d] \in q.asked \ errs} :
             run' = [run EXCEPT ![r] = AfterFanout([q EXCEPT
                        !.docs = docs, !.errs = errs,
                        !.expired = expired /\ q.surface \in {"cli", "mcp"}])]
  BY DEF FanoutDone
<1>4. PICK docs \in SUBSET {d \in Documents : SourceOf[d] \in q.asked \ errs} :
             run' = [run EXCEPT ![r] = AfterFanout([q EXCEPT
                        !.docs = docs, !.errs = errs,
                        !.expired = expired /\ q.surface \in {"cli", "mcp"}])]
  BY <1>3
<1> DEFINE f == [q EXCEPT !.docs = docs, !.errs = errs,
                          !.expired = expired /\ q.surface \in {"cli", "mcp"}]
           p == AfterFanout(f)
<1>5. /\ IsRun(f) /\ f.stage = q.stage /\ f.shown = {} /\ f.cites = <<>> /\ f.surface = q.surface
      /\ f.docs = docs /\ f.errs = errs /\ f.asked = q.asked /\ f.filter = q.filter
  <2> HIDE DEF q
  <2> QED
    BY <1>2 DEF IsRun, Fields
<1>6. Asks(f) /\ Found(f)
  <2> HIDE DEF q, f
  <2> QED
    BY <1>2, <1>4, <1>5 DEF Asks, Found
<1>7. run' = [run EXCEPT ![r] = p]
  BY <1>4
<1>8. /\ RunInv(Ended(f, "2")) /\ RunInv(Ended(f, "allFailed"))
  <2> HIDE DEF q, f
  <2> QED
    BY <1>5, EndsEarly
<1>9. (f.surface = "mcp" => ~AllAdaptersFailed(f.docs, f.errs)) => RunInv([f EXCEPT !.stage = "synth"])
  <2> HIDE DEF q, f
  <2> DEFINE s == [f EXCEPT !.stage = "synth"]
  <2>1. /\ IsRun(s) /\ s.stage = "synth" /\ s.shown = {} /\ s.cites = <<>> /\ s.surface = f.surface
        /\ s.docs = f.docs /\ s.errs = f.errs /\ s.asked = f.asked /\ s.filter = f.filter
    BY <1>5 DEF IsRun, Fields
  <2>2. Asks(s) /\ Found(s) /\ s.surface \in Surfaces
    BY <1>2, <1>5, <1>6, <2>1 DEF Asks, Found
  <2> HIDE DEF s
  <2>3. (f.surface = "mcp" => ~AllAdaptersFailed(f.docs, f.errs)) => RunInv(s)
    BY <2>1, <2>2 DEF RunInv, Underway
  <2> QED
    BY <2>3 DEF s
<1>10. RunInv(p)
  <2> HIDE DEF q, f
  <2> QED
    BY <1>8, <1>9 DEF AfterFanout
<1> HIDE DEF p, f
<1> QED
  BY <1>1, <1>7, <1>10, QuietMove

(* Whatever was found, the caller had asked for.                           *)
LEMMA FoundAsked ==
    ASSUME NEW q, Asks(q), Found(q)
    PROVE  q.filter # {} => \A d \in q.docs : SourceOf[d] \in q.filter
BY DEF Asks, Found

(* What a surface presents of a search with its answer.                    *)
Presentable(q) ==
    /\ IsRun(q) /\ q.shown = {} /\ q.surface \in Surfaces /\ Asks(q) /\ Found(q)
    /\ q.surface = "mcp" => ~AllAdaptersFailed(q.docs, q.errs)
    /\ \A m \in DOMAIN q.cites : q.cites[m] \in q.docs

Shows(q, end, docs) == [Ended(q, end) EXCEPT !.shown = docs]

(* A search ended with something to show.                                *)
LEMMA ShownFields ==
    ASSUME NEW q, IsRun(q), NEW end, NEW docs
    PROVE  LET p == Shows(q, end, docs) IN
           /\ IsRun(p) /\ p.stage = "done" /\ p.end = end /\ p.shown = docs
           /\ p.surface = q.surface /\ p.filter = q.filter /\ p.docs = q.docs
           /\ p.errs = q.errs /\ p.answer = q.answer
<1> DEFINE e == Ended(q, end)
<1>1. /\ IsRun(e) /\ e.stage = "done" /\ e.end = end
      /\ e.surface = q.surface /\ e.filter = q.filter /\ e.docs = q.docs
      /\ e.errs = q.errs /\ e.answer = q.answer
  BY EndedFields
<1> HIDE DEF e
<1>2. LET p == [e EXCEPT !.shown = docs] IN
      /\ IsRun(p) /\ p.stage = "done" /\ p.end = end /\ p.shown = docs
      /\ p.surface = q.surface /\ p.filter = q.filter /\ p.docs = q.docs
      /\ p.errs = q.errs /\ p.answer = q.answer
  BY <1>1 DEF IsRun, Fields
<1> QED
  BY <1>2 DEF e, Shows

(* It may show what was found, if its end says no more than that.        *)
LEMMA ShownSound ==
    ASSUME NEW q, Presentable(q), NEW end, NEW docs, \A d \in docs : d \in q.docs,
           end \in {"0", "3"} => docs # {},
           end = "0" => q.errs = {} /\ q.answer # <<>>,
           end = "ok" => q.surface = "mcp"
    PROVE  RunInv(Shows(q, end, docs))
<1> DEFINE p == Shows(q, end, docs)
<1>1. IsRun(q)
  BY DEF Presentable
<1>2. /\ IsRun(p) /\ p.stage = "done" /\ p.end = end /\ p.shown = docs
      /\ p.filter = q.filter /\ p.docs = q.docs /\ p.errs = q.errs /\ p.answer = q.answer
  BY <1>1, ShownFields
<1> HIDE DEF p
<1>3. NamedOnly(p)
  BY <1>2, FoundAsked DEF Presentable, NamedOnly
<1>4. EndTold(p)
  BY <1>2 DEF Presentable, EndTold, AllAdaptersFailed
<1>5. RunInv(p)
  BY <1>2, <1>3, <1>4 DEF RunInv, Underway
<1> QED
  BY <1>5 DEF p

(* Each surface presents its own way.                                    *)
LEMMA PresentStep ==
    ASSUME SearchInv, NEW r \in Runs, run[r].stage = "synth",
           NEW q, Presentable(q), Present(r, q)
    PROVE  SearchInv'
<1>1. CASE q.surface = "cli"
  <2> DEFINE code == DetermineExitCode(q)
  <2>1. PresentCLI(r, q)
    BY <1>1 DEF Present
  <2>2. PICK saved \in BOOLEAN, printed \in BOOLEAN :
         /\ history' = history \cup (IF saved THEN {[run |-> r, code |-> code]} ELSE {})
         /\ run' = [run EXCEPT ![r] = [Ended(q, IF printed THEN code ELSE "2")
                                         EXCEPT !.shown = IF printed THEN q.docs ELSE {}]]
         /\ docCache' = docCache
    BY <2>1 DEF PresentCLI
  <2>3. /\ code \in {"0", "2", "3"}
        /\ code \in {"0", "3"} => q.docs # {}
        /\ code = "0" => q.errs = {} /\ q.answer # <<>>
    BY DEF DetermineExitCode
  <2> DEFINE end == IF printed THEN code ELSE "2"
             docs == IF printed THEN q.docs ELSE {}
             p == Shows(q, end, docs)
  <2> HIDE DEF code
  <2>4. /\ end \in {"0", "2", "3"} /\ end \in {code, "2"} /\ \A d \in docs : d \in q.docs
        /\ end \in {"0", "3"} => docs # {}
        /\ end = "0" => q.errs = {} /\ q.answer # <<>>
    BY <2>3
  <2>5. run' = [run EXCEPT ![r] = p]
    BY <2>2 DEF Shows
  <2> HIDE DEF end, docs
  <2>6. end = "ok" => q.surface = "mcp"
    BY <2>4
  <2>7. RunInv(p)
    BY <2>4, <2>6, ShownSound
  <2>8. p.stage = "done" /\ p.end = end
    BY ShownFields DEF Presentable
  <2>9. \A h \in history' : h \in history \/ (h.run = r /\ p.stage = "done" /\ p.end \in {h.code, "2"})
    BY <2>2, <2>4, <2>8
  <2> HIDE DEF p
  <2> QED
    BY <2>2, <2>5, <2>7, <2>9, SearchMoves
<1>2. CASE q.surface = "api"
  <2> DEFINE docs == {q.cites[m] : m \in DOMAIN q.cites}
             p == Shows(q, "200", docs)
  <2>1. run' = [run EXCEPT ![r] = p] /\ UNCHANGED <<history, docCache>>
    BY <1>2 DEF Present, PresentAPI, Shows
  <2>2. \A d \in docs : d \in q.docs
    BY DEF Presentable
  <2> HIDE DEF docs
  <2>3. RunInv(p)
    BY <2>2, ShownSound
  <2> HIDE DEF p
  <2> QED
    BY <2>1, <2>3, QuietMove
<1>3. CASE q.surface = "mcp"
  <2> DEFINE p == Shows(q, "ok", q.docs)
  <2>1. run' = [run EXCEPT ![r] = p] /\ docCache' = docCache \cup q.docs /\ history' = history
    BY <1>3 DEF Present, PresentMCP, Shows
  <2>2. RunInv(p)
    BY <1>3, ShownSound
  <2>3. p.stage = "done" /\ p.surface = "mcp" /\ p.end = "ok" /\ p.shown = q.docs
    BY <1>3, ShownFields DEF Presentable
  <2> HIDE DEF p
  <2> QED
    BY <2>1, <2>2, <2>3, SearchMoves
<1>4. CASE q.surface = "stream"
  <2> DEFINE p == [q EXCEPT !.stage = "stream", !.at = 1]
  <2>1. run' = [run EXCEPT ![r] = p] /\ UNCHANGED <<history, docCache>>
    BY <1>4 DEF Present
  <2>2. IsRun(p) /\ p.stage = "stream" /\ p.shown = {}
    BY DEF Presentable, IsRun, Fields
  <2> HIDE DEF p
  <2>3. RunInv(p)
    BY <2>2 DEF RunInv, Underway
  <2> QED
    BY <2>1, <2>3, QuietMove
<1> QED
  BY <1>1, <1>2, <1>3, <1>4 DEF Presentable, Surfaces

(* The synthesis is a placeholder, has failed, or cites what was found.  *)
LEMMA SynthStep ==
    ASSUME SearchInv, NEW r \in Runs, SynthDone(r) PROVE SearchInv'
<1> DEFINE q == run[r]
<1>1. q.stage = "synth" /\ RunInv(q)
  BY DEF SynthDone, SearchInv
<1>2. /\ IsRun(q) /\ q.shown = {} /\ q.cites = <<>> /\ q.surface \in Surfaces /\ Asks(q) /\ Found(q)
      /\ q.surface = "mcp" => ~AllAdaptersFailed(q.docs, q.errs)
  BY <1>1 DEF RunInv, Underway
<1>3. \/ /\ q.surface = "mcp"
         /\ Present(r, [q EXCEPT !.answer = << <<>> >>])
      \/ /\ q.surface # "mcp"
         /\ Present(r, [q EXCEPT !.synthErr = TRUE])
      \/ /\ q.surface # "mcp"
         /\ \E text \in Answers, cited \in SUBSET Markers :
               \E cites \in [cited -> q.docs] :
                  Present(r, [q EXCEPT !.answer = text, !.cites = cites])
  BY DEF SynthDone
<1> HIDE DEF q
<1>4. \A text : Presentable([q EXCEPT !.answer = text])
  <2> TAKE text
  <2> DEFINE p == [q EXCEPT !.answer = text]
  <2>1. /\ IsRun(p) /\ p.shown = {} /\ p.cites = <<>> /\ p.surface = q.surface /\ p.docs = q.docs
        /\ p.errs = q.errs /\ p.asked = q.asked /\ p.filter = q.filter
    BY <1>2 DEF IsRun, Fields
  <2> HIDE DEF p
  <2>2. Presentable(p)
    BY <1>2, <2>1 DEF Presentable, Asks, Found
  <2> QED
    BY <2>2 DEF p
<1>5. Presentable([q EXCEPT !.synthErr = TRUE])
  <2> DEFINE p == [q EXCEPT !.synthErr = TRUE]
  <2>1. /\ IsRun(p) /\ p.shown = {} /\ p.cites = <<>> /\ p.surface = q.surface /\ p.docs = q.docs
        /\ p.errs = q.errs /\ p.asked = q.asked /\ p.filter = q.filter
    BY <1>2 DEF IsRun, Fields
  <2> HIDE DEF p
  <2>2. Presentable(p)
    BY <1>2, <2>1 DEF Presentable, Asks, Found
  <2> QED
    BY <2>2 DEF p
<1>6. ASSUME NEW text, NEW cited, NEW cites \in [cited -> q.docs]
      PROVE  Presentable([q EXCEPT !.answer = text, !.cites = cites])
  <2> DEFINE p == [q EXCEPT !.answer = text, !.cites = cites]
  <2>1. /\ IsRun(p) /\ p.shown = {} /\ p.cites = cites /\ p.surface = q.surface /\ p.docs = q.docs
        /\ p.errs = q.errs /\ p.asked = q.asked /\ p.filter = q.filter
    BY <1>2 DEF IsRun, Fields
  <2> HIDE DEF p
  <2>2. Presentable(p)
    BY <1>2, <1>6, <2>1 DEF Presentable, Asks, Found
  <2> QED
    BY <2>2 DEF p
<1>7. \A p : Presentable(p) /\ Present(r, p) => SearchInv'
  BY <1>1, PresentStep DEF q
<1>8. CASE \E text \in Answers, cited \in SUBSET Markers :
               \E cites \in [cited -> q.docs] :
                  Present(r, [q EXCEPT !.answer = text, !.cites = cites])
  BY <1>6, <1>7, <1>8
<1> QED
  BY <1>3, <1>4, <1>5, <1>7, <1>8

(* A stream that goes on or ends shows no documents of its own.            *)
LEMMA StreamStep ==
    ASSUME SearchInv, NEW r \in Runs,
           StreamSentence(r) \/ StreamAbandoned(r) \/ StreamComplete(r)
    PROVE  SearchInv'
<1> DEFINE q == run[r]
<1>1. /\ q.stage = "stream" /\ RunInv(q) /\ UNCHANGED <<history, docCache>>
  BY DEF StreamSentence, StreamAbandoned, StreamComplete, SearchInv
<1>2. IsRun(q) /\ q.shown = {}
  BY <1>1 DEF RunInv, Underway
<1>3. CASE StreamSentence(r)
  <2> DEFINE p == [q EXCEPT !.out = @ \o SentenceEvents(q, q.at), !.at = @ + 1]
  <2>1. run' = [run EXCEPT ![r] = p]
    BY <1>3 DEF StreamSentence
  <2>2. \A out, at : LET s == [q EXCEPT !.out = out, !.at = at] IN
            IsRun(s) /\ s.stage = q.stage /\ s.shown = q.shown
    <3> HIDE DEF q
    <3> QED
      BY <1>2 DEF IsRun, Fields
  <2>3. IsRun(p) /\ p.stage = "stream" /\ p.shown = {}
    BY <1>1, <1>2, <2>2
  <2> HIDE DEF p
  <2>4. RunInv(p)
    BY <2>3 DEF RunInv, Underway
  <2> QED
    BY <1>1, <2>1, <2>4, QuietMove
<1>4. ASSUME NEW end \in {"gone", "complete"}, run' = [run EXCEPT ![r] = Ended(q, end)]
      PROVE  SearchInv'
  <2>1. RunInv(Ended(q, end))
    <3> HIDE DEF q
    <3> QED
      BY <1>2, EndsEarly
  <2> DEFINE p == Ended(q, end)
  <2>2. RunInv(p) /\ run' = [run EXCEPT ![r] = p]
    BY <1>4, <2>1
  <2> HIDE DEF p
  <2> QED
    BY <1>1, <2>2, QuietMove
<1> QED
  BY <1>3, <1>4 DEF StreamAbandoned, StreamComplete

(* Every step of a search keeps what is known of all of them.              *)
LEMMA SearchStep == SearchInv /\ [PipeNext]_pipeVars => SearchInv'
<1> SUFFICES ASSUME SearchInv, [PipeNext]_pipeVars PROVE SearchInv'
  OBVIOUS
<1>1. CASE UNCHANGED pipeVars
  BY <1>1 DEF pipeVars, SearchInv
<1>2. CASE PipeNext
  <2>1. PICK r \in Runs : \/ Arrive(r) \/ Route(r) \/ FanoutDone(r) \/ SynthDone(r)
                          \/ StreamSentence(r) \/ StreamAbandoned(r) \/ StreamComplete(r)
    BY <1>2 DEF PipeNext
  <2> QED
    BY <2>1, ArriveStep, SourcesChosen, FanoutStep, SynthStep, StreamStep
<1> QED
  BY <1>1, <1>2

(* What the callers were told is true.                                     *)
LEMMA SearchInvHonest == SearchInv => PipelineHonest
<1> SUFFICES ASSUME SearchInv PROVE PipelineHonest
  OBVIOUS
<1>1. \A r \in Runs : run[r].stage = "done" => NamedOnly(run[r]) /\ EndTold(run[r])
  BY DEF SearchInv, RunInv
<1> QED
  BY <1>1 DEF SearchInv, PipelineHonest, Resolvable

-----------------------------------------------------------------------------
(* Sessions: a number that was issued belongs to one request until it is   *)
(* entered, to one session from then on, and to none once it is deleted.   *)
SessionInv ==
    /\ sessionID \in Nat /\ DOMAIN http = Clients
    /\ DOMAIN sessions \subseteq 1..sessionID /\ deleted \subseteq 1..sessionID
    /\ DOMAIN sessions \cap deleted = {}
    /\ \A c \in Clients : http[c].at = "enter" =>
          /\ http[c].id \in 1..sessionID
          /\ http[c].id \notin DOMAIN sessions \cup deleted
          /\ \A e \in Clients : e # c /\ http[e].at = "enter" => http[e].id # http[c].id
Kept ==
    /\ \A id \in DOMAIN sessions \cap DOMAIN sessions' : sessions'[id] = sessions[id]
    /\ DOMAIN sessions' \cap deleted = {}

(* McpInit: no number is issued and no session is open.                  *)
LEMMA SessionInitInv == McpInit => SessionInv
<1> SUFFICES ASSUME McpInit PROVE SessionInv
  OBVIOUS
<1>1. \A c \in Clients : http[c].at = "none"
  BY DEF McpInit, NoHTTP
<1>2. DOMAIN sessions = {} /\ sessionID = 0 /\ deleted = {} /\ DOMAIN http = Clients
  BY DEF McpInit
<1> QED
  BY <1>1, <1>2 DEF SessionInv

(* A request that moves on without a number of its own.                    *)
LEMMA RequestPasses ==
    ASSUME SessionInv, NEW c \in Clients, UNCHANGED <<sessions, sessionID, deleted>>,
           DOMAIN http' = Clients, \A e \in Clients : e # c => http'[e] = http[e],
           http'[c].at # "enter"
    PROVE  SessionInv' /\ Kept
<1>1. SessionInv'
  BY DEF SessionInv
<1> QED
  BY <1>1 DEF SessionInv, Kept

(* Every step of the transport keeps the numbers apart.                  *)
LEMMA SessionStep == SessionInv /\ [SessionNext]_mcpVars => SessionInv' /\ Kept
<1> SUFFICES ASSUME SessionInv, [SessionNext]_mcpVars PROVE SessionInv' /\ Kept
  OBVIOUS
<1>0. /\ sessionID \in Nat /\ DOMAIN http = Clients
      /\ DOMAIN sessions \subseteq 1..sessionID /\ deleted \subseteq 1..sessionID
      /\ DOMAIN sessions \cap deleted = {}
  BY DEF SessionInv
<1>1. ASSUME NEW c \in Clients,
             HandleHTTP(c) \/ LookUpSession(c) \/ ProcessRequest(c) \/ HandleGet(c) \/ ClientLeaves(c)
      PROVE  SessionInv' /\ Kept
  <2>1. UNCHANGED <<sessions, sessionID, deleted>>
    BY <1>1 DEF HandleHTTP, LookUpSession, ProcessRequest, HandleGet, ClientLeaves
  <2>2. /\ DOMAIN http' = Clients /\ \A e \in Clients : e # c => http'[e] = http[e]
        /\ http'[c].at # "enter"
    <3>1. CASE HandleHTTP(c)
      BY <1>0, <3>1 DEF HandleHTTP
    <3>2. CASE LookUpSession(c)
      BY <1>0, <3>2 DEF LookUpSession, Step
    <3>3. CASE ProcessRequest(c)
      BY <1>0, <3>3 DEF ProcessRequest
    <3>4. CASE HandleGet(c)
      BY <1>0, <3>4 DEF HandleGet, Step
    <3>5. CASE ClientLeaves(c)
      BY <1>0, <3>5 DEF ClientLeaves, NoHTTP
    <3> QED
      BY <1>1, <3>1, <3>2, <3>3, <3>4, <3>5
  <2> QED
    BY <2>1, <2>2, RequestPasses
<1>2. ASSUME NEW c \in Clients, NumberSession(c) PROVE SessionInv' /\ Kept
  <2>1. /\ sessionID' = sessionID + 1 /\ UNCHANGED <<sessions, deleted>>
        /\ DOMAIN http' = Clients /\ \A e \in Clients : e # c => http'[e] = http[e]
        /\ http'[c].at = "enter" /\ http'[c].id = sessionID + 1
    BY <1>0, <1>2 DEF NumberSession, NextSessionID
  <2>2. /\ sessionID + 1 \notin DOMAIN sessions \cup deleted
        /\ DOMAIN sessions \subseteq 1..(sessionID + 1) /\ deleted \subseteq 1..(sessionID + 1)
    BY <1>0
  <2>3. ASSUME NEW e \in Clients, e # c, http'[e].at = "enter"
        PROVE  /\ http'[e].id \in 1..(sessionID + 1) /\ http'[e].id # sessionID + 1
               /\ http'[e].id \notin DOMAIN sessions \cup deleted
               /\ \A o \in Clients : o # e /\ o # c /\ http'[o].at = "enter" => http'[o].id # http'[e].id
    BY <1>0, <2>1, <2>3 DEF SessionInv
  <2>4. SessionInv'
    BY <1>0, <2>1, <2>2, <2>3 DEF SessionInv
  <2> QED
    BY <1>0, <2>1, <2>4 DEF Kept
<1>3. ASSUME NEW c \in Clients, EnterSession(c) PROVE SessionInv' /\ Kept
  <2> DEFINE n == http[c].id
  <2>1. /\ http[c].at = "enter" /\ sessions' = [i \in DOMAIN sessions \cup {n} |-> IF i = n THEN http[c].user ELSE sessions[i]]
        /\ UNCHANGED <<sessionID, deleted>>
        /\ DOMAIN http' = Clients /\ \A e \in Clients : e # c => http'[e] = http[e]
        /\ http'[c].at # "enter"
    BY <1>0, <1>3 DEF EnterSession, Step
  <2>2. n \in 1..sessionID /\ n \notin DOMAIN sessions \cup deleted
    BY <2>1 DEF SessionInv
  <2>3. /\ DOMAIN sessions' = DOMAIN sessions \cup {n}
        /\ \A id \in DOMAIN sessions : sessions'[id] = sessions[id]
    BY <2>1, <2>2
  <2>4. ASSUME NEW e \in Clients, http'[e].at = "enter"
        PROVE  /\ http'[e].id \in 1..sessionID /\ http'[e].id \notin DOMAIN sessions' \cup deleted
               /\ \A o \in Clients : o # e /\ http'[o].at = "enter" => http'[o].id # http'[e].id
    BY <2>1, <2>3, <2>4 DEF SessionInv
  <2> HIDE DEF n
  <2>5. SessionInv'
    BY <1>0, <2>1, <2>2, <2>3, <2>4 DEF SessionInv
  <2> QED
    BY <1>0, <2>2, <2>3, <2>5 DEF Kept
<1>4. ASSUME NEW c \in Clients, HandleDelete(c) PROVE SessionInv' /\ Kept
  <2> DEFINE n == http[c].id
  <2>1. /\ DOMAIN sessions' = DOMAIN sessions \ {n}
        /\ \A id \in DOMAIN sessions' : sessions'[id] = sessions[id]
        /\ deleted' = deleted \cup ({n} \cap DOMAIN sessions) /\ UNCHANGED sessionID
        /\ DOMAIN http' = Clients /\ \A e \in Clients : e # c => http'[e] = http[e]
        /\ http'[c].at # "enter"
    BY <1>0, <1>4 DEF HandleDelete, Step
  <2> HIDE DEF n
  <2>2. /\ DOMAIN sessions' \subseteq DOMAIN sessions /\ deleted \subseteq deleted'
        /\ DOMAIN sessions' \cup deleted' = DOMAIN sessions \cup deleted
        /\ DOMAIN sessions' \cap deleted' = {} /\ DOMAIN sessions' \cap deleted = {}
    BY <1>0, <2>1
  <2>3. ASSUME NEW e \in Clients, http'[e].at = "enter"
        PROVE  /\ http'[e].id \in 1..sessionID /\ http'[e].id \notin DOMAIN sessions' \cup deleted'
               /\ \A o \in Clients : o # e /\ http'[o].at = "enter" => http'[o].id # http'[e].id
    BY <2>1, <2>2, <2>3 DEF SessionInv
  <2>4. SessionInv'
    BY <1>0, <2>1, <2>2, <2>3 DEF SessionInv
  <2> QED
    BY <2>1, <2>2, <2>4 DEF Kept
<1>5. CASE UNCHANGED mcpVars
  BY <1>5 DEF mcpVars, SessionInv, Kept
<1> QED
  BY <1>1, <1>2, <1>3, <1>4, <1>5 DEF SessionNext

-----------------------------------------------------------------------------
(* deep_research: what the cap has counted are the calls that started the  *)
(* pipeline and some of those it failed, and a call has its audit line     *)
(* only once it is done.                                                   *)
Words == {"none", "cap", "pipeline", "done", "invalid", "internal", "cap_exceeded", "ok",
          "validation_complete", "cap_check_passed", "pipeline_started", "pipeline_complete",
          "synthesis_complete", "error_invalid", "capped", "error_pipeline_failed",
          "success", "empty_corpus"}
Calls == [at : Words, notes : Seq(Words), lines : Seq(Words), outcome : Words]
Started(d) == "pipeline_started" \in ToSet(d.notes)
CallInv(d) ==
    /\ d.at \in {"none", "cap", "pipeline", "done"}
    /\ d.at \in {"none", "cap"} => ~Started(d)
    /\ d.at = "pipeline" => Started(d)
    /\ d.at # "done" => d.lines = <<>> /\ d.outcome = "none"
    /\ d.at = "done" => Len(d.lines) = IF d.outcome = "internal" /\ ~Started(d) THEN 0 ELSE 1
    /\ d.outcome = "ok" => Started(d)
Failed(d) == d.at = "done" /\ d.outcome = "internal" /\ ~Started(d)
Charged == {k \in DeepCalls : Started(deep[k])}
PerhapsCharged == {k \in DeepCalls : Started(deep[k]) \/ Failed(deep[k])}
DeepInv ==
    /\ deep \in [DeepCalls -> Calls] /\ \A k \in DeepCalls : CallInv(deep[k])
    /\ IsFiniteSet(Charged) /\ IsFiniteSet(PerhapsCharged)
    /\ spent \in Nat /\ Cardinality(Charged) <= spent /\ spent <= Cardinality(PerhapsCharged)

(* Each word is one of them.                                               *)
LEMMA WordsIn ==
    /\ "none" \in Words /\ "cap" \in Words /\ "pipeline" \in Words /\ "done" \in Words
    /\ "invalid" \in Words /\ "internal" \in Words /\ "cap_exceeded" \in Words /\ "ok" \in Words
    /\ "validation_complete" \in Words /\ "cap_check_passed" \in Words /\ "pipeline_started" \in Words
    /\ "pipeline_complete" \in Words /\ "synthesis_complete" \in Words /\ "error_invalid" \in Words
    /\ "capped" \in Words /\ "error_pipeline_failed" \in Words /\ "success" \in Words
    /\ "empty_corpus" \in Words /\ <<>> \in Seq(Words)
BY DEF Words

(* A note sent ...                                                         *)
LEMMA Noted ==
    ASSUME NEW d \in Calls, NEW s \in Words
    PROVE  /\ Notify(d, s) \in Calls
           /\ Notify(d, s).at = d.at /\ Notify(d, s).notes = Append(d.notes, s)
           /\ Notify(d, s).lines = d.lines /\ Notify(d, s).outcome = d.outcome
<1>1. d.at \in Words /\ d.notes \in Seq(Words) /\ d.lines \in Seq(Words) /\ d.outcome \in Words
  BY DEF Calls
<1>2. Append(d.notes, s) \in Seq(Words) /\ d.lines \in Seq(Words) /\ "done" \in Words
  BY <1>1, WordsIn, AppendProperties
<1>3. Notify(d, s) = [at |-> d.at, notes |-> Append(d.notes, s), lines |-> d.lines, outcome |-> d.outcome]
  <2>1. \A x : [d EXCEPT !.notes = x] = [at |-> d.at, notes |-> x, lines |-> d.lines, outcome |-> d.outcome]
    BY DEF Calls
  <2> QED
    BY <2>1 DEF Notify
<1> QED
  BY <1>1, <1>2, <1>3 DEF Calls

(* ... a line written ...                                                  *)
LEMMA Audited ==
    ASSUME NEW d \in Calls, NEW s \in Words
    PROVE  /\ Audit(d, s) \in Calls
           /\ Audit(d, s).at = d.at /\ Audit(d, s).notes = d.notes
           /\ Audit(d, s).lines = Append(d.lines, s) /\ Audit(d, s).outcome = d.outcome
<1>1. d.at \in Words /\ d.notes \in Seq(Words) /\ d.lines \in Seq(Words) /\ d.outcome \in Words
  BY DEF Calls
<1>2. d.notes \in Seq(Words) /\ Append(d.lines, s) \in Seq(Words) /\ "done" \in Words
  BY <1>1, WordsIn, AppendProperties
<1>3. Audit(d, s) = [at |-> d.at, notes |-> d.notes, lines |-> Append(d.lines, s), outcome |-> d.outcome]
  <2>1. \A x : [d EXCEPT !.lines = x] = [at |-> d.at, notes |-> d.notes, lines |-> x, outcome |-> d.outcome]
    BY DEF Calls
  <2> QED
    BY <2>1 DEF Audit
<1> QED
  BY <1>1, <1>2, <1>3 DEF Calls

(* ... a call ended ...                                                    *)
LEMMA Finished ==
    ASSUME NEW d \in Calls, NEW s \in Words
    PROVE  /\ Finish(d, s) \in Calls
           /\ Finish(d, s).at = "done" /\ Finish(d, s).notes = d.notes
           /\ Finish(d, s).lines = d.lines /\ Finish(d, s).outcome = s
<1>1. d.at \in Words /\ d.notes \in Seq(Words) /\ d.lines \in Seq(Words) /\ d.outcome \in Words
  BY DEF Calls
<1>2. d.notes \in Seq(Words) /\ d.lines \in Seq(Words) /\ "done" \in Words
  BY <1>1, WordsIn, AppendProperties
<1>3. Finish(d, s) = [at |-> "done", notes |-> d.notes, lines |-> d.lines, outcome |-> s]
  <2> DEFINE e == [d EXCEPT !.at = "done"]
  <2>1. e = [at |-> "done", notes |-> d.notes, lines |-> d.lines, outcome |-> d.outcome]
    BY DEF Calls
  <2>2. Finish(d, s) = [e EXCEPT !.outcome = s]
    BY DEF Finish, Calls
  <2> HIDE DEF e
  <2>3. e \in [at : {"done"}, notes : {d.notes}, lines : {d.lines}, outcome : {d.outcome}]
    BY <2>1
  <2>4. [e EXCEPT !.outcome = s] = [at |-> e.at, notes |-> e.notes, lines |-> e.lines, outcome |-> s]
    BY <2>3
  <2> QED
    BY <2>1, <2>2, <2>4
<1> QED
  BY <1>1, <1>2, <1>3 DEF Calls

(* ... or at its next stage.                                               *)
LEMMA Moved ==
    ASSUME NEW d \in Calls, NEW s \in Words
    PROVE  /\ [d EXCEPT !.at = s] \in Calls
           /\ [d EXCEPT !.at = s].at = s /\ [d EXCEPT !.at = s].notes = d.notes
           /\ [d EXCEPT !.at = s].lines = d.lines /\ [d EXCEPT !.at = s].outcome = d.outcome
<1>1. d.at \in Words /\ d.notes \in Seq(Words) /\ d.lines \in Seq(Words) /\ d.outcome \in Words
  BY DEF Calls
<1>2. d.notes \in Seq(Words) /\ d.lines \in Seq(Words) /\ "done" \in Words
  BY <1>1, WordsIn, AppendProperties
<1>3. [d EXCEPT !.at = s] = [at |-> s, notes |-> d.notes, lines |-> d.lines, outcome |-> d.outcome]
  BY DEF Calls
<1> QED
  BY <1>1, <1>2, <1>3 DEF Calls

(* A note more in what was told the client.                                *)
LEMMA NoteAdded ==
    ASSUME NEW s \in Seq(Words), NEW x \in Words
    PROVE  ToSet(Append(s, x)) = ToSet(s) \cup {x}
<1>1. /\ DOMAIN s = 1..Len(s) /\ Len(s) \in Nat
      /\ DOMAIN Append(s, x) = 1..(Len(s) + 1)
      /\ \A i \in 1..Len(s) : Append(s, x)[i] = s[i]
      /\ Append(s, x)[Len(s) + 1] = x
  BY LenProperties, AppendProperties
<1>2. 1..(Len(s) + 1) = (1..Len(s)) \cup {Len(s) + 1}
  BY <1>1
<1> QED
  BY <1>1, <1>2 DEF ToSet

(* A call that has no note has not started anything.                       *)
LEMMA NewCall == NoDeep \in Calls /\ ~Started(NoDeep)
BY WordsIn DEF NoDeep, Calls, Started, ToSet

(* McpInit: no call is under way and the cap has counted none.           *)
LEMMA DeepInitInv == McpInit => DeepInv
<1> SUFFICES ASSUME McpInit PROVE DeepInv
  OBVIOUS
<1>1. deep = [k \in DeepCalls |-> NoDeep] /\ spent = 0
  BY DEF McpInit
<1>2. CallInv(NoDeep)
  BY NewCall DEF CallInv, NoDeep
<1>3. Charged = {} /\ PerhapsCharged = {}
  <2>1. ~Failed(NoDeep)
    BY DEF Failed, NoDeep
  <2> QED
    BY <1>1, <2>1, NewCall DEF Charged, PerhapsCharged
<1> QED
  BY <1>1, <1>2, <1>3, NewCall, FS_EmptySet DEF DeepInv

(* What becomes of one call decides what is charged.                       *)
LEMMA CallChanges ==
    ASSUME DeepInv, NEW k \in DeepCalls, NEW d \in Calls, CallInv(d),
           deep' = [deep EXCEPT ![k] = d], deep[k].at # "done",
           Started(deep[k]) => Started(d),
           \/ Started(d) /\ ~Started(deep[k]) /\ spent' = spent + 1
           \/ ~Started(d) /\ Failed(d) /\ spent' \in {spent, spent + 1}
           \/ (Started(d) <=> Started(deep[k])) /\ ~Failed(d) /\ spent' = spent
    PROVE  DeepInv'
<1>1. /\ deep \in [DeepCalls -> Calls] /\ \A c \in DeepCalls : CallInv(deep[c])
      /\ IsFiniteSet(Charged) /\ IsFiniteSet(PerhapsCharged)
      /\ spent \in Nat /\ Cardinality(Charged) <= spent /\ spent <= Cardinality(PerhapsCharged)
      /\ Cardinality(Charged) \in Nat /\ Cardinality(PerhapsCharged) \in Nat
  BY FS_CardinalityType DEF DeepInv
<1>2. /\ deep' \in [DeepCalls -> Calls] /\ deep'[k] = d
      /\ \A c \in DeepCalls : c # k => deep'[c] = deep[c]
  BY <1>1
<1>3. \A c \in DeepCalls : CallInv(deep'[c])
  BY <1>1, <1>2
<1>4. ~Failed(deep[k])
  BY DEF Failed
<1>a. CASE Started(d) /\ ~Started(deep[k]) /\ spent' = spent + 1
  <2>1. Charged' = Charged \cup {k} /\ k \notin Charged
    BY <1>2, <1>a DEF Charged
  <2>2. PerhapsCharged' = PerhapsCharged \cup {k} /\ k \notin PerhapsCharged
    BY <1>2, <1>4, <1>a DEF PerhapsCharged
  <2>3. /\ IsFiniteSet(Charged') /\ Cardinality(Charged') = Cardinality(Charged) + 1
        /\ IsFiniteSet(PerhapsCharged') /\ Cardinality(PerhapsCharged') = Cardinality(PerhapsCharged) + 1
    BY <1>1, <2>1, <2>2, FS_AddElement
  <2> QED
    BY <1>1, <1>2, <1>3, <1>a, <2>3 DEF DeepInv
<1>b. CASE ~Started(d) /\ Failed(d) /\ spent' \in {spent, spent + 1}
  <2>1. Charged' = Charged
    BY <1>2, <1>b DEF Charged
  <2>2. PerhapsCharged' = PerhapsCharged \cup {k} /\ k \notin PerhapsCharged
    BY <1>2, <1>4, <1>b DEF PerhapsCharged
  <2>3. IsFiniteSet(PerhapsCharged') /\ Cardinality(PerhapsCharged') = Cardinality(PerhapsCharged) + 1
    BY <1>1, <2>2, FS_AddElement
  <2> QED
    BY <1>1, <1>2, <1>3, <1>b, <2>1, <2>3 DEF DeepInv
<1>c. CASE (Started(d) <=> Started(deep[k])) /\ ~Failed(d) /\ spent' = spent
  <2>1. Charged' = Charged
    BY <1>2, <1>c DEF Charged
  <2>2. PerhapsCharged' = PerhapsCharged
    BY <1>2, <1>4, <1>c DEF PerhapsCharged
  <2> QED
    BY <1>1, <1>2, <1>3, <1>c, <2>1, <2>2 DEF DeepInv
<1> QED
  BY <1>a, <1>b, <1>c

(* Every step of a call keeps the count and the audit lines.             *)
LEMMA DeepStep == DeepInv /\ [DeepNext]_mcpVars => DeepInv'
<1> SUFFICES ASSUME DeepInv, [DeepNext]_mcpVars PROVE DeepInv'
  OBVIOUS
<1>1. ASSUME NEW k \in DeepCalls, CallDeep(k) PROVE DeepInv'
  <2> DEFINE a == Finish(Audit(NoDeep, "error_invalid"), "invalid")
             b == [Notify(NoDeep, "validation_complete") EXCEPT !.at = "cap"]
  <2>1. deep[k].at = "none" /\ spent' = spent /\ ~Started(deep[k])
    BY <1>1 DEF CallDeep, DeepInv, CallInv
  <2>2. a \in Calls /\ ~Started(a) /\ ~Failed(a) /\ CallInv(a)
    <3> DEFINE u == Audit(NoDeep, "error_invalid")
    <3>1. u \in Calls /\ u.notes = <<>> /\ u.lines = Append(<<>>, "error_invalid")
      BY NewCall, Audited, WordsIn DEF NoDeep
    <3> HIDE DEF u
    <3>2. a \in Calls /\ a.at = "done" /\ a.notes = <<>> /\ a.lines = Append(<<>>, "error_invalid")
          /\ a.outcome = "invalid"
      <4>1. a = Finish(u, "invalid") /\ "invalid" \in Words
        BY WordsIn DEF u
      <4> HIDE DEF a
      <4> QED
        BY <3>1, <4>1, Finished
    <3> HIDE DEF a
    <3>3. ~Started(a)
      BY <3>2 DEF Started, ToSet
    <3> QED
      BY <3>2, <3>3 DEF CallInv, Failed
  <2>3. b \in Calls /\ ~Started(b) /\ ~Failed(b) /\ CallInv(b)
    <3> DEFINE n == Notify(NoDeep, "validation_complete")
    <3>1. n \in Calls /\ n.notes = Append(<<>>, "validation_complete") /\ n.lines = <<>> /\ n.outcome = "none"
      BY NewCall, Noted, WordsIn DEF NoDeep
    <3> HIDE DEF n
    <3>2. /\ b \in Calls /\ b.at = "cap" /\ b.notes = Append(<<>>, "validation_complete")
          /\ b.lines = <<>> /\ b.outcome = "none"
      BY <3>1, Moved, WordsIn DEF n
    <3> HIDE DEF b
    <3>3. ToSet(Append(<<>>, "validation_complete")) = ToSet(<<>>) \cup {"validation_complete"}
      BY NoteAdded, WordsIn
    <3>4. ~Started(b)
      BY <3>2, <3>3 DEF Started, ToSet
    <3> QED
      BY <3>2, <3>4 DEF CallInv, Failed
  <2>4. deep' = [deep EXCEPT ![k] = a] \/ deep' = [deep EXCEPT ![k] = b]
    BY <1>1 DEF CallDeep
  <2> HIDE DEF a, b
  <2> QED
    BY <2>1, <2>2, <2>3, <2>4, CallChanges
<1>2. ASSUME NEW k \in DeepCalls, CapChecked(k) PROVE DeepInv'
  <2> DEFINE d == deep[k]
             p == Notify(d, "cap_check_passed")
             q == Notify(p, "pipeline_started")
             a == [q EXCEPT !.at = "pipeline"]
             b == Finish(Audit(d, "capped"), "cap_exceeded")
             c == Finish(d, "internal")
  <2>1. /\ d \in Calls /\ d.at = "cap" /\ ~Started(d) /\ d.lines = <<>> /\ d.outcome = "none"
        /\ d.notes \in Seq(Words)
    BY <1>2 DEF CapChecked, DeepInv, CallInv, Calls
  <2>2. \/ deep' = [deep EXCEPT ![k] = a] /\ spent' = spent + 1
        \/ deep' = [deep EXCEPT ![k] = b] /\ spent' = spent
        \/ deep' = [deep EXCEPT ![k] = c] /\ spent' \in {spent, spent + 1}
    BY <1>2 DEF CapChecked
  <2> HIDE DEF d
  <2>3. a \in Calls /\ Started(a) /\ CallInv(a)
    <3>1. p \in Calls /\ p.lines = <<>> /\ p.outcome = "none"
      BY <2>1, Noted, WordsIn
    <3> HIDE DEF p
    <3>2. /\ q \in Calls /\ q.notes = Append(p.notes, "pipeline_started")
          /\ q.lines = <<>> /\ q.outcome = "none" /\ p.notes \in Seq(Words)
      BY <3>1, Noted, WordsIn DEF Calls
    <3> HIDE DEF q
    <3>3. a \in Calls /\ a.at = "pipeline" /\ a.notes = q.notes /\ a.lines = <<>> /\ a.outcome = "none"
      BY <3>2, Moved, WordsIn
    <3> HIDE DEF a
    <3>4. Started(a)
      BY <3>2, <3>3, NoteAdded, WordsIn DEF Started
    <3> QED
      BY <3>3, <3>4 DEF CallInv
  <2>4. b \in Calls /\ ~Started(b) /\ ~Failed(b) /\ CallInv(b)
    <3> DEFINE u == Audit(d, "capped")
    <3>1. u \in Calls /\ u.notes = d.notes /\ u.lines = Append(d.lines, "capped")
      BY <2>1, Audited, WordsIn
    <3>0. b = Finish(u, "cap_exceeded")
      OBVIOUS
    <3> HIDE DEF u, b
    <3>2. b \in Calls /\ b.at = "done" /\ b.notes = d.notes /\ b.lines = Append(d.lines, "capped")
          /\ b.outcome = "cap_exceeded"
      <4>1. /\ b \in Calls /\ b.at = "done" /\ b.outcome = "cap_exceeded"
            /\ b.notes = u.notes /\ b.lines = u.lines
        <5>1. u \in Calls /\ "cap_exceeded" \in Words
          BY <3>1, WordsIn
        <5> QED
          BY <3>0, <5>1, Finished
      <4> QED
        BY <3>1, <4>1
    <3> QED
      BY <2>1, <3>2 DEF Started, CallInv, Failed
  <2>5. c \in Calls /\ ~Started(c) /\ Failed(c) /\ CallInv(c)
    <3>1. c \in Calls /\ c.at = "done" /\ c.notes = d.notes /\ c.lines = <<>> /\ c.outcome = "internal"
      BY <2>1, Finished, WordsIn
    <3> HIDE DEF c
    <3> QED
      BY <2>1, <3>1 DEF Started, CallInv, Failed
  <2> HIDE DEF a, b, c
  <2> QED
    BY <2>1, <2>2, <2>3, <2>4, <2>5, CallChanges DEF d
<1>3. ASSUME NEW k \in DeepCalls, PipelineReturns(k) PROVE DeepInv'
  <2> DEFINE d == deep[k]
             a == Finish(Audit(d, "error_pipeline_failed"), "internal")
             p == Notify(d, "pipeline_complete")
             q == Notify(p, "synthesis_complete")
             b(line) == Finish(Audit(q, line), "ok")
  <2>1. /\ d \in Calls /\ d.at = "pipeline" /\ Started(d) /\ d.lines = <<>> /\ d.outcome = "none"
        /\ d.notes \in Seq(Words) /\ spent' = spent
    BY <1>3 DEF PipelineReturns, DeepInv, CallInv, Calls
  <2>2. \/ deep' = [deep EXCEPT ![k] = a]
        \/ \E line \in {"success", "empty_corpus"} : deep' = [deep EXCEPT ![k] = b(line)]
    BY <1>3 DEF PipelineReturns
  <2> HIDE DEF d
  <2>3. a \in Calls /\ Started(a) /\ CallInv(a)
    <3> DEFINE u == Audit(d, "error_pipeline_failed")
    <3>1. u \in Calls /\ u.notes = d.notes /\ u.lines = Append(d.lines, "error_pipeline_failed")
      BY <2>1, Audited, WordsIn
    <3>0. a = Finish(u, "internal")
      OBVIOUS
    <3> HIDE DEF u, a
    <3>2. a \in Calls /\ a.at = "done" /\ a.notes = d.notes /\ a.outcome = "internal"
          /\ a.lines = Append(d.lines, "error_pipeline_failed")
      <4>1. /\ a \in Calls /\ a.at = "done" /\ a.outcome = "internal"
            /\ a.notes = u.notes /\ a.lines = u.lines
        <5>1. u \in Calls /\ "internal" \in Words
          BY <3>1, WordsIn
        <5> QED
          BY <3>0, <5>1, Finished
      <4> QED
        BY <3>1, <4>1
    <3> QED
      BY <2>1, <3>2 DEF Started, CallInv
  <2>4. ASSUME NEW line \in {"success", "empty_corpus"}
        PROVE  b(line) \in Calls /\ Started(b(line)) /\ CallInv(b(line))
    <3>1. p \in Calls /\ p.notes = Append(d.notes, "pipeline_complete") /\ p.lines = <<>>
      BY <2>1, Noted, WordsIn
    <3> HIDE DEF p
    <3>2. "pipeline_started" \in ToSet(p.notes) /\ p.notes \in Seq(Words)
      <4>1. ToSet(Append(d.notes, "pipeline_complete")) = ToSet(d.notes) \cup {"pipeline_complete"}
        BY <2>1, NoteAdded, WordsIn
      <4>2. p.notes \in Seq(Words)
        BY <3>1 DEF Calls
      <4> QED
        BY <2>1, <3>1, <4>1, <4>2 DEF Started
    <3>3. q \in Calls /\ q.notes = Append(p.notes, "synthesis_complete") /\ q.lines = <<>>
      BY <3>1, Noted, WordsIn
    <3>4. Started(q)
      BY <3>2, <3>3, NoteAdded, WordsIn DEF Started
    <3> HIDE DEF q
    <3> DEFINE u == Audit(q, line)
               e == b(line)
    <3>5. u \in Calls /\ u.notes = q.notes /\ u.lines = Append(q.lines, line)
      <4>1. line \in Words
        BY WordsIn
      <4> QED
        BY <3>3, <4>1, Audited
    <3>0. e = Finish(u, "ok")
      OBVIOUS
    <3> HIDE DEF u, e
    <3>6. e \in Calls /\ e.at = "done" /\ e.notes = q.notes /\ e.lines = Append(q.lines, line)
          /\ e.outcome = "ok"
      <4>1. /\ e \in Calls /\ e.at = "done" /\ e.outcome = "ok"
            /\ e.notes = u.notes /\ e.lines = u.lines
        <5>1. u \in Calls /\ "ok" \in Words
          BY <3>5, WordsIn
        <5> QED
          BY <3>0, <5>1, Finished
      <4> QED
        BY <3>5, <4>1
    <3>7. Started(e) /\ CallInv(e)
      <4>1. q.lines = <<>> /\ Started(e)
        BY <3>3, <3>4, <3>6 DEF Started
      <4> QED
        BY <3>6, <4>1 DEF CallInv
    <3> QED
      BY <3>6, <3>7 DEF e
  <2> HIDE DEF a, b
  <2>5. \A e : Started(e) => ~Failed(e)
    BY DEF Failed
  <2> QED
    BY <2>1, <2>2, <2>3, <2>4, <2>5, CallChanges DEF d
<1>4. CASE TransportEnds \/ GracePeriodEnds
  BY <1>4 DEF TransportEnds, GracePeriodEnds, deepVars, DeepInv, Charged, PerhapsCharged
<1>5. CASE UNCHANGED mcpVars
  BY <1>5 DEF mcpVars, DeepInv, Charged, PerhapsCharged
<1> QED
  BY <1>1, <1>2, <1>3, <1>4, <1>5 DEF DeepNext

(* The invariant says what the cap and the audit log promise.            *)
LEMMA DeepInvAccounted == DeepInv => DeepAccounted
<1> SUFFICES ASSUME DeepInv PROVE DeepAccounted
  OBVIOUS
<1>1. \A k \in DeepCalls : (Ran(k) <=> Started(deep[k])) /\ (CapFailed(k) <=> Failed(deep[k]))
  BY DEF Ran, Started, CapFailed, Failed
<1>2. /\ Charged = {k \in DeepCalls : Ran(k)}
      /\ PerhapsCharged = {k \in DeepCalls : Ran(k)} \cup {k \in DeepCalls : CapFailed(k)}
  BY <1>1 DEF Charged, PerhapsCharged
<1>3. spent \in Cardinality(Charged)..Cardinality(PerhapsCharged)
  BY FS_CardinalityType DEF DeepInv
<1>4. \A k \in DeepCalls :
         /\ deep[k].at = "done" => Len(deep[k].lines) = IF CapFailed(k) THEN 0 ELSE 1
         /\ deep[k].outcome = "ok" => Ran(k)
  BY <1>1 DEF DeepInv, CallInv, Failed
<1> QED
  BY <1>2, <1>3, <1>4 DEF DeepAccounted
-----------------------------------------------------------------------------
(* The audit trail: what is in the table, oldest first, and that it only   *)
(* grows.                                                                  *)
RowTypes == {"cap.evaluation", "cost.reconciled", "audit.export", "audit.partition_drop",
             "admin.replay"} \cup Targets
References == LLMCalls \cup 1..Months \cup Targets \cup {"tee", "replay"}
TrailRows == [type : RowTypes, decision : {"allow", "deny", "none"}, ref : References]
Unrelated(row) == row.type \notin {"cost.reconciled", "audit.partition_drop"}

(* The rows that were there stay, and none of the new ones is of a call or *)
(* of a dropped partition.                                                 *)
OnlyBystanders ==
    /\ \A i \in DOMAIN rows : i \in DOMAIN rows' /\ rows'[i] = rows[i]
    /\ \A i \in DOMAIN rows' \ DOMAIN rows : Unrelated(rows'[i])

(* A row of another part is appended.                                      *)
LEMMA OneRow ==
    ASSUME rows \in Seq(TrailRows), NEW row \in TrailRows, Unrelated(row), rows' = Append(rows, row)
    PROVE  rows' \in Seq(TrailRows) /\ OnlyBystanders
<1>1. /\ rows' \in Seq(TrailRows) /\ DOMAIN rows = 1..Len(rows) /\ Len(rows) \in Nat
      /\ DOMAIN rows' = 1..(Len(rows) + 1) /\ rows'[Len(rows) + 1] = row
      /\ \A i \in 1..Len(rows) : rows'[i] = rows[i]
  BY AppendProperties, LenProperties
<1>2. \A i \in 1..(Len(rows) + 1) : i \notin 1..Len(rows) => i = Len(rows) + 1
  BY <1>1
<1> QED
  BY <1>1, <1>2 DEF OnlyBystanders

(* A row that is written, or not, is one of the table's.                   *)
LEMMA WrittenOrNot ==
    ASSUME rows \in Seq(TrailRows), NEW row \in TrailRows, Unrelated(row),
           Emitted(row) \/ EmitFails
    PROVE  rows' \in Seq(TrailRows) /\ OnlyBystanders
<1>1. CASE rows' = Append(rows, row)
  BY <1>1, OneRow
<1>2. CASE rows' = rows
  BY <1>2 DEF OnlyBystanders
<1> QED
  BY <1>1, <1>2 DEF Emitted, EmitFails

(* DecisionLogged, ExportPartition and Replay write bystanders.            *)
LEMMA DecisionRows ==
    ASSUME rows \in Seq(TrailRows), DecisionLogged
    PROVE  rows' \in Seq(TrailRows) /\ OnlyBystanders
<1>1. PICK d \in {"allow", "deny", "degrade"} :
          LET row == Row("cap.evaluation", d, "tee") IN
          IF ValidDecision(d) THEN Emitted(row) \/ EmitFails ELSE EmitFails
  BY DEF DecisionLogged
<1>2. CASE EmitFails
  BY <1>2 DEF EmitFails, OnlyBystanders
<1>3. CASE ValidDecision(d)
  <2>1. /\ Row("cap.evaluation", d, "tee") \in TrailRows
        /\ Unrelated(Row("cap.evaluation", d, "tee"))
    BY <1>3 DEF Row, TrailRows, RowTypes, References, ValidDecision, Unrelated
  <2> QED
    BY <1>1, <1>3, <2>1, WrittenOrNot
<1> QED
  BY <1>1, <1>2, <1>3

(* An export adds at most a row that polls and cleanups ignore.            *)
LEMMA ExportRows ==
    ASSUME rows \in Seq(TrailRows), NEW m \in 1..Months, ExportPartition(m)
    PROVE  rows' \in Seq(TrailRows) /\ OnlyBystanders
<1>1. Row("audit.export", "none", m) \in TrailRows /\ Unrelated(Row("audit.export", "none", m))
  BY DEF Row, TrailRows, RowTypes, References, Unrelated
<1> QED
  BY <1>1, WrittenOrNot DEF ExportPartition

(* A replay adds at most rows that polls and cleanups ignore.              *)
LEMMA ReplayRows ==
    ASSUME rows \in Seq(TrailRows), Replay
    PROVE  rows' \in Seq(TrailRows) /\ OnlyBystanders
<1>1. PICK t \in Targets :
          \/ Emitted(Row("admin.replay", "deny", t)) \/ EmitFails
          \/ rows' \in {rows \o kept : kept \in
                {<<Row("admin.replay", "allow", t), Row(t, "allow", "replay")>>,
                 <<Row("admin.replay", "allow", t)>>, <<Row(t, "allow", "replay")>>, <<>>}}
  BY DEF Replay, Denied
<1>2. /\ \A d \in {"allow", "deny"} : /\ Row("admin.replay", d, t) \in TrailRows
                                      /\ Unrelated(Row("admin.replay", d, t))
      /\ Row(t, "allow", "replay") \in TrailRows /\ Unrelated(Row(t, "allow", "replay"))
  BY DEF Row, TrailRows, RowTypes, References, Unrelated, Targets
<1>3. CASE Emitted(Row("admin.replay", "deny", t)) \/ EmitFails
  BY <1>2, <1>3, WrittenOrNot
<1> DEFINE a == Row("admin.replay", "allow", t)
           b == Row(t, "allow", "replay")
<1>4. ASSUME NEW kept \in {<<a, b>>, <<a>>, <<b>>, <<>>}, rows' = rows \o kept
      PROVE  rows' \in Seq(TrailRows) /\ OnlyBystanders
  <2> HIDE DEF a, b
  <2>1. a \in TrailRows /\ b \in TrailRows /\ Unrelated(a) /\ Unrelated(b)
    BY <1>2 DEF a, b
  <2>2. /\ kept \in Seq(TrailRows) /\ \A j \in 1..Len(kept) : Unrelated(kept[j])
    <3>1. CASE kept = <<a, b>>
      BY <2>1, <3>1
    <3>2. CASE kept = <<a>>
      BY <2>1, <3>2
    <3>3. CASE kept = <<b>>
      BY <2>1, <3>3
    <3>4. CASE kept = <<>>
      BY <2>1, <3>4
    <3> QED
      BY <1>4, <3>1, <3>2, <3>3, <3>4
  <2>3. /\ rows' \in Seq(TrailRows) /\ Len(rows') = Len(rows) + Len(kept)
        /\ \A i \in 1..(Len(rows) + Len(kept)) :
              rows'[i] = IF i <= Len(rows) THEN rows[i] ELSE kept[i - Len(rows)]
    BY <1>4, <2>2, ConcatProperties
  <2>4. /\ DOMAIN rows = 1..Len(rows) /\ Len(rows) \in Nat /\ Len(kept) \in Nat
        /\ DOMAIN rows' = 1..(Len(rows) + Len(kept))
    BY <2>2, <2>3, LenProperties
  <2>5. \A i \in DOMAIN rows : i \in DOMAIN rows' /\ rows'[i] = rows[i]
    BY <2>3, <2>4
  <2>6. \A i \in DOMAIN rows' \ DOMAIN rows : i - Len(rows) \in 1..Len(kept) /\ rows'[i] = kept[i - Len(rows)]
    BY <2>3, <2>4
  <2> QED
    BY <2>2, <2>3, <2>5, <2>6 DEF OnlyBystanders
<1> QED
  BY <1>1, <1>3, <1>4

-----------------------------------------------------------------------------
(* Reconciliation: polls that do not overlap have one poller at work, its  *)
(* next log is not in the trail when it is about to write it, and no call  *)
(* has two rows. Without a late or a failed poll, a call logged before the *)
(* last poll is in the ledger, in the trail, or still before some poller.  *)
Polling == [at : {"idle", "ledger", "events", "emit"}, left : SUBSET LLMCalls,
            id : LLMCalls \cup {"none"}]
OnceEach ==
    \A c \in LLMCalls : \A i, j \in DOMAIN rows :
       rows[i] = Row("cost.reconciled", "none", c) /\ rows[j] = Row("cost.reconciled", "none", c) => i = j
Settled(c) ==
    Reconciled(c) \/ c \in ledger \/ \E p \in Pollers : poller[p].at # "idle" /\ c \in poller[p].left
Alone == \A p, q \in Pollers : poller[p].at # "idle" /\ poller[q].at # "idle" => p = q
ReconcileTypes ==
    /\ rows \in Seq(TrailRows) /\ minute \in Nat /\ ledger \subseteq LLMCalls
    /\ spend \in [LLMCalls -> Int] /\ \A c \in LLMCalls : spend[c] <= minute
    /\ poller \in [Pollers -> Polling]
    /\ \A p \in Pollers : poller[p].at # "idle" => poller[p].id \in poller[p].left
    /\ polls \in [last : Nat, late : BOOLEAN, failed : BOOLEAN, overlapped : BOOLEAN]
    /\ polls.last <= minute
NoneTwice == Alone /\ OnceEach /\ \A p \in Pollers : poller[p].at = "emit" => ~Reconciled(poller[p].id)
NoneMissed == \A c \in LLMCalls : spend[c] # Never /\ spend[c] < polls.last => Settled(c)
ReconcileInv ==
    /\ ReconcileTypes
    /\ ~polls.overlapped => NoneTwice
    /\ ~polls.late /\ ~polls.failed => NoneMissed

(* At first no call is logged and nobody polls.                            *)
LEMMA ReconcileInitInv == AuditInit => ReconcileInv
<1> SUFFICES ASSUME AuditInit PROVE ReconcileInv
  OBVIOUS
<1>1. /\ rows = <<>> /\ minute = 0 /\ ledger = {} /\ spend = [c \in LLMCalls |-> Never]
      /\ poller = [p \in Pollers |-> IdlePoll]
      /\ polls = [last |-> 0, late |-> FALSE, failed |-> FALSE, overlapped |-> FALSE]
  BY DEF AuditInit
<1>2. ReconcileTypes
  BY <1>1 DEF ReconcileTypes, Polling, IdlePoll, Never
<1>3. NoneTwice
  BY <1>1 DEF NoneTwice, Alone, OnceEach, IdlePoll
<1>4. NoneMissed
  BY <1>1 DEF NoneMissed, Never
<1> QED
  BY <1>2, <1>3, <1>4 DEF ReconcileInv

(* Bystanders change nothing for the calls.                                *)
LEMMA CallsUntouched ==
    ASSUME OnlyBystanders
    PROVE  /\ \A c : Reconciled(c) <=> Reconciled(c)'
           /\ OnceEach => OnceEach'
<1>1. \A c : ~Unrelated(Row("cost.reconciled", "none", c))
  BY DEF Unrelated, Row
<1>2. \A c : \A i \in DOMAIN rows' : rows'[i] = Row("cost.reconciled", "none", c) =>
                i \in DOMAIN rows /\ rows[i] = Row("cost.reconciled", "none", c)
  BY <1>1 DEF OnlyBystanders
<1>3. \A c : Reconciled(c) <=> Reconciled(c)'
  BY <1>2 DEF OnlyBystanders, Reconciled
<1>4. OnceEach => OnceEach'
  BY <1>2 DEF OnceEach
<1> QED
  BY <1>3, <1>4

(* Steps of the other parts leave the polls' rows alone.                   *)
LEMMA OthersReconcile ==
    ASSUME ReconcileInv, UNCHANGED reconcileVars, rows' \in Seq(TrailRows), OnlyBystanders
    PROVE  ReconcileInv'
<1>1. /\ minute' = minute /\ spend' = spend /\ ledger' = ledger /\ poller' = poller /\ polls' = polls
  BY DEF reconcileVars
<1>2. ReconcileTypes'
  BY <1>1 DEF ReconcileInv, ReconcileTypes
<1>3. NoneTwice => NoneTwice'
  BY <1>1, CallsUntouched DEF NoneTwice, Alone
<1>4. NoneMissed => NoneMissed'
  BY <1>1, CallsUntouched DEF NoneMissed, Settled
<1> QED
  BY <1>1, <1>2, <1>3, <1>4 DEF ReconcileInv

(* The clock, LiteLLM's log and the ledger.                                *)
LEMMA OutsideReconcile ==
    ASSUME ReconcileInv, MinutePasses \/ \E c \in LLMCalls : CallLogged(c) \/ LedgerWritten(c)
    PROVE  ReconcileInv'
<1>0. rows' = rows /\ poller' = poller /\ polls' = polls
  BY DEF MinutePasses, CallLogged, LedgerWritten
<1>1. NoneTwice => NoneTwice'
  BY <1>0 DEF NoneTwice, Alone, OnceEach, Reconciled
<1>2. CASE MinutePasses
  <2>1. minute' = minute + 1 /\ spend' = spend /\ ledger' = ledger
    BY <1>2 DEF MinutePasses
  <2>2. ReconcileTypes'
    BY <1>0, <2>1 DEF ReconcileInv, ReconcileTypes
  <2>3. NoneMissed => NoneMissed'
    BY <1>0, <2>1 DEF NoneMissed, Settled, Reconciled
  <2> QED
    BY <1>0, <1>1, <2>2, <2>3 DEF ReconcileInv
<1>3. ASSUME NEW c \in LLMCalls, CallLogged(c) PROVE ReconcileInv'
  <2>1. minute' = minute /\ spend' = [spend EXCEPT ![c] = minute] /\ ledger' = ledger
    BY <1>3 DEF CallLogged
  <2>2. ReconcileTypes'
    BY <1>0, <2>1 DEF ReconcileInv, ReconcileTypes
  <2>3. /\ spend'[c] = minute /\ minute \in Nat /\ polls.last \in Nat /\ polls.last <= minute
        /\ \A e \in LLMCalls : e # c => spend'[e] = spend[e]
    BY <2>1 DEF ReconcileInv, ReconcileTypes
  <2>4. \A e : Settled(e) => Settled(e)'
    BY <1>0, <2>1 DEF Settled, Reconciled
  <2>5. NoneMissed => NoneMissed'
    BY <1>0, <2>3, <2>4 DEF NoneMissed
  <2> QED
    BY <1>0, <1>1, <2>2, <2>5 DEF ReconcileInv
<1>4. ASSUME NEW c \in LLMCalls, LedgerWritten(c) PROVE ReconcileInv'
  <2>1. minute' = minute /\ spend' = spend /\ ledger' = ledger \cup {c}
    BY <1>4 DEF LedgerWritten
  <2>2. ReconcileTypes'
    BY <1>0, <2>1 DEF ReconcileInv, ReconcileTypes
  <2>3. NoneMissed => NoneMissed'
    BY <1>0, <2>1 DEF NoneMissed, Settled, Reconciled
  <2> QED
    BY <1>0, <1>1, <2>2, <2>3 DEF ReconcileInv
<1> QED
  BY <1>2, <1>3, <1>4

(* A poller at its next log, or done.                                      *)
LEMMA Turned ==
    ASSUME ReconcileTypes, NEW p \in Pollers, NEW left \in SUBSET LLMCalls, NEW failed \in BOOLEAN,
           Turn(p, left, failed)
    PROVE  /\ poller' \in [Pollers -> Polling] /\ \A q \in Pollers : q # p => poller'[q] = poller[q]
           /\ poller'[p].at \in {"idle", "ledger"}
           /\ poller'[p].at # "idle" => poller'[p].id \in poller'[p].left
           /\ left # {} => poller'[p].at # "idle" /\ poller'[p].left = left
           /\ polls' \in [last : Nat, late : BOOLEAN, failed : BOOLEAN, overlapped : BOOLEAN]
           /\ polls'.last = polls.last /\ polls'.late = polls.late /\ polls'.overlapped = polls.overlapped
           /\ polls'.failed = (polls.failed \/ failed)
<1> DEFINE next == IF left = {} THEN IdlePoll
                   ELSE [at |-> "ledger", left |-> left, id |-> CHOOSE c \in left : TRUE]
<1>1. /\ next \in Polling /\ next.at \in {"idle", "ledger"}
      /\ next.at # "idle" => next.id \in next.left
      /\ left # {} => next.at # "idle" /\ next.left = left
  BY DEF Polling, IdlePoll
<1>2. poller' = [poller EXCEPT ![p] = next] /\ polls' = [polls EXCEPT !.failed = @ \/ failed]
  BY DEF Turn
<1> HIDE DEF next
<1>3. /\ poller' \in [Pollers -> Polling] /\ poller'[p] = next
      /\ \A q \in Pollers : q # p => poller'[q] = poller[q]
  BY <1>1, <1>2 DEF ReconcileTypes
<1>4. /\ polls' \in [last : Nat, late : BOOLEAN, failed : BOOLEAN, overlapped : BOOLEAN]
      /\ polls'.last = polls.last /\ polls'.late = polls.late /\ polls'.overlapped = polls.overlapped
      /\ polls'.failed = (polls.failed \/ failed)
  BY <1>2 DEF ReconcileTypes
<1> QED
  BY <1>1, <1>3, <1>4

(* A log is behind the poller once it is known or something failed.        *)
LEMMA LogDone ==
    ASSUME ReconcileInv, NEW p \in Pollers, poller[p].at # "idle", NEW failed \in BOOLEAN,
           NEW id, id = poller[p].id, Turn(p, poller[p].left \ {id}, failed),
           UNCHANGED <<minute, spend, ledger>>,
           rows' \in Seq(TrailRows), \A c : Reconciled(c) => Reconciled(c)',
           NoneTwice => OnceEach',
           failed \/ id \in ledger \/ Reconciled(id)'
    PROVE  ReconcileInv'
<1> DEFINE left == poller[p].left \ {id}
<1>1. /\ ReconcileTypes /\ left \in SUBSET LLMCalls
      /\ minute' = minute /\ spend' = spend /\ ledger' = ledger
      /\ Turn(p, left, failed)
  BY DEF ReconcileInv, ReconcileTypes, Polling
<1> HIDE DEF left
<1>2. /\ poller' \in [Pollers -> Polling] /\ \A q \in Pollers : q # p => poller'[q] = poller[q]
      /\ poller'[p].at \in {"idle", "ledger"}
      /\ poller'[p].at # "idle" => poller'[p].id \in poller'[p].left
      /\ left # {} => poller'[p].at # "idle" /\ poller'[p].left = left
      /\ polls' \in [last : Nat, late : BOOLEAN, failed : BOOLEAN, overlapped : BOOLEAN]
      /\ polls'.last = polls.last /\ polls'.late = polls.late /\ polls'.overlapped = polls.overlapped
      /\ polls'.failed = (polls.failed \/ failed)
  BY <1>1, Turned
<1>3. ReconcileTypes'
  BY <1>1, <1>2 DEF ReconcileTypes
<1>4. NoneTwice => NoneTwice'
  <2>1. Alone => Alone'
    BY <1>2 DEF Alone
  <2>2. ASSUME NoneTwice, NEW q \in Pollers, poller'[q].at = "emit"
        PROVE  \A c : c = poller'[q].id => ~Reconciled(c)'
    <3>1. q # p /\ poller[q].at = "emit"
      BY <1>2, <2>2
    <3> QED
      BY <2>2, <3>1 DEF NoneTwice, Alone
  <2> QED
    BY <2>1, <2>2 DEF NoneTwice, Reconciled
<1>5. ASSUME NoneMissed, ~failed, NEW c \in LLMCalls, spend'[c] # Never, spend'[c] < polls'.last
      PROVE  Settled(c)'
  <2>1. Settled(c)
    BY <1>1, <1>2, <1>5 DEF NoneMissed
  <2>2. CASE Reconciled(c) \/ c \in ledger
    BY <1>1, <2>2 DEF Settled
  <2>3. CASE \E q \in Pollers : poller[q].at # "idle" /\ c \in poller[q].left
    <3>1. PICK q \in Pollers : poller[q].at # "idle" /\ c \in poller[q].left
      BY <2>3
    <3>2. CASE q # p
      BY <1>2, <3>1, <3>2 DEF Settled
    <3>3. CASE q = p /\ c = id
      BY <1>1, <1>5, <3>3 DEF Settled
    <3>4. CASE q = p /\ c # id
      <4>1. c \in left
        BY <3>1, <3>4 DEF left
      <4> QED
        BY <1>2, <4>1 DEF Settled
    <3> QED
      BY <3>2, <3>3, <3>4
  <2> QED
    BY <2>1, <2>2, <2>3 DEF Settled
<1> QED
  BY <1>2, <1>3, <1>4, <1>5 DEF ReconcileInv, NoneMissed

(* FetchSpendLogs: what an unlate poll does not list, the poll before did. *)
LEMMA FetchStep ==
    ASSUME ReconcileInv, NEW p \in Pollers, FetchSpendLogs(p) PROVE ReconcileInv'
<1> DEFINE next == IF InWindow = {} THEN IdlePoll
                   ELSE [at |-> "ledger", left |-> InWindow, id |-> CHOOSE c \in InWindow : TRUE]
<1>1. /\ rows' = rows /\ minute' = minute /\ spend' = spend /\ ledger' = ledger /\ ReconcileTypes
      /\ poller[p].at = "idle"
  BY DEF FetchSpendLogs, ReconcileInv
<1>2. CASE UNCHANGED <<poller, polls>>
  BY <1>1, <1>2 DEF ReconcileInv, ReconcileTypes, NoneTwice, NoneMissed, Alone, OnceEach, Settled, Reconciled
<1>3. CASE /\ poller' = [poller EXCEPT ![p] = next]
           /\ polls' = [polls EXCEPT !.last = minute,
                                     !.late = @ \/ minute > polls.last + Interval + 1,
                                     !.overlapped = @ \/ \E q \in Pollers : poller[q].at # "idle"]
  <2>1. /\ next \in Polling /\ next.at \in {"idle", "ledger"}
        /\ next.at # "idle" => next.id \in next.left
        /\ InWindow # {} => next.at # "idle" /\ next.left = InWindow
    BY DEF Polling, IdlePoll, InWindow
  <2>2. /\ poller' \in [Pollers -> Polling] /\ poller'[p] = next
        /\ \A q \in Pollers : q # p => poller'[q] = poller[q]
    <3> HIDE DEF next
    <3> QED
      BY <1>1, <1>3, <2>1 DEF ReconcileTypes
  <2>3. /\ polls' \in [last : Nat, late : BOOLEAN, failed : BOOLEAN, overlapped : BOOLEAN]
        /\ polls'.last = minute /\ polls'.failed = polls.failed
        /\ polls'.late = (polls.late \/ minute > polls.last + Interval + 1)
        /\ polls'.overlapped = (polls.overlapped \/ \E q \in Pollers : poller[q].at # "idle")
    BY <1>1, <1>3 DEF ReconcileTypes
  <2> HIDE DEF next
  <2>4. ReconcileTypes'
    BY <1>1, <2>1, <2>2, <2>3 DEF ReconcileTypes
  <2>5. ASSUME ~polls'.overlapped PROVE NoneTwice'
    <3>1. NoneTwice /\ \A q \in Pollers : poller[q].at = "idle"
      BY <2>3, <2>5 DEF ReconcileInv
    <3>2. Alone' /\ \A q \in Pollers : poller'[q].at # "emit"
      BY <2>1, <2>2, <3>1 DEF Alone
    <3>3. OnceEach'
      BY <1>1, <3>1 DEF NoneTwice, OnceEach
    <3> QED
      BY <3>2, <3>3 DEF NoneTwice
  <2>6. ASSUME ~polls'.late, ~polls'.failed, NEW c \in LLMCalls, spend'[c] # Never, spend'[c] < polls'.last
        PROVE  Settled(c)'
    <3>1. NoneMissed /\ minute <= polls.last + Interval + 1
      BY <1>1, <2>3, <2>6, AuditAssumption DEF ReconcileInv, ReconcileTypes
    <3>2. CASE spend[c] < polls.last
      <4>1. Settled(c)
        BY <1>1, <2>6, <3>1, <3>2 DEF NoneMissed
      <4> QED
        BY <1>1, <2>2, <4>1 DEF Settled, Reconciled
    <3>3. CASE spend[c] >= polls.last
      <4>1. c \in InWindow
        BY <1>1, <2>6, <3>1, <3>3, AuditAssumption DEF InWindow, WindowStart, ReconcileTypes
      <4> QED
        BY <2>1, <2>2, <4>1 DEF Settled
    <3> QED
      BY <1>1, <3>2, <3>3 DEF ReconcileTypes
  <2> QED
    BY <2>4, <2>5, <2>6 DEF ReconcileInv, NoneMissed
<1> QED
  BY <1>2, <1>3 DEF FetchSpendLogs

(* A poller that asks on: only its place in the log changes.               *)
LEMMA AskOn ==
    ASSUME ReconcileInv, NEW p \in Pollers, poller[p].at # "idle", NEW at \in {"events", "emit"},
           poller' = [poller EXCEPT ![p].at = at], UNCHANGED <<rows, minute, spend, ledger, polls>>,
           at = "emit" => ~Reconciled(poller[p].id)
    PROVE  ReconcileInv'
<1>1. /\ rows' = rows /\ minute' = minute /\ spend' = spend /\ ledger' = ledger /\ polls' = polls
      /\ ReconcileTypes
  BY DEF ReconcileInv
<1>2. /\ poller' \in [Pollers -> Polling] /\ poller'[p].at = at
      /\ \A q \in Pollers : poller'[q].id = poller[q].id /\ poller'[q].left = poller[q].left
      /\ \A q \in Pollers : q # p => poller'[q].at = poller[q].at
  BY <1>1 DEF ReconcileTypes, Polling
<1>3. ReconcileTypes'
  BY <1>1, <1>2 DEF ReconcileTypes
<1>4. NoneTwice => NoneTwice'
  BY <1>1, <1>2 DEF NoneTwice, Alone, OnceEach, Reconciled
<1>5. NoneMissed => NoneMissed'
  BY <1>1, <1>2 DEF NoneMissed, Settled, Reconciled
<1> QED
  BY <1>1, <1>3, <1>4, <1>5 DEF ReconcileInv

(* Looking a call up in the ledger inserts nothing.                        *)
LEMMA LedgerStep ==
    ASSUME ReconcileInv, NEW p \in Pollers, ExistsInCostLedger(p) PROVE ReconcileInv'
<1>0. PICK id : id = poller[p].id
  OBVIOUS
<1> DEFINE left == poller[p].left \ {id}
<1>1. /\ rows' = rows /\ UNCHANGED <<minute, spend, ledger>> /\ poller[p].at = "ledger"
      /\ \A c : Reconciled(c) <=> Reconciled(c)'
      /\ rows' \in Seq(TrailRows)
      /\ NoneTwice => OnceEach'
  BY DEF ExistsInCostLedger, Reconciled, ReconcileInv, ReconcileTypes, NoneTwice, OnceEach
<1>2. CASE Turn(p, left, TRUE)
  BY <1>0, <1>1, <1>2, LogDone
<1>3. CASE id \in ledger /\ Turn(p, left, FALSE)
  BY <1>0, <1>1, <1>3, LogDone
<1>4. CASE poller' = [poller EXCEPT ![p].at = "events"] /\ UNCHANGED polls
  BY <1>1, <1>4, AskOn
<1> QED
  BY <1>0, <1>2, <1>3, <1>4 DEF ExistsInCostLedger

(* Looking a call up in the events inserts nothing.                        *)
LEMMA EventsStep ==
    ASSUME ReconcileInv, NEW p \in Pollers, CheckAuditEvents(p) PROVE ReconcileInv'
<1>0. PICK id : id = poller[p].id
  OBVIOUS
<1> DEFINE left == poller[p].left \ {id}
<1>1. /\ rows' = rows /\ UNCHANGED <<minute, spend, ledger>> /\ poller[p].at = "events"
      /\ \A c : Reconciled(c) <=> Reconciled(c)'
      /\ rows' \in Seq(TrailRows)
      /\ NoneTwice => OnceEach'
  BY DEF CheckAuditEvents, Reconciled, ReconcileInv, ReconcileTypes, NoneTwice, OnceEach
<1>2. CASE Turn(p, left, TRUE)
  BY <1>0, <1>1, <1>2, LogDone
<1>3. CASE Reconciled(id) /\ Turn(p, left, FALSE)
  BY <1>0, <1>1, <1>3, LogDone
<1>4. CASE /\ ~Reconciled(poller[p].id) /\ poller' = [poller EXCEPT ![p].at = "emit"]
           /\ UNCHANGED polls
  BY <1>1, <1>4, AskOn
<1> QED
  BY <1>0, <1>2, <1>3, <1>4 DEF CheckAuditEvents, ExistsInAuditEvents

(* EmitReconciled: the call's first row, as long as nobody else polls.     *)
LEMMA EmitStep ==
    ASSUME ReconcileInv, NEW p \in Pollers, EmitReconciled(p) PROVE ReconcileInv'
<1>0. PICK id : id = poller[p].id
  OBVIOUS
<1> DEFINE left == poller[p].left \ {id}
           row == Row("cost.reconciled", "none", id)
<1>1. /\ UNCHANGED <<minute, spend, ledger>> /\ poller[p].at = "emit" /\ rows \in Seq(TrailRows)
      /\ id \in LLMCalls
  BY <1>0 DEF EmitReconciled, ReconcileInv, ReconcileTypes, Polling
<1>2. CASE EmitFails /\ Turn(p, left, TRUE)
  <2>1. /\ rows' = rows
        /\ NoneTwice => OnceEach'
        /\ \A c : Reconciled(c) <=> Reconciled(c)'
    BY <1>2 DEF EmitFails, NoneTwice, OnceEach, Reconciled
  <2> QED
    BY <1>0, <1>1, <1>2, <2>1, LogDone
<1>3. CASE rows' = Append(rows, row) /\ Turn(p, left, FALSE)
  <2>1. row \in TrailRows
    BY <1>1 DEF Row, TrailRows, RowTypes, References
  <2> HIDE DEF row
  <2>2. /\ rows' \in Seq(TrailRows) /\ DOMAIN rows = 1..Len(rows) /\ Len(rows) \in Nat
        /\ DOMAIN rows' = 1..(Len(rows) + 1) /\ rows'[Len(rows) + 1] = row
        /\ \A i \in 1..Len(rows) : rows'[i] = rows[i]
    BY <1>1, <1>3, <2>1, AppendProperties, LenProperties
  <2>3. \A i \in DOMAIN rows' : i \in DOMAIN rows \/ i = Len(rows) + 1
    BY <2>2
  <2>4. /\ \A i \in DOMAIN rows : i \in DOMAIN rows' /\ rows'[i] = rows[i]
        /\ Len(rows) + 1 \in DOMAIN rows'
    BY <2>2
  <2>5. \A c : c # id => row # Row("cost.reconciled", "none", c)
    BY DEF row, Row
  <2>6. Reconciled(id)' /\ \A c : Reconciled(c) => Reconciled(c)'
    BY <2>2, <2>4 DEF Reconciled, row
  <2>7. \A c : c # id => (Reconciled(c)' => Reconciled(c))
    BY <2>2, <2>3, <2>4, <2>5 DEF Reconciled
  <2>8. ASSUME NoneTwice PROVE OnceEach'
    <3>1. ~Reconciled(id) /\ OnceEach
      BY <1>0, <1>1, <2>8 DEF NoneTwice
    <3>2. \A i \in DOMAIN rows : rows[i] # Row("cost.reconciled", "none", id)
      BY <3>1 DEF Reconciled
    <3> QED
      BY <2>2, <2>3, <2>4, <2>5, <3>1, <3>2 DEF OnceEach
  <2> QED
    BY <1>0, <1>1, <1>3, <2>2, <2>6, <2>7, <2>8, LogDone
<1> QED
  BY <1>0, <1>2, <1>3 DEF EmitReconciled, Emitted

(* Every step of the jobs keeps the reconciler's invariant.                *)
LEMMA DropRows ==
    ASSUME rows \in Seq(TrailRows), DropRecorded, cleaner.month \in 1..Months
    PROVE  /\ rows' \in Seq(TrailRows)
           /\ \A i \in DOMAIN rows : i \in DOMAIN rows' /\ rows'[i] = rows[i]
           /\ \A i \in DOMAIN rows' \ DOMAIN rows :
                 rows'[i] = Row("audit.partition_drop", "none", cleaner.month)
<1> DEFINE row == Row("audit.partition_drop", "none", cleaner.month)
<1>1. row \in TrailRows /\ (rows' = Append(rows, row) \/ rows' = rows)
  BY DEF Row, TrailRows, RowTypes, References, DropRecorded, Emitted, EmitFails
<1> HIDE DEF row
<1>2. CASE rows' = Append(rows, row)
  <2>1. /\ rows' \in Seq(TrailRows) /\ DOMAIN rows = 1..Len(rows) /\ Len(rows) \in Nat
        /\ DOMAIN rows' = 1..(Len(rows) + 1) /\ rows'[Len(rows) + 1] = row
        /\ \A i \in 1..Len(rows) : rows'[i] = rows[i]
    BY <1>1, <1>2, AppendProperties, LenProperties
  <2>2. \A i \in 1..(Len(rows) + 1) : i \notin 1..Len(rows) => i = Len(rows) + 1
    BY <2>1
  <2> QED
    BY <2>1, <2>2 DEF row
<1>3. CASE rows' = rows
  BY <1>3
<1> QED
  BY <1>1, <1>2, <1>3

(* A row of a dropped partition is of no call.                             *)
LEMMA DropReconciles ==
    ASSUME ReconcileInv, DropRecorded, cleaner.month \in 1..Months
    PROVE  ReconcileInv'
<1>1. /\ rows \in Seq(TrailRows) /\ UNCHANGED reconcileVars
  BY DEF ReconcileInv, ReconcileTypes, DropRecorded
<1>2. /\ rows' \in Seq(TrailRows)
      /\ \A i \in DOMAIN rows : i \in DOMAIN rows' /\ rows'[i] = rows[i]
      /\ \A i \in DOMAIN rows' \ DOMAIN rows : \A c : rows'[i] # Row("cost.reconciled", "none", c)
  BY <1>1, DropRows DEF Row
<1>3. /\ \A c : Reconciled(c) <=> Reconciled(c)'
      /\ OnceEach => OnceEach'
  BY <1>2 DEF Reconciled, OnceEach
<1>4. /\ minute' = minute /\ spend' = spend /\ ledger' = ledger /\ poller' = poller /\ polls' = polls
  BY <1>1 DEF reconcileVars
<1>5. ReconcileTypes'
  BY <1>2, <1>4 DEF ReconcileInv, ReconcileTypes
<1>6. NoneTwice => NoneTwice'
  BY <1>3, <1>4 DEF NoneTwice, Alone
<1>7. NoneMissed => NoneMissed'
  BY <1>3, <1>4 DEF NoneMissed, Settled
<1> QED
  BY <1>4, <1>5, <1>6, <1>7 DEF ReconcileInv

-----------------------------------------------------------------------------
(* Retention: a cutoff of the cleanup lies its retention back, a listed    *)
(* partition that was archived still is or is gone, and what is gone was   *)
(* past retention; the trail names as dropped only what is gone.           *)
Gone(m) == months[m] \in {"dropped", "lost"}
Cleaning == [at : {"idle", "next", "emit"}, listed : SUBSET [month : 1..Months, archived : BOOLEAN],
             month : Int, cutoff : Int]
RetentionTypes ==
    /\ months \in [1..Months -> {"live", "archived", "dropped", "lost"}]
    /\ cleaner \in Cleaning /\ auditDay \in Nat
CleanerSound ==
    /\ cleaner.at # "idle" => cleaner.cutoff <= auditDay - RetentionHotDays
    /\ \A p \in cleaner.listed : p.archived => months[p.month] # "live"
    /\ cleaner.at = "emit" => cleaner.month \in 1..Months /\ Gone(cleaner.month)
GoneSound == \A m \in 1..Months :
    /\ Gone(m) => Old(m, auditDay - RetentionHotDays)
    /\ RequireS3Archive => months[m] # "lost"
DropsTold == \A i \in DOMAIN rows : rows[i].type = "audit.partition_drop" =>
                rows[i].ref \in 1..Months /\ Gone(rows[i].ref)
RetentionInv == RetentionTypes /\ CleanerSound /\ GoneSound /\ DropsTold

(* At first every partition is live.                                       *)
LEMMA RetentionInitInv == AuditInit => RetentionInv
<1> SUFFICES ASSUME AuditInit PROVE RetentionInv
  OBVIOUS
<1>1. /\ rows = <<>> /\ months = [m \in 1..Months |-> "live"] /\ cleaner = IdleCleaner /\ auditDay = 0
  BY DEF AuditInit
<1> QED
  BY <1>1 DEF RetentionInv, RetentionTypes, CleanerSound, GoneSound, DropsTold, IdleCleaner, Cleaning, Gone

(* Rows of another kind, while the partitions stay as they are.            *)
LEMMA OthersRetain ==
    ASSUME RetentionInv, UNCHANGED retentionVars,
           \A i \in DOMAIN rows' : \/ i \in DOMAIN rows /\ rows'[i] = rows[i]
                                   \/ rows'[i].type # "audit.partition_drop"
    PROVE  RetentionInv'
<1>1. months' = months /\ cleaner' = cleaner /\ auditDay' = auditDay
  BY DEF retentionVars
<1>2. DropsTold'
  BY <1>1 DEF RetentionInv, DropsTold, Gone
<1> QED
  BY <1>1, <1>2 DEF RetentionInv, RetentionTypes, CleanerSound, GoneSound, Gone, Old, RangeStart

(* What is gone stays gone, and what was archived is never live again.     *)
LEMMA RetentionStep ==
    ASSUME RetentionInv, rows \in Seq(TrailRows), RetentionNext
    PROVE  RetentionInv'
<1> USE AuditAssumption DEF AuditAssumption
<1>0. \A m \in 1..Months : RangeStart(m) \in Int
  BY DEF RangeStart
<1>1. CASE RetentionDay
  <2>1. /\ auditDay' = auditDay + 1 /\ months' = months /\ cleaner' = cleaner /\ rows' = rows
    BY <1>1 DEF RetentionDay
  <2>2. RetentionTypes' /\ DropsTold'
    BY <2>1 DEF RetentionInv, RetentionTypes, DropsTold, Gone
  <2>3. CleanerSound'
    BY <2>1 DEF RetentionInv, RetentionTypes, Cleaning, CleanerSound, Gone
  <2>4. GoneSound'
    BY <1>0, <2>1 DEF RetentionInv, RetentionTypes, GoneSound, Gone, Old
  <2> QED
    BY <2>2, <2>3, <2>4 DEF RetentionInv
<1>2. CASE RunCleanup
  <2> DEFINE live == {m \in 1..Months : months[m] \in {"live", "archived"} /\ RangeStart(m) <= auditDay}
             listed == {[month |-> m, archived |-> months[m] = "archived"] : m \in live}
  <2>1. /\ cleaner' = [at |-> "next", month |-> 0, cutoff |-> auditDay - RetentionHotDays, listed |-> listed]
        /\ auditDay' = auditDay /\ months' = months /\ rows' = rows
    BY <1>2 DEF RunCleanup
  <2>2. /\ listed \in SUBSET [month : 1..Months, archived : BOOLEAN]
        /\ \A p \in listed : p.archived => months[p.month] # "live"
    <3>1. \A m \in live : m \in 1..Months
      OBVIOUS
    <3> HIDE DEF live
    <3>2. \A p \in listed : \E m \in 1..Months, b \in BOOLEAN :
             p = [month |-> m, archived |-> b] /\ (b => months[m] = "archived")
      BY <3>1
    <3> HIDE DEF listed
    <3>3. \A p \in listed : /\ p \in [month : 1..Months, archived : BOOLEAN]
                            /\ p.archived => months[p.month] # "live"
      BY <3>2
    <3> QED
      BY <3>3
  <2> HIDE DEF listed
  <2>3. RetentionTypes' /\ CleanerSound'
    BY <2>1, <2>2 DEF RetentionInv, RetentionTypes, Cleaning, CleanerSound
  <2>4. GoneSound' /\ DropsTold'
    BY <2>1 DEF RetentionInv, GoneSound, DropsTold, Gone, Old, RangeStart
  <2> QED
    BY <2>3, <2>4 DEF RetentionInv
<1>3. CASE NextPartition
  <2>0. cleaner.at = "next" /\ auditDay' = auditDay /\ rows' = rows
    BY <1>3 DEF NextPartition
  <2>1. CASE cleaner' = IdleCleaner /\ UNCHANGED months
    BY <2>0, <2>1 DEF RetentionInv, RetentionTypes, CleanerSound, GoneSound, DropsTold, IdleCleaner,
                      Cleaning, Gone, Old, RangeStart
  <2>2. ASSUME NEW p \in cleaner.listed, cleaner' = [cleaner EXCEPT !.listed = @ \ {p}], UNCHANGED months
        PROVE  RetentionInv'
    <3>1. /\ cleaner' \in Cleaning /\ cleaner'.at = "next" /\ cleaner'.cutoff = cleaner.cutoff
          /\ cleaner'.listed = cleaner.listed \ {p}
      BY <2>0, <2>2 DEF RetentionInv, RetentionTypes, Cleaning
    <3>2. RetentionTypes' /\ CleanerSound'
      BY <2>0, <2>2, <3>1 DEF RetentionInv, RetentionTypes, CleanerSound
    <3> QED
      BY <2>0, <2>2, <3>2 DEF RetentionInv, GoneSound, DropsTold, Gone, Old, RangeStart
  <2>3. ASSUME NEW p \in cleaner.listed, Droppable(p, cleaner.cutoff),
               months' = [months EXCEPT ![p.month] = IF @ = "live" THEN "lost" ELSE "dropped"],
               cleaner' = [[cleaner EXCEPT !.listed = @ \ {p}] EXCEPT !.at = "emit", !.month = p.month]
        PROVE  RetentionInv'
    <3>0. p.month \in 1..Months /\ p.archived \in BOOLEAN
      BY DEF RetentionInv, RetentionTypes, Cleaning
    <3>1. /\ months' \in [1..Months -> {"live", "archived", "dropped", "lost"}]
          /\ \A m \in 1..Months : m # p.month => months'[m] = months[m]
          /\ months'[p.month] = IF months[p.month] = "live" THEN "lost" ELSE "dropped"
      BY <2>3, <3>0 DEF RetentionInv, RetentionTypes
    <3>2. /\ cleaner' \in Cleaning /\ cleaner'.at = "emit" /\ cleaner'.cutoff = cleaner.cutoff
          /\ cleaner'.listed = cleaner.listed \ {p} /\ cleaner'.month = p.month
      <4> DEFINE rest == [cleaner EXCEPT !.listed = @ \ {p}]
      <4>1. /\ rest \in Cleaning /\ rest.cutoff = cleaner.cutoff /\ rest.listed = cleaner.listed \ {p}
            /\ cleaner' = [rest EXCEPT !.at = "emit", !.month = p.month]
        BY <2>3 DEF RetentionInv, RetentionTypes, Cleaning
      <4> HIDE DEF rest
      <4> DEFINE told == [rest EXCEPT !.at = "emit"]
      <4>2. /\ told \in Cleaning /\ told.at = "emit" /\ told.cutoff = cleaner.cutoff
            /\ told.listed = cleaner.listed \ {p} /\ cleaner' = [told EXCEPT !.month = p.month]
        BY <4>1 DEF Cleaning
      <4> HIDE DEF told
      <4>3. p.month \in Int
        BY <3>0
      <4> DEFINE month == p.month
      <4>4. month \in Int /\ cleaner' = [told EXCEPT !.month = month] /\ month = p.month
        BY <4>2, <4>3
      <4> HIDE DEF month
      <4>5. cleaner' \in Cleaning
        BY <4>2, <4>4 DEF Cleaning
      <4>6. /\ cleaner'.at = told.at /\ cleaner'.cutoff = told.cutoff /\ cleaner'.listed = told.listed
            /\ cleaner'.month = month
        BY <4>2, <4>4 DEF Cleaning
      <4> QED
        BY <4>2, <4>4, <4>5, <4>6
    <3>3. Old(p.month, cleaner.cutoff) /\ (RequireS3Archive => months[p.month] # "live")
      BY <2>3 DEF Droppable, RetentionInv, CleanerSound
    <3>4. cleaner.cutoff <= auditDay - RetentionHotDays
      BY <2>0 DEF RetentionInv, CleanerSound
    <3>5. RetentionTypes'
      BY <2>0, <3>1, <3>2 DEF RetentionInv, RetentionTypes
    <3>6. CleanerSound'
      <4>1. \A q \in cleaner'.listed : q.archived => months'[q.month] # "live"
        <5>1. \A q \in cleaner.listed : q.month \in 1..Months /\ (q.archived => months[q.month] # "live")
          BY DEF RetentionInv, RetentionTypes, CleanerSound, Cleaning
        <5> QED
          BY <3>1, <3>2, <5>1
      <4> QED
        BY <2>0, <3>0, <3>1, <3>2, <3>4, <4>1 DEF CleanerSound, Gone
    <3>7. GoneSound'
      <4>1. Old(p.month, auditDay - RetentionHotDays)
        BY <1>0, <3>0, <3>3, <3>4 DEF Old, RetentionInv, RetentionTypes, Cleaning
      <4>2. \A m \in 1..Months : /\ Gone(m) => Old(m, auditDay - RetentionHotDays)
                                 /\ RequireS3Archive => months[m] # "lost"
        BY DEF RetentionInv, GoneSound
      <4> QED
        BY <2>0, <3>1, <3>3, <4>1, <4>2 DEF GoneSound, Gone, Old, RangeStart
    <3>8. DropsTold'
      BY <2>0, <3>1 DEF RetentionInv, DropsTold, Gone
    <3> QED
      BY <3>5, <3>6, <3>7, <3>8 DEF RetentionInv
  <2> QED
    BY <1>3, <2>1, <2>2, <2>3 DEF NextPartition
<1>4. CASE DropRecorded
  <2>1. /\ cleaner.at = "emit" /\ cleaner' = [cleaner EXCEPT !.at = "next"]
        /\ months' = months /\ auditDay' = auditDay
    BY <1>4 DEF DropRecorded
  <2>2. cleaner.month \in 1..Months /\ Gone(cleaner.month)
    BY <2>1 DEF RetentionInv, CleanerSound
  <2>3. /\ cleaner' \in Cleaning /\ cleaner'.at = "next" /\ cleaner'.cutoff = cleaner.cutoff
        /\ cleaner'.listed = cleaner.listed
    BY <2>1 DEF RetentionInv, RetentionTypes, Cleaning
  <2>4. \A i \in DOMAIN rows' : \/ i \in DOMAIN rows /\ rows'[i] = rows[i]
                                \/ rows'[i].ref = cleaner.month
    BY <1>4, <2>2, DropRows DEF Row
  <2>5. DropsTold'
    BY <2>1, <2>2, <2>4 DEF RetentionInv, DropsTold, Gone
  <2>6. RetentionTypes' /\ CleanerSound'
    BY <2>1, <2>3 DEF RetentionInv, RetentionTypes, CleanerSound
  <2> QED
    BY <2>1, <2>5, <2>6 DEF RetentionInv, GoneSound, Gone, Old, RangeStart
<1>5. ASSUME NEW m \in 1..Months, ExportPartition(m) PROVE RetentionInv'
  <2>1. /\ months[m] = "live" /\ months' = [months EXCEPT ![m] = "archived"]
        /\ cleaner' = cleaner /\ auditDay' = auditDay
    BY <1>5 DEF ExportPartition
  <2>2. /\ months' \in [1..Months -> {"live", "archived", "dropped", "lost"}]
        /\ \A n \in 1..Months : Gone(n) <=> Gone(n)'
        /\ \A n \in 1..Months : months[n] # "live" => months'[n] # "live"
        /\ \A n \in 1..Months : months'[n] = "lost" => months[n] = "lost"
    BY <2>1 DEF RetentionInv, RetentionTypes, Gone
  <2>3. \A i \in DOMAIN rows' : \/ i \in DOMAIN rows /\ rows'[i] = rows[i]
                                \/ rows'[i].type # "audit.partition_drop"
    BY <1>5, ExportRows DEF OnlyBystanders, Unrelated
  <2>4. DropsTold'
    BY <2>2, <2>3 DEF RetentionInv, DropsTold
  <2>5. RetentionTypes' /\ CleanerSound'
    BY <2>1, <2>2 DEF RetentionInv, RetentionTypes, CleanerSound, Cleaning
  <2>6. GoneSound'
    BY <2>1, <2>2 DEF RetentionInv, GoneSound, Old, RangeStart
  <2> QED
    BY <2>4, <2>5, <2>6 DEF RetentionInv
<1> QED
  BY <1>1, <1>2, <1>3, <1>4, <1>5 DEF RetentionNext

-----------------------------------------------------------------------------
(* The chain: untouched, every row's hash is that of the row before with   *)
(* its event, and stands for as many rows as there are up to it; touched,  *)
(* some row's is not, and nothing is added any more.                       *)
Links == [event : {"e", "f"}, this : Seq({"e", "f"})]
BadLinks(links) == {i \in DOMAIN links : links[i].this #
    ComputeThisHash(IF i = 1 THEN <<>> ELSE links[i - 1].this, links[i].event)}
ChainInv ==
    /\ chain \in Seq(Links)
    /\ ~tampered => BadLinks(chain) = {} /\ \A i \in DOMAIN chain : Len(chain[i].this) = i
    /\ tampered => BadLinks(chain) # {}

(* The empty chain has no bad link.                                        *)
LEMMA ChainInitInv == AuditInit => ChainInv
<1> SUFFICES ASSUME AuditInit PROVE ChainInv
  OBVIOUS
<1>1. chain = <<>> /\ tampered = FALSE
  BY DEF AuditInit
<1>2. <<>> \in Seq(Links) /\ DOMAIN <<>> = {}
  OBVIOUS
<1> QED
  BY <1>1, <1>2 DEF ChainInv, BadLinks

(* ChainGrows: the hash of the last row, with the new event.               *)
LEMMA GrowStep == ChainInv /\ ChainGrows => ChainInv'
<1> SUFFICES ASSUME ChainInv, ChainGrows PROVE ChainInv'
  OBVIOUS
<1>1. PICK event \in {"e", "f"} :
          chain' = Append(chain, [event |-> event, this |-> ComputeThisHash(LastHash, event)])
  BY DEF ChainGrows
<1>2. /\ ~tampered /\ tampered' = tampered /\ chain \in Seq(Links) /\ BadLinks(chain) = {}
      /\ \A i \in DOMAIN chain : Len(chain[i].this) = i
  BY DEF ChainGrows, ChainInv
<1>3. /\ Len(chain) \in Nat /\ DOMAIN chain = 1..Len(chain)
      /\ \A i \in 1..Len(chain) : chain[i] \in Links
  BY <1>2, LenProperties, ElementOfSeq
<1>4. /\ LastHash \in Seq({"e", "f"}) /\ Len(LastHash) = Len(chain)
      /\ LastHash = IF Len(chain) = 0 THEN <<>> ELSE chain[Len(chain)].this
  <2>1. CASE chain = <<>>
    <3>1. <<>> \in Seq({"e", "f"})
      OBVIOUS
    <3> QED
      BY <2>1, <3>1 DEF LastHash
  <2>2. CASE chain # <<>>
    <3>1. Len(chain) \in 1..Len(chain) /\ Len(chain) # 0
      BY <1>2, <1>3, <2>2, EmptySeq
    <3> QED
      BY <1>2, <1>3, <2>2, <3>1 DEF LastHash, Links
  <2> QED
    BY <2>1, <2>2
<1> DEFINE hash == ComputeThisHash(LastHash, event)
           link == [event |-> event, this |-> hash]
<1>5. hash \in Seq({"e", "f"}) /\ Len(hash) = Len(chain) + 1
  BY <1>3, <1>4, AppendProperties DEF ComputeThisHash
<1> HIDE DEF hash
<1>6. link \in Links /\ link.this = hash /\ link.event = event /\ chain' = Append(chain, link)
  BY <1>1, <1>5 DEF Links, hash
<1> HIDE DEF link
<1>7. /\ chain' \in Seq(Links) /\ DOMAIN chain' = 1..(Len(chain) + 1)
      /\ \A i \in 1..Len(chain) : chain'[i] = chain[i]
      /\ chain'[Len(chain) + 1] = link
  BY <1>2, <1>3, <1>6, AppendProperties, LenProperties
<1>8. \A i \in DOMAIN chain' : i \in DOMAIN chain \/ i = Len(chain) + 1
  BY <1>3, <1>7
<1>9. ASSUME NEW i \in DOMAIN chain'
      PROVE  /\ Len(chain'[i].this) = i
             /\ chain'[i].this = ComputeThisHash(IF i = 1 THEN <<>> ELSE chain'[i - 1].this, chain'[i].event)
  <2>1. CASE i \in DOMAIN chain
    <3>1. /\ chain'[i] = chain[i] /\ (i # 1 => chain'[i - 1] = chain[i - 1])
      BY <1>3, <1>7, <2>1
    <3>2. chain[i].this = ComputeThisHash(IF i = 1 THEN <<>> ELSE chain[i - 1].this, chain[i].event)
      BY <1>2, <2>1 DEF BadLinks
    <3> QED
      BY <1>2, <2>1, <3>1, <3>2
  <2>2. CASE i = Len(chain) + 1
    <3>1. chain'[i] = link /\ (i # 1 => chain'[i - 1] = chain[Len(chain)])
      BY <1>3, <1>7, <2>2
    <3>2. (i = 1) = (Len(chain) = 0)
      BY <1>3, <2>2
    <3> QED
      BY <1>4, <1>5, <1>6, <2>2, <3>1, <3>2 DEF hash
  <2> QED
    BY <1>8, <2>1, <2>2
<1> QED
  BY <1>2, <1>7, <1>9 DEF ChainInv, BadLinks

(* RowChanged: the hash of the changed row is of another event.            *)
LEMMA ChangeStep == ChainInv /\ RowChanged => ChainInv'
<1> SUFFICES ASSUME ChainInv, RowChanged PROVE ChainInv'
  OBVIOUS
<1>1. PICK i \in DOMAIN chain : chain' = [chain EXCEPT ![i].event = IF @ = "e" THEN "f" ELSE "e"]
  BY DEF RowChanged
<1>2. /\ ~tampered /\ tampered' = TRUE /\ chain \in Seq(Links) /\ BadLinks(chain) = {}
  BY DEF RowChanged, ChainInv
<1>3. /\ Len(chain) \in Nat /\ DOMAIN chain = 1..Len(chain)
      /\ \A k \in 1..Len(chain) : chain[k] \in Links
  BY <1>2, LenProperties, ElementOfSeq
<1> DEFINE link == [chain[i] EXCEPT !.event = IF @ = "e" THEN "f" ELSE "e"]
<1>4. link \in Links /\ link.this = chain[i].this /\ link.event # chain[i].event
  BY <1>1, <1>3 DEF Links
<1>5. chain' = [chain EXCEPT ![i] = link]
  BY <1>1
<1> HIDE DEF link
<1>6. /\ chain' \in Seq(Links) /\ DOMAIN chain' = DOMAIN chain /\ chain'[i] = link
      /\ \A k \in DOMAIN chain : k # i => chain'[k] = chain[k]
  BY <1>2, <1>3, <1>4, <1>5, ExceptSeq
<1>7. chain[i].this = ComputeThisHash(IF i = 1 THEN <<>> ELSE chain[i - 1].this, chain[i].event)
  BY <1>2 DEF BadLinks
<1> DEFINE prev == IF i = 1 THEN <<>> ELSE chain[i - 1].this
<1>8. prev \in Seq({"e", "f"}) /\ prev = IF i = 1 THEN <<>> ELSE chain'[i - 1].this
  <2>1. CASE i = 1
    <3>1. <<>> \in Seq({"e", "f"})
      OBVIOUS
    <3> QED
      BY <2>1, <3>1
  <2>2. CASE i # 1
    <3>1. i - 1 \in 1..Len(chain) /\ i - 1 # i
      BY <1>1, <1>3, <2>2
    <3> QED
      BY <1>3, <1>6, <2>2, <3>1 DEF Links
  <2> QED
    BY <2>1, <2>2
<1>9. chain[i].event \in {"e", "f"} /\ link.event \in {"e", "f"}
  BY <1>1, <1>3, <1>4 DEF Links
<1>10. Append(prev, chain[i].event) # Append(prev, link.event)
  <2> HIDE DEF prev
  <2>1. /\ Append(prev, chain[i].event)[Len(prev) + 1] = chain[i].event
        /\ Append(prev, link.event)[Len(prev) + 1] = link.event
    BY <1>8, <1>9, AppendProperties
  <2> QED
    BY <1>4, <2>1
<1>11. i \in BadLinks(chain')
  BY <1>4, <1>6, <1>7, <1>8, <1>10 DEF BadLinks, ComputeThisHash
<1> QED
  BY <1>2, <1>6, <1>11 DEF ChainInv

(* RowTaken: the row that takes its place stands for a row too many.       *)
LEMMA TakeStep == ChainInv /\ RowTaken => ChainInv'
<1> SUFFICES ASSUME ChainInv, RowTaken PROVE ChainInv'
  OBVIOUS
<1>1. PICK i \in DOMAIN chain : chain' = RemoveAt(chain, i) /\ tampered' = (i < Len(chain))
  BY DEF RowTaken
<1>2. /\ ~tampered /\ chain \in Seq(Links) /\ BadLinks(chain) = {}
      /\ \A k \in DOMAIN chain : Len(chain[k].this) = k
  BY DEF RowTaken, ChainInv
<1>3. /\ Len(chain) \in Nat /\ DOMAIN chain = 1..Len(chain) /\ i \in 1..Len(chain)
      /\ \A k \in 1..Len(chain) : chain[k] \in Links
  BY <1>1, <1>2, LenProperties, ElementOfSeq
<1> DEFINE left == SubSeq(chain, 1, i - 1)
           right == SubSeq(chain, i + 1, Len(chain))
<1>4. /\ left \in Seq(Links) /\ Len(left) = i - 1 /\ \A k \in 1..(i - 1) : left[k] = chain[k]
  BY <1>2, <1>3, SubSeqProperties
<1>5. /\ right \in Seq(Links) /\ Len(right) = Len(chain) - i
      /\ \A k \in 1..(Len(chain) - i) : right[k] = chain[i + k]
  BY <1>2, <1>3, SubSeqProperties
<1> HIDE DEF left, right
<1>6. chain' = left \o right
  BY <1>1 DEF RemoveAt, left, right
<1>7. /\ chain' \in Seq(Links) /\ DOMAIN chain' = 1..(Len(chain) - 1)
      /\ \A k \in 1..(i - 1) : chain'[k] = chain[k]
      /\ \A k \in i..(Len(chain) - 1) : chain'[k] = chain[k + 1]
  <2>1. /\ chain' \in Seq(Links) /\ Len(chain') = Len(left) + Len(right)
        /\ \A k \in 1..(Len(left) + Len(right)) :
              chain'[k] = IF k <= Len(left) THEN left[k] ELSE right[k - Len(left)]
    BY <1>4, <1>5, <1>6, ConcatProperties
  <2>2. DOMAIN chain' = 1..(Len(chain) - 1)
    BY <1>3, <1>4, <1>5, <2>1, LenProperties
  <2>3. \A k \in 1..(i - 1) : chain'[k] = chain[k]
    BY <1>3, <1>4, <1>5, <2>1
  <2>4. ASSUME NEW k \in i..(Len(chain) - 1) PROVE chain'[k] = chain[k + 1]
    <3>1. /\ k \in 1..(Len(left) + Len(right)) /\ ~(k <= Len(left))
          /\ k - Len(left) = k - i + 1 /\ k - i + 1 \in 1..(Len(chain) - i) /\ i + (k - i + 1) = k + 1
      BY <1>3, <1>4, <1>5
    <3>2. chain'[k] = right[k - i + 1] /\ right[k - i + 1] = chain[i + (k - i + 1)]
      BY <1>5, <2>1, <3>1
    <3> QED
      BY <3>1, <3>2
  <2> QED
    BY <2>1, <2>2, <2>3, <2>4
<1>8. CASE i < Len(chain)
  <2> DEFINE prev == IF i = 1 THEN <<>> ELSE chain'[i - 1].this
  <2>1. /\ i \in DOMAIN chain' /\ chain'[i] = chain[i + 1] /\ i + 1 \in 1..Len(chain)
    BY <1>3, <1>7, <1>8
  <2>2. chain'[i].event \in {"e", "f"} /\ Len(chain'[i].this) = i + 1
    BY <1>2, <1>3, <2>1 DEF Links
  <2>3. prev \in Seq({"e", "f"}) /\ Len(prev) = i - 1
    <3>1. CASE i = 1
      <4>1. <<>> \in Seq({"e", "f"}) /\ Len(<<>>) = 0
        OBVIOUS
      <4> QED
        BY <3>1, <4>1
    <3>2. CASE i # 1
      <4>1. i - 1 \in 1..(i - 1) /\ i - 1 \in 1..Len(chain)
        BY <1>3, <3>2
      <4> QED
        BY <1>2, <1>3, <1>7, <3>2, <4>1 DEF Links
    <3> QED
      BY <3>1, <3>2
  <2>4. Len(Append(prev, chain'[i].event)) = i
    <3> HIDE DEF prev
    <3> QED
      BY <1>3, <2>2, <2>3, AppendProperties
  <2>5. i \in BadLinks(chain')
    BY <1>3, <2>1, <2>2, <2>4 DEF BadLinks, ComputeThisHash
  <2> QED
    BY <1>1, <1>7, <1>8, <2>5 DEF ChainInv
<1>9. CASE i = Len(chain)
  <2>1. ASSUME NEW k \in DOMAIN chain'
        PROVE  /\ Len(chain'[k].this) = k
               /\ chain'[k].this = ComputeThisHash(IF k = 1 THEN <<>> ELSE chain'[k - 1].this, chain'[k].event)
    <3>1. /\ k \in DOMAIN chain /\ chain'[k] = chain[k] /\ (k # 1 => chain'[k - 1] = chain[k - 1])
      BY <1>3, <1>7, <1>9
    <3>2. chain[k].this = ComputeThisHash(IF k = 1 THEN <<>> ELSE chain[k - 1].this, chain[k].event)
      BY <1>2, <3>1 DEF BadLinks
    <3> QED
      BY <1>2, <3>1, <3>2
  <2>2. ~(i < Len(chain))
    BY <1>3, <1>9
  <2>3. ~tampered'
    BY <1>1, <2>2, Zenon
  <2> QED
    BY <1>7, <2>1, <2>3 DEF ChainInv, BadLinks
<1> QED
  BY <1>3, <1>8, <1>9

(* The verification counts the bad links.                                  *)
LEMMA ChainInvTells == ChainInv => ChainTells
<1> SUFFICES ASSUME ChainInv PROVE ChainTells
  OBVIOUS
<1>1. VerifyChain(chain) = Cardinality(BadLinks(chain))
  BY DEF VerifyChain, BadLinks
<1>2. IsFiniteSet(BadLinks(chain))
  <2>1. BadLinks(chain) \subseteq 1..Len(chain) /\ Len(chain) \in Nat
    BY LenProperties DEF ChainInv, BadLinks
  <2> QED
    <3>1. IsFiniteSet(1..Len(chain))
      BY <2>1, FS_Interval
    <3> QED
      BY <2>1, <3>1, FS_Subset
<1>3. (Cardinality(BadLinks(chain)) = 0) <=> BadLinks(chain) = {}
  BY <1>2, FS_EmptySet
<1>4. (BadLinks(chain) = {}) <=> ~tampered
  BY DEF ChainInv
<1> HIDE DEF BadLinks, ChainInv
<1> QED
  BY <1>1, <1>3, <1>4 DEF ChainTells

-----------------------------------------------------------------------------
(* A step of one job leaves the others' state as it was, and writes rows   *)
(* of its own kind.                                                        *)
AuditInv == ReconcileInv /\ RetentionInv /\ ChainInv

(* Polls keep all three parts.                                             *)
LEMMA ReconcileStep ==
    ASSUME AuditInv, ReconcileNext PROVE AuditInv'
<1>1. ReconcileInv'
  BY FetchStep, LedgerStep, EventsStep, EmitStep, OutsideReconcile DEF ReconcileNext, AuditInv
<1>2. UNCHANGED <<retentionVars, chain, tampered>>
  BY DEF ReconcileNext, CallLogged, LedgerWritten, MinutePasses, FetchSpendLogs, ExistsInCostLedger,
         CheckAuditEvents, EmitReconciled, chainVars
<1>3. \A i \in DOMAIN rows' : \/ i \in DOMAIN rows /\ rows'[i] = rows[i]
                              \/ rows'[i].type # "audit.partition_drop"
  <2>1. CASE rows' = rows
    BY <2>1
  <2>2. ASSUME NEW row, rows' = Append(rows, row), row.type = "cost.reconciled"
        PROVE  <1>3
    <3>1. rows \in Seq(TrailRows)
      BY DEF AuditInv, ReconcileInv, ReconcileTypes
    <3>2. /\ DOMAIN rows' = 1..(Len(rows) + 1) /\ DOMAIN rows = 1..Len(rows) /\ Len(rows) \in Nat
          /\ \A i \in 1..Len(rows) : rows'[i] = rows[i]
          /\ rows'[Len(rows) + 1] = row
      BY <2>2, <3>1, AppendProperties, LenProperties
    <3>3. \A i \in 1..(Len(rows) + 1) : i \notin 1..Len(rows) => i = Len(rows) + 1
      BY <3>2
    <3> QED
      BY <2>2, <3>2, <3>3
  <2>3. ASSUME NEW p \in Pollers, EmitReconciled(p) PROVE <1>3
    <3>1. Row("cost.reconciled", "none", poller[p].id).type = "cost.reconciled"
      BY DEF Row
    <3> QED
      BY <2>1, <2>2, <2>3, <3>1 DEF EmitReconciled, Emitted, EmitFails
  <2> QED
    BY <2>1, <2>3 DEF ReconcileNext, CallLogged, LedgerWritten, MinutePasses, FetchSpendLogs,
                      ExistsInCostLedger, CheckAuditEvents
<1>4. RetentionInv'
  BY <1>2, <1>3, OthersRetain DEF AuditInv
<1>5. ChainInv'
  BY <1>2 DEF AuditInv, ChainInv, BadLinks
<1> QED
  BY <1>1, <1>4, <1>5 DEF AuditInv

(* Cleanups keep all three parts.                                          *)
LEMMA RetainStep ==
    ASSUME AuditInv, RetentionNext PROVE AuditInv'
<1>1. rows \in Seq(TrailRows)
  BY DEF AuditInv, ReconcileInv, ReconcileTypes
<1>2. UNCHANGED <<reconcileVars, chain, tampered>>
  BY DEF RetentionNext, RetentionDay, RunCleanup, NextPartition, DropRecorded, ExportPartition, chainVars
<1>3. RetentionInv'
  BY <1>1, RetentionStep DEF AuditInv
<1>4. ReconcileInv'
  <2>1. CASE rows' = rows
    BY <1>1, <1>2, <2>1, OthersReconcile DEF AuditInv, OnlyBystanders
  <2>2. CASE DropRecorded
    <3>1. cleaner.month \in 1..Months
      BY <2>2 DEF DropRecorded, AuditInv, RetentionInv, CleanerSound
    <3> QED
      BY <2>2, <3>1, DropReconciles DEF AuditInv
  <2>3. ASSUME NEW m \in 1..Months, ExportPartition(m) PROVE ReconcileInv'
    BY <1>1, <1>2, <2>3, ExportRows, OthersReconcile DEF AuditInv
  <2> QED
    BY <2>1, <2>2, <2>3 DEF RetentionNext, RetentionDay, RunCleanup, NextPartition
<1>5. ChainInv'
  BY <1>2 DEF AuditInv, ChainInv, BadLinks
<1> QED
  BY <1>3, <1>4, <1>5 DEF AuditInv

(* Replays and chain entries keep all three parts.                         *)
LEMMA ReplayStep ==
    ASSUME AuditInv, ReplayNext PROVE AuditInv'
<1>1. rows \in Seq(TrailRows)
  BY DEF AuditInv, ReconcileInv, ReconcileTypes
<1>2. UNCHANGED <<reconcileVars, retentionVars>>
  BY DEF ReplayNext, DecisionLogged, Replay, ChainGrows, RowChanged, RowTaken
<1>3. rows' \in Seq(TrailRows) /\ OnlyBystanders
  <2>1. CASE rows' = rows
    BY <1>1, <2>1 DEF OnlyBystanders
  <2> QED
    BY <1>1, <2>1, DecisionRows, ReplayRows DEF ReplayNext, ChainGrows, RowChanged, RowTaken
<1>4. ReconcileInv'
  BY <1>2, <1>3, OthersReconcile DEF AuditInv
<1>5. RetentionInv'
  <2>1. \A i \in DOMAIN rows' : \/ i \in DOMAIN rows /\ rows'[i] = rows[i]
                                \/ rows'[i].type # "audit.partition_drop"
    BY <1>3 DEF OnlyBystanders, Unrelated
  <2> QED
    BY <1>2, <2>1, OthersRetain DEF AuditInv
<1>6. ChainInv'
  <2>1. CASE UNCHANGED chainVars
    BY <2>1 DEF AuditInv, ChainInv, BadLinks, chainVars
  <2> QED
    BY <2>1, GrowStep, ChangeStep, TakeStep DEF AuditInv, ReplayNext, DecisionLogged, Replay
<1> QED
  BY <1>4, <1>5, <1>6 DEF AuditInv

(* The invariant says what the trail promises.                             *)
LEMMA AuditInvSound == AuditInv => TrailSound
<1> SUFFICES ASSUME AuditInv PROVE TrailSound
  OBVIOUS
<1>1. ASSUME ~polls.overlapped, NEW c \in LLMCalls PROVE Rowed(c) <= 1
  <2> DEFINE mine == {i \in DOMAIN rows : rows[i] = Row("cost.reconciled", "none", c)}
  <2>1. \A i, j \in mine : i = j
    BY <1>1 DEF AuditInv, ReconcileInv, NoneTwice, OnceEach
  <2>2. Rowed(c) = Cardinality(mine)
    BY DEF Rowed
  <2> HIDE DEF mine
  <2>3. CASE mine = {}
    BY <2>2, <2>3, FS_EmptySet
  <2>4. ASSUME NEW i \in mine PROVE Rowed(c) <= 1
    <3>1. mine = {i}
      BY <2>1, <2>4
    <3> QED
      BY <2>2, <3>1, FS_Singleton
  <2> QED
    BY <2>3, <2>4
<1>2. ASSUME ~polls.late, ~polls.failed, PollsDone PROVE Skipped = {}
  BY <1>2 DEF AuditInv, ReconcileInv, NoneMissed, Settled, PollsDone, Skipped
<1>3. DroppedRightly
  <2>1. RetentionInv
    BY DEF AuditInv
  <2>2. ASSUME NEW m \in 1..Months, Gone(m), RetentionHotDays >= MonthDays PROVE RangeEnd(m) <= auditDay
    <3>1. RangeStart(m) < auditDay - RetentionHotDays /\ auditDay \in Nat
      BY <2>1, <2>2 DEF RetentionInv, RetentionTypes, GoneSound, Old
    <3>2. RangeEnd(m) = RangeStart(m) + MonthDays /\ RangeStart(m) \in Int
      BY AuditAssumption DEF AuditAssumption, RangeStart, RangeEnd
    <3> QED
      BY <2>2, <3>1, <3>2, AuditAssumption DEF AuditAssumption
  <2>3. \A m \in 1..Months : Gone(m) => RangeStart(m) < auditDay - RetentionHotDays
    BY <2>1 DEF RetentionInv, GoneSound, Old
  <2> QED
    BY <2>1, <2>2, <2>3 DEF RetentionInv, GoneSound, DropsTold, DroppedRightly, Gone
<1> QED
  BY <1>1, <1>2, <1>3, ChainInvTells DEF SpendReconciled, TrailSound, AuditInv

-----------------------------------------------------------------------------
(* The CLI's history. While commands do not overlap and run to their end,  *)
(* at most one process is in an operation, and the file, or between        *)
(* truncating and writing what that process keeps, holds every entry that  *)
(* no rule lets go, once.                                                  *)
Ids(s) == {s[i].id : i \in DOMAIN s}
Entries == [id : 1..written, long : {FALSE}]
Log(s) ==
    /\ s \in Seq(Entries)
    /\ \A i, j \in DOMAIN s : s[i].id = s[j].id => i = j
    /\ Ids(s) \cap cleared = {}
LetGo(id) ==
    \/ TooOld(id)
    \/ MaxEntries > 0 /\ Cardinality({e \in 1..written : e > id}) >= MaxEntries
Complete(s, since) == \A id \in 1..written \ (Ids(s) \cup cleared) : id >= since => LetGo(id)
Few(s) == MaxEntries > 0 => Len(s) <= MaxEntries

IsProc(q) ==
    /\ DOMAIN q = {"at", "op", "since", "kept"}
    /\ q.at \in {"idle", "read", "truncate", "flush"} /\ q.op \in {"write", "clear"}
    /\ q.since \in Nat /\ (q.op = "write" => q.since = 0)
ProcTypes == DOMAIN procs = Procs /\ \A p \in Procs : IsProc(procs[p])
Resting == Log(file) /\ Complete(file, 0) /\ Few(file)
Fits(q) ==      \* the process in this state, and no other in any
    /\ q.at = "idle" => Resting
    /\ q.at = "read" => Log(file) /\ Complete(file, 0) /\ (q.op = "clear" => Few(file))
    /\ q.at \in {"truncate", "flush"} =>
          /\ Log(q.kept) /\ Few(q.kept) /\ Complete(q.kept, q.since)
          /\ \A id \in Ids(q.kept) : id >= q.since
    /\ q.at = "flush" => file = <<>>
OneAtWork == \A p, q \in Procs : procs[p].at # "idle" /\ procs[q].at # "idle" => p = q
InTurn ==
    /\ OneAtWork
    /\ (\A p \in Procs : procs[p].at = "idle") => Resting
    /\ \A p \in Procs : procs[p].at # "idle" => Fits(procs[p])
HistoryInv ==
    /\ born \in Seq(Nat) /\ today \in Nat /\ cleared \subseteq 1..written /\ ProcTypes
    /\ ~disturbed => InTurn

(* How many were written.                                                  *)
LEMMA WrittenNumber == born \in Seq(Nat) => written \in Nat /\ \A id \in 1..written : born[id] \in Nat
BY DEF written

(* The fields of an entry.                                                 *)
LEMMA LogEntry ==
    ASSUME NEW s, Log(s), NEW i \in DOMAIN s
    PROVE  s[i].id \in 1..written /\ s[i].long = FALSE
<1>1. s[i] \in Entries
  BY DEF Log
<1> QED
  BY <1>1 DEF Entries

(* What a filter leaves of a log is one.                                   *)
LEMMA KeptLog ==
    ASSUME NEW s, Log(s), NEW I, I \subseteq DOMAIN s
    PROVE  /\ Log(KeepAt(s, I)) /\ Len(KeepAt(s, I)) <= Len(s)
           /\ Ids(KeepAt(s, I)) = {s[i].id : i \in I}
<1> DEFINE t == KeepAt(s, I)
<1>1. s \in Seq(Entries) /\ Len(s) \in Nat /\ DOMAIN s = 1..Len(s)
  BY DEF Log
<1>2. t \in Seq(Entries) /\ Len(t) = Cardinality(I)
  BY <1>1, KeepAtIs
<1>3. PICK g : KeptBy(g, t, s, I)
  BY <1>1, KeepAtIs
<1> HIDE DEF t
<1>4. Len(t) <= Len(s)
  BY <1>1, <1>2, FirstNumbers, FS_Subset
<1>5. DOMAIN t = 1..Len(t) /\ Len(t) \in Nat
  BY <1>2
<1>6. /\ \A k \in DOMAIN t : g[k] \in I /\ t[k] = s[g[k]]
      /\ \A i \in I : \E k \in DOMAIN t : g[k] = i
      /\ \A j, k \in DOMAIN t : g[j] = g[k] => j = k
  <2>1. \A j, k \in DOMAIN t : g[j] \in Nat /\ g[k] \in Nat /\ (j < k <=> g[j] < g[k])
    BY <1>1, <1>3, <1>5 DEF KeptBy, InOrder
  <2>2. \A j, k \in DOMAIN t : g[j] = g[k] => j = k
    BY <1>5, <2>1
  <2> QED
    BY <1>3, <1>5, <2>2 DEF KeptBy, InOrder
<1>7. Ids(t) = {s[i].id : i \in I}
  BY <1>6 DEF Ids
<1>8. Ids(t) \subseteq Ids(s)
  BY <1>7 DEF Ids
<1>9. \A j, k \in DOMAIN t : t[j].id = t[k].id => j = k
  BY <1>6 DEF Log
<1>10. Log(t)
  BY <1>2, <1>8, <1>9 DEF Log
<1> QED
  BY <1>4, <1>7, <1>10 DEF t

(* A log sorted is the same log, the newest entry first.                   *)
LEMMA NewestLog ==
    ASSUME NEW s, Log(s)
    PROVE  LET t == NewestFirst(s) IN
           /\ Log(t) /\ Len(t) = Len(s) /\ Ids(t) = Ids(s)
           /\ \A j, k \in DOMAIN t : j < k => t[j].id > t[k].id
<1> DEFINE D == DOMAIN s
           newer == {p \in D \X D : s[p[1]].id > s[p[2]].id}
           t == NewestFirst(s)
<1>1. s \in Seq(Entries) /\ Len(s) \in Nat /\ D = 1..Len(s)
  BY DEF Log
<1>2. \A i \in D : s[i].id \in Int
  <2>1. \A i \in D : s[i].id \in 1..written
    BY LogEntry
  <2> QED
    BY <2>1
<1>3. \A i, j \in D : <<i, j>> \in newer <=> s[i].id > s[j].id
  OBVIOUS
<1>4. t = SortedBy(s, newer)
  BY DEF NewestFirst
<1> HIDE DEF newer, t
<1>5. WeakOrder(D, newer)
  <2> HIDE DEF D
  <2> QED
    BY <1>2, <1>3 DEF WeakOrder
<1>6. t \in Seq(Entries) /\ Len(t) = Len(s)
  BY <1>1, <1>4, <1>5, SortedByIs
<1>7. PICK g \in [D -> D] :
         /\ \A k \in D : t[k] = s[g[k]]
         /\ \A i \in D : \E k \in D : g[k] = i
         /\ \A j, k \in D : j < k <=> <<g[j], g[k]>> \in Stable(D, newer)
  BY <1>1, <1>4, <1>5, SortedByIs
<1>8. DOMAIN t = D
  BY <1>1, <1>6
<1> HIDE DEF D
<1>9. \A j, k \in D : j < k => t[j].id > t[k].id
  <2> SUFFICES ASSUME NEW j \in D, NEW k \in D, j < k PROVE t[j].id > t[k].id
    OBVIOUS
  <2>1. g[j] \in D /\ g[k] \in D /\ t[j] = s[g[j]] /\ t[k] = s[g[k]]
    BY <1>7
  <2>2. <<g[j], g[k]>> \in Stable(D, newer)
    BY <1>7
  <2>3. \/ s[g[j]].id > s[g[k]].id
        \/ g[j] < g[k] /\ ~(s[g[k]].id > s[g[j]].id)
    BY <1>3, <2>1, <2>2 DEF Stable
  <2>4. g[j] < g[k] => s[g[j]].id # s[g[k]].id
    <3>1. g[j] \in Nat /\ g[k] \in Nat
      BY <1>1, <2>1
    <3> QED
      BY <2>1, <3>1 DEF Log, D
  <2> QED
    BY <1>2, <2>1, <2>3, <2>4
<1>10. Ids(t) = Ids(s)
  BY <1>7, <1>8 DEF Ids, D
<1>11. \A j, k \in DOMAIN t : t[j].id = t[k].id => j = k
  <2>1. \A k \in D : t[k].id \in Int
    BY <1>2, <1>7
  <2>2. D \subseteq Nat
    BY <1>1
  <2> QED
    BY <1>8, <1>9, <2>1, <2>2
<1>12. Log(t)
  BY <1>6, <1>10, <1>11 DEF Log
<1> QED
  BY <1>6, <1>8, <1>9, <1>10, <1>12 DEF t

(* The file of a log is read whole.                                        *)
LEMMA LogRead == Log(file) => ReadAll = file /\ ~ReadFails
<1> SUFFICES ASSUME Log(file) PROVE ReadAll = file /\ ~ReadFails
  OBVIOUS
<1>1. \A i \in DOMAIN file : file[i].id \in 1..written /\ file[i].long = FALSE
  BY LogEntry
<1>2. \A i \in DOMAIN file : file[i] # Damaged
  BY <1>1 DEF Damaged
<1>3. {i \in DOMAIN file : file[i] # Damaged} = DOMAIN file
  BY <1>2
<1>4. file \in Seq(Entries)
  BY DEF Log
<1> QED
  BY <1>1, <1>3, <1>4, KeepAtEnds DEF ReadAll, ReadFails

(* Numbers to be counted.                                                  *)
LEMMA CountFinite == written \in Nat => \A id : LET T == {e \in 1..written : e > id} IN
    IsFiniteSet(T) /\ Cardinality(T) \in Nat
<1> SUFFICES ASSUME written \in Nat, NEW id
             PROVE  LET T == {e \in 1..written : e > id} IN IsFiniteSet(T) /\ Cardinality(T) \in Nat
  OBVIOUS
<1> DEFINE T == {e \in 1..written : e > id}
<1>1. T \in SUBSET (1..written) /\ IsFiniteSet(1..written)
  BY FirstNumbers
<1> HIDE DEF T
<1>2. IsFiniteSet(T) /\ Cardinality(T) \in Nat
  BY <1>1, FS_Subset, FS_CardinalityType
<1> QED
  BY <1>2 DEF T

(* evictLocked lets go what its rules say and keeps the rest.              *)
LEMMA EvictKeeps ==
    ASSUME NEW s, Log(s), Complete(s, 0), written \in Nat
    PROVE  Log(Evict(s)) /\ Few(Evict(s)) /\ Complete(Evict(s), 0)
<1> DEFINE fresh == Unexpired(s)
           many == MaxEntries > 0 /\ Len(fresh) > MaxEntries
           t == NewestFirst(fresh)
           kept == SubSeq(t, 1, MaxEntries)
<1>0. RetentionDays \in Nat /\ MaxEntries \in Nat
  BY HistoryAssumption DEF HistoryAssumption
<1>1. Log(fresh) /\ Complete(fresh, 0)
  <2> DEFINE I == {i \in DOMAIN s : ~TooOld(s[i].id)}
  <2>1. fresh = KeepAt(s, I) /\ I \subseteq DOMAIN s
    BY DEF Unexpired
  <2>2. Log(fresh) /\ Ids(fresh) = {s[i].id : i \in I}
    BY <2>1, KeptLog
  <2> HIDE DEF fresh
  <2>3. ASSUME NEW id \in 1..written \ (Ids(fresh) \cup cleared) PROVE LetGo(id)
    <3>1. CASE id \in Ids(s)
      <4>1. PICK i \in DOMAIN s : s[i].id = id
        BY <3>1 DEF Ids
      <4>2. TooOld(id)
        BY <2>2, <2>3, <4>1
      <4> QED
        BY <4>2 DEF LetGo
    <3>2. CASE id \notin Ids(s)
      BY <2>3, <3>2 DEF Complete
    <3> QED
      BY <3>1, <3>2
  <2> QED
    BY <2>2, <2>3 DEF Complete
<1>2. Evict(s) = IF many THEN kept ELSE fresh
  BY DEF Evict
<1> HIDE DEF fresh
<1>3. CASE ~many
  <2>1. Len(fresh) \in Nat
    BY <1>1 DEF Log
  <2> QED
    BY <1>0, <1>1, <1>2, <1>3, <2>1 DEF Few
<1>4. CASE many
  <2>1. /\ Log(t) /\ Len(t) = Len(fresh) /\ Ids(t) = Ids(fresh)
        /\ \A j, k \in DOMAIN t : j < k => t[j].id > t[k].id
    BY <1>1, NewestLog
  <2> HIDE DEF t
  <2>2. t \in Seq(Entries) /\ Len(t) \in Nat /\ DOMAIN t = 1..Len(t) /\ MaxEntries \in 1..Len(t)
    BY <1>0, <1>4, <2>1 DEF Log
  <2>3. kept \in Seq(Entries) /\ Len(kept) = MaxEntries /\ \A k \in 1..MaxEntries : kept[k] = t[k]
    BY <1>0, <2>2
  <2> HIDE DEF kept
  <2>4. Ids(kept) \subseteq Ids(t) /\ DOMAIN kept = 1..MaxEntries
    BY <2>2, <2>3 DEF Ids
  <2>5. \A i, j \in DOMAIN kept : kept[i].id = kept[j].id => i = j
    BY <2>1, <2>2, <2>3, <2>4 DEF Log
  <2>6. Log(kept)
    BY <2>1, <2>3, <2>4, <2>5 DEF Log
  <2>7. ASSUME NEW id \in 1..written \ (Ids(kept) \cup cleared) PROVE LetGo(id)
    <3>1. CASE id \notin Ids(fresh)
      BY <1>1, <2>7, <3>1 DEF Complete
    <3>2. CASE id \in Ids(fresh)
      <4> DEFINE T == {e \in 1..written : e > id}
                 f == [j \in 1..MaxEntries |-> t[j].id]
      <4>1. PICK m \in DOMAIN t : t[m].id = id
        BY <2>1, <3>2 DEF Ids
      <4>2. m > MaxEntries
        <5> SUFFICES ASSUME m \in 1..MaxEntries PROVE FALSE
          BY <1>0, <2>2
        <5>1. kept[m].id = id
          BY <2>3, <4>1
        <5> QED
          BY <2>4, <2>7, <5>1 DEF Ids
      <4>3. \A j \in 1..MaxEntries : t[j].id \in T
        <5> TAKE j \in 1..MaxEntries
        <5>1. j \in DOMAIN t /\ j < m
          BY <1>0, <2>2, <4>2
        <5>2. t[j].id \in 1..written
          BY <2>1, <5>1, LogEntry
        <5> QED
          BY <2>1, <4>1, <5>1, <5>2
      <4>4. f \in Injection(1..MaxEntries, T)
        <5>1. f \in [1..MaxEntries -> T]
          BY <4>3
        <5>2. \A i, j \in 1..MaxEntries : f[i] = f[j] => i = j
          BY <2>1, <2>2 DEF Log
        <5> HIDE DEF f, T
        <5> QED
          BY <5>1, <5>2 DEF Injection, IsInjective
      <4>5. IsFiniteSet(T) /\ Cardinality(T) \in Nat
        BY CountFinite
      <4> HIDE DEF f, T
      <4>6. Cardinality(1..MaxEntries) <= Cardinality(T)
        BY <4>4, <4>5, FS_Injection
      <4>7. MaxEntries <= Cardinality(T)
        BY <1>0, <4>6, FirstNumbers
      <4> QED
        BY <1>0, <1>4, <4>5, <4>7 DEF LetGo, T
    <3> QED
      BY <3>1, <3>2
  <2> QED
    BY <1>2, <1>4, <2>3, <2>6, <2>7, <1>0 DEF Few, Complete
<1> QED
  BY <1>3, <1>4

(* Entries are added and days pass: nothing that was written gets younger. *)
Later ==
    /\ written \in Nat /\ today \in Nat /\ written' \in Nat /\ today' \in Nat
    /\ written <= written' /\ today <= today'
    /\ \A id \in 1..written : born[id] \in Nat /\ born'[id] = born[id]
LEMMA NoneWritten == born \in Seq(Nat) /\ UNCHANGED born /\ today \in Nat /\ today' \in Nat /\ today <= today'
                     => Later /\ written' = written
<1> SUFFICES ASSUME born \in Seq(Nat), UNCHANGED born, today \in Nat, today' \in Nat, today <= today'
             PROVE  Later /\ written' = written
  OBVIOUS
<1>1. written' = written
  BY DEF written
<1> QED
  BY <1>1, WrittenNumber DEF Later

(* More entries written let go of no fewer.                                *)
LEMMA LetGoLater ==
    ASSUME Later, NEW id \in 1..written, LetGo(id)
    PROVE  LetGo(id)'
<1>0. RetentionDays \in Nat /\ MaxEntries \in Nat
  BY HistoryAssumption DEF HistoryAssumption
<1>1. CASE TooOld(id)
  <2>1. TooOld(id)'
    BY <1>0, <1>1 DEF TooOld, Later
  <2> QED
    BY <2>1 DEF LetGo
<1>2. CASE MaxEntries > 0 /\ Cardinality({e \in 1..written : e > id}) >= MaxEntries
  <2> DEFINE T == {e \in 1..written : e > id}
             U == {e \in 1..written' : e > id}
  <2>1. IsFiniteSet(T) /\ Cardinality(T) \in Nat
    BY CountFinite DEF Later
  <2>2. IsFiniteSet(U) /\ Cardinality(U) \in Nat
    <3>1. U \in SUBSET (1..written') /\ IsFiniteSet(1..written')
      BY FirstNumbers DEF Later
    <3> HIDE DEF U
    <3> QED
      BY <3>1, FS_Subset, FS_CardinalityType
  <2>3. T \subseteq U
    BY DEF Later
  <2>4. Cardinality(T) <= Cardinality(U)
    <3> HIDE DEF T, U
    <3> QED
      BY <2>2, <2>3, FS_Subset
  <2>5. Cardinality(U) >= MaxEntries
    <3>1. Cardinality(T) >= MaxEntries
      BY <1>2
    <3> HIDE DEF T, U
    <3> QED
      BY <1>0, <2>1, <2>2, <2>4, <3>1
  <2> QED
    BY <1>2, <2>5 DEF LetGo
<1> QED
  BY <1>1, <1>2 DEF LetGo

(* So a log stays one, and complete as long as nothing new is written.     *)
LEMMA LogLater ==
    ASSUME Later, cleared' = cleared, NEW s
    PROVE  /\ Log(s) => Log(s)'
           /\ \A since : Complete(s, since) /\ written' = written => Complete(s, since)'
           /\ Few(s) => Few(s)'
<1>1. ASSUME Log(s) PROVE Log(s)'
  <2>1. 1..written \subseteq 1..written'
    BY DEF Later
  <2>2. Entries \subseteq Entries'
    BY <2>1 DEF Entries
  <2>3. s \in Seq(Entries)'
    BY <1>1, <2>2 DEF Log
  <2> QED
    BY <1>1, <2>3 DEF Log, Ids
<1>2. ASSUME NEW since, Complete(s, since), written' = written PROVE Complete(s, since)'
  BY <1>2, LetGoLater DEF Complete, Ids
<1> QED
  BY <1>1, <1>2 DEF Few

(* A step of the one process that is in an operation.                      *)
LEMMA OneProc ==
    ASSUME ProcTypes, NEW p \in Procs, NEW q, IsProc(q),
           procs' = [procs EXCEPT ![p] = q]
    PROVE  ProcTypes' /\ (~OtherProcs(p) /\ Fits(q)' => InTurn')
<1>1. procs'[p] = q /\ DOMAIN procs' = Procs /\ \A o \in Procs \ {p} : procs'[o] = procs[o]
  BY DEF ProcTypes
<1>2. ProcTypes'
  BY <1>1 DEF ProcTypes, IsProc
<1>3. ASSUME ~OtherProcs(p), Fits(q)' PROVE InTurn'
  <2>1. \A o \in Procs : procs'[o].at # "idle" => o = p
    BY <1>1, <1>3 DEF OtherProcs
  <2>2. OneAtWork'
    BY <2>1 DEF OneAtWork
  <2>3. (\A o \in Procs : procs'[o].at = "idle") => Resting'
    BY <1>1, <1>3 DEF Fits
  <2>4. \A o \in Procs : procs'[o].at # "idle" => Fits(procs[o])'
    BY <1>1, <1>3, <2>1
  <2> QED
    BY <2>2, <2>3, <2>4 DEF InTurn
<1> QED
  BY <1>2, <1>3

(* What is known before it.                                                *)
LEMMA MyTurn ==
    ASSUME HistoryInv, NEW p \in Procs, ~disturbed, ~OtherProcs(p)
    PROVE  Fits(procs[p])
<1>1. CASE procs[p].at = "idle"
  <2>1. \A q \in Procs : procs[q].at = "idle"
    BY <1>1 DEF OtherProcs
  <2> QED
    BY <1>1, <2>1 DEF HistoryInv, InTurn, Fits
<1> QED
  BY <1>1 DEF HistoryInv, InTurn

(* Write's first half.                                                     *)
LEMMA AppendStep == ASSUME HistoryInv, NEW p \in Procs, AppendEntry(p) PROVE HistoryInv'
<1>0. PICK q : q = Begins("write", 0)
  OBVIOUS
<1>1. IsProc(q) /\ ProcTypes
  BY <1>0 DEF Begins, IsProc, HistoryInv
<1>2. procs' = [procs EXCEPT ![p] = q]
  BY <1>0 DEF AppendEntry
<1>3. /\ written' = written + 1 /\ today' = today /\ written \in Nat /\ today \in Nat /\ cleared' = cleared
      /\ born' \in Seq(Nat) /\ Later
  <2>1. born \in Seq(Nat) /\ today \in Nat /\ born' = Append(born, today) /\ today' = today /\ cleared' = cleared
    BY DEF AppendEntry, HistoryInv
  <2>2. /\ born' \in Seq(Nat) /\ written' = written + 1 /\ written \in Nat
        /\ \A id \in 1..written : born[id] \in Nat /\ born'[id] = born[id]
    BY <2>1 DEF written
  <2>3. written' \in Nat /\ written <= written' /\ today' \in Nat /\ today <= today'
    BY <2>1, <2>2
  <2> QED
    BY <2>1, <2>2, <2>3 DEF Later
<1>4. ASSUME ~disturbed' PROVE ~OtherProcs(p) /\ Fits(q)'
  <2>1. ~disturbed /\ ~OtherProcs(p)
    BY <1>4 DEF AppendEntry
  <2>2. Resting
    BY <2>1, MyTurn DEF Fits, AppendEntry
  <2> DEFINE e == [id |-> written + 1, long |-> FALSE]
  <2>3. file' = Append(file, e)
    BY <1>4 DEF AppendEntry
  <2>4. Log(file)'
    <3>1. file \in Seq(Entries') /\ \A i \in DOMAIN file : file[i].id \in 1..written
      <4>1. Entries \subseteq Entries'
        <5>1. 1..written \subseteq 1..written'
          BY <1>3
        <5> QED
          BY <5>1 DEF Entries
      <4>2. Log(file)
        BY <2>2 DEF Resting
      <4>3. file \in Seq(Entries')
        <5>1. file \in Seq(Entries)
          BY <4>2 DEF Log
        <5> HIDE DEF Entries
        <5> QED
          BY <4>1, <5>1
      <4> QED
        BY <4>2, <4>3, LogEntry
    <3>2. e \in Entries'
      BY <1>3 DEF Entries
    <3>3. /\ file' \in Seq(Entries') /\ DOMAIN file' = 1..Len(file) + 1
          /\ file'[Len(file) + 1] = e /\ \A i \in 1..Len(file) : file'[i] = file[i]
      BY <2>3, <3>1, <3>2
    <3>4. Len(file) \in Nat /\ DOMAIN file = 1..Len(file) /\ e.id = written + 1
      BY <3>1
    <3> HIDE DEF e
    <3>5. ASSUME NEW i \in DOMAIN file', NEW j \in DOMAIN file', file'[i].id = file'[j].id PROVE i = j
      <4>1. i \in DOMAIN file /\ j \in DOMAIN file => i = j
        BY <2>2, <3>3, <3>4, <3>5 DEF Resting, Log
      <4>2. i \in DOMAIN file \/ i = Len(file) + 1
        BY <3>3, <3>4
      <4>3. j \in DOMAIN file \/ j = Len(file) + 1
        BY <3>3, <3>4
      <4>4. \A k \in DOMAIN file : file'[k].id \in 1..written
        BY <3>1, <3>3, <3>4
      <4>5. \A k \in DOMAIN file : file'[k].id # written + 1
        BY <1>3, <4>4
      <4> QED
        BY <3>3, <3>4, <3>5, <4>1, <4>2, <4>3, <4>5
    <3>6. written + 1 \notin cleared
      BY <1>3 DEF HistoryInv
    <3>7. Ids(file)' \cap cleared' = {}
      <4>1. \A i \in DOMAIN file' : file'[i].id \notin cleared
        <5> TAKE i \in DOMAIN file'
        <5>1. i = Len(file) + 1 \/ (i \in DOMAIN file /\ file'[i] = file[i])
          BY <3>3, <3>4
        <5>2. \A k \in DOMAIN file : file[k].id \notin cleared
          BY <2>2 DEF Resting, Log, Ids
        <5> QED
          BY <3>3, <3>4, <3>6, <5>1, <5>2
      <4> QED
        BY <1>3, <4>1 DEF Ids
    <3> QED
      BY <3>3, <3>5, <3>7 DEF Log
  <2>5. Complete(file, 0)'
    <3>1. file \in Seq(Entries)
      BY <2>2 DEF Resting, Log
    <3>2. /\ Len(file) + 1 \in DOMAIN file' /\ file'[Len(file) + 1] = e
          /\ \A i \in DOMAIN file : i \in DOMAIN file' /\ file'[i] = file[i]
      BY <2>3, <3>1
    <3>3. Ids(file) \subseteq Ids(file)'
      BY <3>2 DEF Ids
    <3>4. written + 1 \in Ids(file)'
      BY <3>2 DEF Ids
    <3>5. ASSUME NEW id \in 1..written' \ (Ids(file)' \cup cleared') PROVE LetGo(id)'
      <4>1. id \in 1..written \ (Ids(file) \cup cleared)
        BY <1>3, <3>3, <3>4, <3>5
      <4>2. LetGo(id)
        BY <2>2, <4>1 DEF Resting, Complete
      <4> QED
        BY <1>3, <4>1, <4>2, LetGoLater
    <3> QED
      BY <3>5 DEF Complete
  <2>6. q.at = "read" /\ q.op = "write"
    BY <1>0 DEF Begins
  <2> QED
    BY <2>1, <2>4, <2>5, <2>6 DEF Fits
<1>5. cleared' \subseteq 1..written'
  BY <1>3 DEF HistoryInv
<1>6. ProcTypes' /\ (~disturbed' => InTurn')
  BY <1>1, <1>2, <1>4, OneProc
<1> QED
  BY <1>3, <1>5, <1>6 DEF HistoryInv

(* What a cutoff leaves is as new as it says, and complete from there.     *)
LEMMA SinceKeeps ==
    ASSUME NEW s, Log(s), Few(s), Complete(s, 0), NEW since \in Nat, written \in Nat
    PROVE  LET kept == Since(s, since) IN
           /\ Log(kept) /\ Few(kept) /\ Complete(kept, since) /\ \A id \in Ids(kept) : id >= since
<1> DEFINE I == {i \in DOMAIN s : s[i].id >= since}
           kept == Since(s, since)
<1>1. Log(kept) /\ Len(kept) <= Len(s) /\ Ids(kept) = {s[i].id : i \in I}
  BY KeptLog DEF Since
<1> HIDE DEF kept
<1>2. Few(kept)
  <2>1. Len(kept) \in Nat /\ Len(s) \in Nat /\ MaxEntries \in Nat
    BY <1>1, HistoryAssumption DEF Log, HistoryAssumption
  <2> QED
    BY <1>1, <2>1 DEF Few
<1>3. ASSUME NEW id \in 1..written \ (Ids(kept) \cup cleared), id >= since PROVE LetGo(id)
  <2>1. id \notin Ids(s)
    BY <1>1, <1>3 DEF Ids
  <2> QED
    BY <1>3, <2>1 DEF Complete
<1> QED
  BY <1>1, <1>2, <1>3 DEF Complete, kept

(* What is kept is settled when the file has been read.                    *)
LEMMA KeepStep == ASSUME HistoryInv, NEW p \in Procs, ReadAndKeep(p) PROVE HistoryInv'
<1> DEFINE q == procs[p]
           kept == IF q.op = "write" THEN Evict(ReadAll) ELSE Since(ReadAll, q.since)
           same == ReadFails \/ (q.op = "write" /\ kept = ReadAll)
<1>0. PICK r : r = IF same THEN IdleProc ELSE [q EXCEPT !.at = "truncate", !.kept = kept]
  OBVIOUS
<1>2. IsProc(q) /\ q.at = "read" /\ ProcTypes
  BY DEF HistoryInv, ProcTypes, ReadAndKeep
<1>3. /\ UNCHANGED <<file, born, today, cleared>> /\ born \in Seq(Nat) /\ today \in Nat /\ written \in Nat
      /\ Later /\ written' = written
  <2>1. UNCHANGED <<file, born, today, cleared>> /\ born \in Seq(Nat) /\ today \in Nat
    BY DEF ReadAndKeep, HistoryInv
  <2> QED
    BY <2>1, NoneWritten, WrittenNumber
<1>4. procs' = [procs EXCEPT ![p] = r]
  BY <1>0 DEF ReadAndKeep
<1> HIDE DEF kept, same
<1>5. /\ IsProc(r) /\ (same => r.at = "idle")
      /\ ~same => r.at = "truncate" /\ r.kept = kept /\ r.op = q.op /\ r.since = q.since
  BY <1>0, <1>2 DEF IsProc, IdleProc
<1>6. ASSUME ~disturbed' PROVE ~OtherProcs(p) /\ Fits(r)'
  <2>1. ~disturbed /\ ~OtherProcs(p)
    BY <1>6 DEF ReadAndKeep, Overlap
  <2>2. Log(file) /\ Complete(file, 0) /\ (q.op = "clear" => Few(file))
    BY <1>2, <2>1, MyTurn DEF Fits
  <2>3. ReadAll = file /\ ~ReadFails
    BY <2>2, LogRead
  <2>4. /\ Log(kept) /\ Few(kept) /\ Complete(kept, q.since) /\ \A id \in Ids(kept) : id >= q.since
        /\ same => Few(file)
    <3>1. CASE q.op = "write"
      <4>1. kept = Evict(file) /\ q.since = 0
        BY <1>2, <2>3, <3>1 DEF kept, IsProc
      <4>2. Log(kept) /\ Few(kept) /\ Complete(kept, 0)
        BY <1>3, <2>2, <4>1, EvictKeeps
      <4>3. \A id \in Ids(kept) : id >= 0
        <5>1. \A i \in DOMAIN kept : kept[i].id \in 1..written
          BY <4>2, LogEntry
        <5> QED
          BY <1>3, <5>1 DEF Ids
      <4> QED
        BY <2>3, <4>1, <4>2, <4>3 DEF same
    <3>2. CASE q.op = "clear"
      <4>1. kept = Since(file, q.since) /\ q.since \in Nat
        BY <1>2, <2>3, <3>2 DEF kept, IsProc
      <4> QED
        BY <1>3, <2>2, <3>2, <4>1, SinceKeeps
    <3> QED
      BY <1>2, <3>1, <3>2 DEF IsProc
  <2>5. CASE same
    <3>1. Resting
      BY <2>2, <2>4, <2>5 DEF Resting
    <3>2. Resting'
      BY <1>3, <3>1, LogLater DEF Resting
    <3> QED
      BY <1>5, <2>1, <2>5, <3>2 DEF Fits
  <2>6. CASE ~same
    <3>1. /\ Log(r.kept) /\ Few(r.kept) /\ Complete(r.kept, r.since)
          /\ \A id \in Ids(r.kept) : id >= r.since
      BY <1>5, <2>4, <2>6
    <3>2. Log(r.kept)' /\ Few(r.kept)' /\ Complete(r.kept, r.since)'
      BY <1>3, <3>1, LogLater
    <3> QED
      BY <1>5, <2>1, <2>6, <3>1, <3>2 DEF Fits, Ids
  <2> QED
    BY <2>5, <2>6
<1> QED
  BY <1>2, <1>3, <1>4, <1>5, <1>6, OneProc DEF HistoryInv

(* The file empties; what is kept is with the process.                     *)
LEMMA TruncateStep == ASSUME HistoryInv, NEW p \in Procs, Truncate(p) PROVE HistoryInv'
<1> DEFINE q == procs[p]
<1>0. PICK r : r = [q EXCEPT !.at = "flush"]
  OBVIOUS
<1>1. IsProc(q) /\ q.at = "truncate" /\ ProcTypes
  BY DEF HistoryInv, ProcTypes, Truncate
<1>2. /\ UNCHANGED <<born, today, cleared>> /\ born \in Seq(Nat) /\ today \in Nat /\ file' = <<>>
      /\ procs' = [procs EXCEPT ![p].at = "flush"] /\ Later /\ written' = written
  <2>1. /\ UNCHANGED <<born, today, cleared>> /\ born \in Seq(Nat) /\ today \in Nat /\ file' = <<>>
        /\ procs' = [procs EXCEPT ![p].at = "flush"]
    BY DEF Truncate, HistoryInv, Become
  <2> QED
    BY <2>1, NoneWritten
<1>3. procs' = [procs EXCEPT ![p] = r]
  BY <1>0, <1>2
<1>4. IsProc(r) /\ r.at = "flush" /\ r.op = q.op /\ r.kept = q.kept /\ r.since = q.since
  BY <1>0, <1>1 DEF IsProc
<1>5. ASSUME ~disturbed' PROVE ~OtherProcs(p) /\ Fits(r)'
  <2>1. ~disturbed /\ ~OtherProcs(p)
    BY <1>5 DEF Truncate, Overlap
  <2>2. Log(r.kept) /\ Few(r.kept) /\ Complete(r.kept, r.since) /\ \A id \in Ids(r.kept) : id >= r.since
    BY <1>1, <1>4, <2>1, MyTurn DEF Fits
  <2>3. Log(r.kept)' /\ Few(r.kept)' /\ Complete(r.kept, r.since)'
    BY <1>2, <2>2, LogLater
  <2> QED
    BY <1>2, <1>4, <2>1, <2>2, <2>3 DEF Fits, Ids
<1> QED
  BY <1>1, <1>2, <1>3, <1>4, <1>5, OneProc DEF HistoryInv

(* What was kept is what there is, once the rest of a Clear is cleared.    *)
LEMMA LogCleared ==
    ASSUME UNCHANGED <<born, today>>, born \in Seq(Nat), NEW s, Log(s), Few(s),
           NEW since \in Nat, Complete(s, since), \A id \in Ids(s) : id >= since,
           cleared' = cleared \cup {id \in 1..written : id < since}
    PROVE  Log(s)' /\ Complete(s, 0)' /\ Few(s)'
<1>0. written' = written /\ written \in Nat
  BY WrittenNumber DEF written
<1>1. Entries' = Entries /\ Ids(s)' = Ids(s)
  BY <1>0 DEF Entries, Ids
<1>2. Ids(s) \cap cleared' = {}
  <2>1. Ids(s) \subseteq 1..written
    BY LogEntry DEF Ids
  <2> QED
    BY <1>0, <2>1 DEF Log
<1>3. Log(s)'
  BY <1>1, <1>2 DEF Log
<1>4. ASSUME NEW id \in 1..written', id \notin Ids(s), id \notin cleared' PROVE LetGo(id)'
  <2>1. id \in 1..written /\ id >= since /\ id \notin cleared
    BY <1>0, <1>4
  <2>2. LetGo(id)
    BY <1>4, <2>1 DEF Complete
  <2> QED
    BY <1>0, <2>2 DEF LetGo, TooOld
<1>5. Complete(s, 0)'
  BY <1>1, <1>4 DEF Complete
<1> QED
  BY <1>3, <1>5 DEF Few

(* It is written again: Clear has cleared what is older than its cutoff.   *)
LEMMA FlushStep == ASSUME HistoryInv, NEW p \in Procs, Flush(p) PROVE HistoryInv'
<1> DEFINE q == procs[p]  kept == procs[p].kept
<1>1. IsProc(q) /\ q.at = "flush" /\ ProcTypes /\ IsProc(IdleProc) /\ IdleProc.at = "idle"
  BY DEF HistoryInv, ProcTypes, Flush, IsProc, IdleProc
<1>2. /\ UNCHANGED <<born, today>> /\ born \in Seq(Nat) /\ today \in Nat /\ cleared \subseteq 1..written
      /\ procs' = [procs EXCEPT ![p] = IdleProc]
      /\ cleared' = cleared \cup {id \in 1..written : id < q.since}
  BY DEF Flush, HistoryInv
<1>3. ASSUME ~disturbed' PROVE ~OtherProcs(p) /\ Fits(IdleProc)'
  <2>1. ~disturbed /\ ~OtherProcs(p)
    BY <1>3 DEF Flush, Overlap
  <2>2. /\ Log(kept) /\ Few(kept) /\ Complete(kept, q.since) /\ \A id \in Ids(kept) : id >= q.since
        /\ file = <<>>
    BY <1>1, <2>1, MyTurn DEF Fits
  <2>3. file' = kept
    <3>1. PICK torn \in BOOLEAN :
            file' = kept \o (IF torn /\ SubSeq(file, Len(kept) + 1, Len(file)) # <<>>
                             THEN <<Damaged>> \o Tail(SubSeq(file, Len(kept) + 1, Len(file)))
                             ELSE SubSeq(file, Len(kept) + 1, Len(file)))
      BY DEF Flush
    <3>2. kept \in Seq(Entries)
      BY <2>2 DEF Log
    <3>3. SubSeq(file, Len(kept) + 1, Len(file)) = <<>>
      BY <2>2, <3>2
    <3>4. file' = kept \o <<>>
      BY <3>1, <3>3
    <3> QED
      BY <3>2, <3>4
  <2>4. Log(file)' /\ Complete(file, 0)' /\ Few(file)'
    <3>1. PICK s : s = kept
      OBVIOUS
    <3>2. q.since \in Nat
      BY <1>1 DEF IsProc
    <3>3. Log(s)' /\ Complete(s, 0)' /\ Few(s)'
      BY <1>2, <2>2, <3>1, <3>2, LogCleared
    <3> QED
      BY <2>3, <3>1, <3>3 DEF Log, Complete, Few, Ids
  <2> QED
    BY <1>1, <2>1, <2>4 DEF Fits, Resting
<1>4. cleared' \subseteq 1..written' /\ born' \in Seq(Nat) /\ today' \in Nat
  <2>1. written' = written
    BY <1>2 DEF written
  <2> QED
    BY <1>2, <2>1
<1>5. ProcTypes' /\ (~disturbed' => InTurn')
  BY <1>1, <1>2, <1>3, OneProc
<1> QED
  BY <1>4, <1>5 DEF HistoryInv

(* Clear begins, with a cutoff or without.                                 *)
LEMMA ClearStep ==
    ASSUME HistoryInv, NEW p \in Procs, ClearSince(p) \/ ClearAll(p)
    PROVE  HistoryInv'
<1>0. born \in Seq(Nat) /\ today \in Nat /\ written \in Nat
  BY WrittenNumber DEF HistoryInv
<1>1. CASE ClearSince(p)
  <2>0. PICK since \in 1..written + 1 : procs' = [procs EXCEPT ![p] = Begins("clear", since)]
    BY <1>1 DEF ClearSince
  <2> DEFINE q == Begins("clear", since)
  <2>1. IsProc(q) /\ ProcTypes /\ q.at = "read"
    BY <1>0 DEF Begins, IsProc, HistoryInv
  <2>2. procs' = [procs EXCEPT ![p] = q]
    BY <2>0
  <2> HIDE DEF q
  <2>3. UNCHANGED <<file, born, today, cleared>> /\ Later /\ written' = written
    <3>1. UNCHANGED <<file, born, today, cleared>>
      BY <1>1 DEF ClearSince
    <3> QED
      BY <1>0, <3>1, NoneWritten
  <2>4. ASSUME ~disturbed' PROVE ~OtherProcs(p) /\ Fits(q)'
    <3>1. ~disturbed /\ ~OtherProcs(p) /\ procs[p].at = "idle"
      BY <1>1, <2>4 DEF ClearSince, Overlap
    <3>2. Resting
      BY <3>1, MyTurn DEF Fits
    <3>3. Resting'
      BY <2>3, <3>2, LogLater DEF Resting
    <3> QED
      BY <2>1, <3>1, <3>3 DEF Fits, Resting
  <2> QED
    BY <1>0, <2>1, <2>2, <2>3, <2>4, OneProc DEF HistoryInv
<1>2. CASE ClearAll(p)
  <2>1. /\ file' = <<>> /\ cleared' = 1..written /\ UNCHANGED <<procs, born, today>> /\ ProcTypes
    BY <1>2 DEF ClearAll, HistoryInv
  <2>0. written' = written
    BY <2>1 DEF written
  <2>2. ASSUME ~disturbed' PROVE InTurn'
    <3>1. \A q \in Procs : procs[q].at = "idle"
      BY <1>2, <2>2 DEF ClearAll, Overlap, OtherProcs
    <3>2. Log(<<>>)' /\ Complete(<<>>, 0)' /\ Few(<<>>)'
      <4>1. HistoryAssumption
        BY HistoryAssumption
      <4> QED
        BY <2>0, <2>1, <4>1 DEF Log, Complete, Few, Ids, HistoryAssumption
    <3> QED
      BY <2>1, <3>1, <3>2 DEF InTurn, OneAtWork, Resting
  <2> QED
    BY <1>0, <2>0, <2>1, <2>2 DEF HistoryInv, ProcTypes, IsProc
<1> QED
  BY <1>1, <1>2

(* A process that dies disturbs what is told; days only let go of more.    *)
LEMMA OtherStep ==
    ASSUME HistoryInv, DayPasses \/ UNCHANGED fileVars \/ \E p \in Procs : ProcessDies(p)
    PROVE  HistoryInv'
<1>1. ASSUME NEW p \in Procs, ProcessDies(p) PROVE HistoryInv'
  <2>1. IsProc(IdleProc) /\ ProcTypes /\ procs' = [procs EXCEPT ![p] = IdleProc]
    BY <1>1 DEF IsProc, IdleProc, HistoryInv, ProcessDies
  <2>2. ProcTypes'
    BY <2>1, OneProc
  <2>3. written' = written
    BY <1>1 DEF ProcessDies, written
  <2> QED
    BY <1>1, <2>2, <2>3 DEF HistoryInv, ProcessDies
<1>2. CASE DayPasses \/ UNCHANGED fileVars
  <2>0. /\ UNCHANGED <<file, procs, born, disturbed, cleared>> /\ born \in Seq(Nat) /\ today \in Nat
        /\ today' \in Nat /\ today <= today'
    BY <1>2 DEF DayPasses, fileVars, HistoryInv
  <2>1. Later /\ written' = written
    BY <2>0, NoneWritten
  <2>2. ASSUME InTurn PROVE InTurn'
    <3>1. Resting => Resting'
      BY <2>0, <2>1, LogLater DEF Resting
    <3>2. \A p \in Procs : Fits(procs[p]) => Fits(procs[p])'
      BY <2>0, <2>1, <3>1, LogLater DEF Fits, Ids
    <3> QED
      BY <2>0, <2>2, <3>1, <3>2 DEF InTurn, OneAtWork
  <2> QED
    BY <2>0, <2>1, <2>2 DEF HistoryInv, ProcTypes, IsProc
<1> QED
  BY <1>1, <1>2

(* When all is at rest the list is the log, sorted.                        *)
LEMMA HistoryInvKept == HistoryInv => EntriesKept
<1> SUFFICES ASSUME HistoryInv, ~disturbed, \A p \in Procs : procs[p].at = "idle"
             PROVE  /\ MaxEntries > 0 => Len(file) <= MaxEntries
                    /\ Cardinality(Listed) = Len(List(0)) /\ Listed \cap cleared = {}
                    /\ \A id \in 1..written \ (Listed \cup cleared) : LetGo(id)
  BY DEF EntriesKept, LetGo
<1>1. Log(file) /\ Complete(file, 0) /\ Few(file)
  BY DEF HistoryInv, InTurn, Resting
<1> DEFINE t == NewestFirst(file)
<1>2. List(0) = t
  BY <1>1, LogRead DEF List
<1>3. Log(t) /\ Ids(t) = Ids(file)
  BY <1>1, NewestLog
<1> HIDE DEF t
<1>4. Listed = Ids(file) /\ Listed = Ids(t)
  BY <1>2, <1>3 DEF Listed, Ids
<1>5. Cardinality(Listed) = Len(t)
  <2> DEFINE f == [k \in 1..Len(t) |-> t[k].id]
  <2>1. Len(t) \in Nat /\ DOMAIN t = 1..Len(t)
    BY <1>3 DEF Log
  <2>2. f \in Bijection(1..Len(t), Listed)
    <3>1. f \in [1..Len(t) -> Listed]
      BY <1>4, <2>1 DEF Ids
    <3>2. \A i, j \in 1..Len(t) : f[i] = f[j] => i = j
      BY <1>3, <2>1 DEF Log
    <3>3. \A id \in Listed : \E i \in 1..Len(t) : f[i] = id
      BY <1>4, <2>1 DEF Ids
    <3> HIDE DEF f
    <3> QED
      BY <3>1, <3>2, <3>3 DEF Bijection, Injection, Surjection, IsInjective
  <2> HIDE DEF f
  <2>3. IsFiniteSet(1..Len(t)) /\ Cardinality(1..Len(t)) = Len(t)
    BY <2>1, FirstNumbers
  <2> QED
    BY <2>2, <2>3, FS_Bijection DEF ExistsBijection
<1> QED
  <2>1. \A id \in 1..written : id >= 0
    BY WrittenNumber DEF HistoryInv
  <2> QED
    BY <1>1, <1>2, <1>4, <1>5, <2>1 DEF Few, Complete, Log

-----------------------------------------------------------------------------
(* AsyncWriter. What is written and what is in the buffer behind it are in *)
(* order, and are the entries accepted that did not fail and late ones.    *)
Rising(s) == \A i, j \in DOMAIN s : i < j => s[i] < s[j]
Elements(s) == {s[i] : i \in DOMAIN s}
Given == 1..async.n
WriterFields == {"n", "ch", "closed", "worker", "accepted", "late", "failed", "out", "drain"}
AsyncInv ==
    /\ DOMAIN async = WriterFields
    /\ async.n \in Nat /\ async.out \in Seq(Given) /\ async.ch \in Seq(Given)
    /\ async.late \subseteq Given /\ async.accepted \subseteq Given /\ async.failed \subseteq Given
    /\ async.late \cap async.accepted = {}
    /\ Rising(async.out) /\ Rising(async.ch)
    /\ \A x \in Elements(async.out), y \in Elements(async.ch) : x < y
    /\ \A x \in async.failed, y \in Elements(async.ch) : x < y
    /\ (Elements(async.out) \cup Elements(async.ch)) \ async.late = async.accepted \ async.failed
    /\ async.worker \in {"drain", "left"} => async.closed
    /\ async.worker = "left" => \A i \in DOMAIN async.ch : async.ch[i] \in async.late
    /\ async.drain = "drained" => async.worker = "left"

(* It holds of a new writer.                                               *)
LEMMA AsyncInitInv == HistoryInit => AsyncInv
<1> SUFFICES ASSUME HistoryInit PROVE AsyncInv
  OBVIOUS
<1>1. async = FreshWriter
  BY DEF HistoryInit
<1> QED
  BY <1>1 DEF AsyncInv, FreshWriter, WriterFields, Given, Rising, Elements

(* The buffer with one more, or one fewer, number in it.                   *)
LEMMA RisingEnds ==
    ASSUME NEW s \in Seq(Nat), Rising(s)
    PROVE  /\ \A e \in Nat : (\A x \in Elements(s) : x < e) =>
                 Rising(Append(s, e)) /\ Elements(Append(s, e)) = Elements(s) \cup {e}
           /\ s # <<>> => /\ Rising(Tail(s)) /\ Head(s) \in Nat
                          /\ Elements(s) = Elements(Tail(s)) \cup {Head(s)}
                          /\ \A y \in Elements(Tail(s)) : Head(s) < y
<1>1. ASSUME NEW e \in Nat, \A x \in Elements(s) : x < e
      PROVE  Rising(Append(s, e)) /\ Elements(Append(s, e)) = Elements(s) \cup {e}
  <2> DEFINE t == Append(s, e)
  <2>1. /\ DOMAIN t = (DOMAIN s) \cup {Len(s) + 1} /\ t[Len(s) + 1] = e
        /\ \A i \in DOMAIN s : t[i] = s[i] /\ s[i] \in Nat /\ i \in Nat /\ i < Len(s) + 1
    BY OneMore
  <2> HIDE DEF t
  <2>2. Elements(t) = Elements(s) \cup {e}
    BY <2>1 DEF Elements
  <2>3. Len(s) \in Nat
    OBVIOUS
  <2>4. Rising(t)
    BY <1>1, <2>1, <2>3 DEF Rising, Elements
  <2> QED
    BY <2>2, <2>4 DEF t
<1>2. ASSUME s # <<>>
      PROVE  /\ Rising(Tail(s)) /\ Head(s) \in Nat
             /\ Elements(s) = Elements(Tail(s)) \cup {Head(s)}
             /\ \A y \in Elements(Tail(s)) : Head(s) < y
  <2> DEFINE t == Tail(s)  h == Head(s)
  <2>1. /\ h = s[1] /\ 1 \in DOMAIN s /\ Len(s) \in Nat /\ DOMAIN s = 1..Len(s) /\ DOMAIN t = 1..Len(s) - 1
        /\ \A i \in 1..Len(s) - 1 : t[i] = s[i + 1]
    BY <1>2
  <2>2. h \in Nat
    BY <2>1
  <2> HIDE DEF t, h
  <2>3. Rising(t)
    <3> SUFFICES ASSUME NEW i \in DOMAIN t, NEW j \in DOMAIN t, i < j PROVE t[i] < t[j]
      BY DEF Rising
    <3>1. i + 1 \in DOMAIN s /\ j + 1 \in DOMAIN s /\ i + 1 < j + 1 /\ t[i] = s[i + 1] /\ t[j] = s[j + 1]
      BY <2>1
    <3> QED
      BY <3>1 DEF Rising
  <2>4. Elements(s) = Elements(t) \cup {h}
    <3>1. ASSUME NEW i \in DOMAIN s PROVE s[i] \in Elements(t) \cup {h}
      <4>1. CASE i = 1
        BY <2>1, <4>1
      <4>2. CASE i # 1
        <5>1. i - 1 \in DOMAIN t /\ t[i - 1] = s[i]
          BY <2>1, <4>2
        <5> QED
          BY <5>1 DEF Elements
      <4> QED
        BY <4>1, <4>2
    <3>2. ASSUME NEW i \in DOMAIN t PROVE t[i] \in Elements(s)
      <4>1. i + 1 \in DOMAIN s /\ t[i] = s[i + 1]
        BY <2>1
      <4> QED
        BY <4>1 DEF Elements
    <3>3. h \in Elements(s)
      BY <2>1 DEF Elements
    <3>4. Elements(s) \subseteq Elements(t) \cup {h}
      BY <3>1 DEF Elements
    <3>5. Elements(t) \subseteq Elements(s)
      BY <3>2 DEF Elements
    <3> QED
      BY <3>3, <3>4, <3>5
  <2>5. \A y \in Elements(t) : h < y
    <3>1. ASSUME NEW i \in DOMAIN t PROVE h < t[i]
      <4>1. 1 < i + 1 /\ i + 1 \in DOMAIN s /\ t[i] = s[i + 1]
        BY <2>1
      <4> QED
        BY <2>1, <4>1 DEF Rising
    <3> QED
      BY <3>1 DEF Elements
  <2> QED
    BY <2>2, <2>3, <2>4, <2>5 DEF t, h
<1> QED
  BY <1>1, <1>2

(* A write gives the next number, to the buffer or to nobody.              *)
LEMMA WriteStep == ASSUME AsyncInv, WriteAsync PROVE AsyncInv'
<1> DEFINE n == async.n + 1
           w == [async EXCEPT !.n = n, !.ch = Append(@, n)]
           V == 1..n
<1>1. /\ DOMAIN async = WriterFields /\ async.n \in Nat /\ n \in Nat /\ async.n < n
      /\ async.out \in Seq(Given) /\ async.ch \in Seq(Given)
      /\ async.late \subseteq Given /\ async.accepted \subseteq Given /\ async.failed \subseteq Given
  BY DEF AsyncInv
<1>2. Given \subseteq V /\ n \in V /\ n \notin Given /\ \A x \in Given : x \in Nat /\ x < n
  BY <1>1 DEF Given
<1>3. async'.n = n => Given' = V
  BY DEF Given
<1> HIDE DEF V, n
<1>4. async.out \in Seq(V) /\ async.ch \in Seq(V) /\ async.ch \in Seq(Nat)
  <2>1. \A S, T : S \subseteq T => \A s \in Seq(S) : s \in Seq(T)
    OBVIOUS
  <2>2. Given \subseteq V /\ Given \subseteq Nat
    BY <1>2
  <2> QED
    BY <1>1, <2>1, <2>2, Zenon
<1>5. Elements(async.out) \subseteq Given /\ Elements(async.ch) \subseteq Given
  BY <1>1, ElementOfSeq DEF Elements
<1>6. CASE async' = [async EXCEPT !.n = n]
  <2>1. /\ async'.n = n /\ async'.ch = async.ch /\ async'.out = async.out /\ async'.late = async.late
        /\ async'.failed = async.failed
        /\ async'.accepted = async.accepted /\ async'.worker = async.worker /\ async'.closed = async.closed
        /\ async'.drain = async.drain /\ DOMAIN async' = WriterFields
    BY <1>1, <1>6 DEF WriterFields
  <2> QED
    BY <1>1, <1>2, <1>3, <1>4, <2>1 DEF AsyncInv
<1>7. LET ch == Append(async.ch, n) IN
      /\ ch \in Seq(V) /\ Rising(ch) /\ Elements(ch) = Elements(async.ch) \cup {n}
  <2>1. Append(async.ch, n) \in Seq(V)
    BY <1>2, <1>4, OneMore
  <2>2. Rising(async.ch) /\ \A x \in Elements(async.ch) : x < n
    BY <1>2, <1>5 DEF AsyncInv
  <2> QED
    BY <1>1, <1>4, <2>1, <2>2, RisingEnds
<1>8. /\ \A x \in Elements(async.out), y \in Elements(async.ch) \cup {n} : x < y
      /\ \A x \in async.failed, y \in Elements(async.ch) \cup {n} : x < y
  BY <1>1, <1>2, <1>5 DEF AsyncInv
<1>9. CASE async.closed /\ async' = [w EXCEPT !.late = @ \cup {n}]
  <2>1. /\ async'.n = n /\ async'.ch = Append(async.ch, n) /\ async'.out = async.out
        /\ async'.late = async.late \cup {n} /\ async'.failed = async.failed
        /\ async'.accepted = async.accepted /\ async'.worker = async.worker /\ async'.closed = async.closed
        /\ async'.drain = async.drain /\ DOMAIN async' = WriterFields
    BY <1>1, <1>9 DEF WriterFields
  <2>2. Elements(async'.ch) = Elements(async.ch) \cup {n} /\ Rising(async'.ch) /\ async'.ch \in Seq(V)
    BY <1>7, <2>1
  <2>3. (Elements(async'.out) \cup Elements(async'.ch)) \ async'.late = async'.accepted \ async'.failed
    BY <1>1, <1>2, <1>5, <2>1, <2>2 DEF AsyncInv
  <2>4. async.worker = "left" => \A i \in DOMAIN async'.ch : async'.ch[i] \in async'.late
    BY <2>1, <2>2 DEF AsyncInv, Elements
  <2>5. /\ async'.late \subseteq V /\ async'.accepted \subseteq V /\ async'.failed \subseteq V
        /\ async'.late \cap async'.accepted = {}
    BY <1>1, <1>2, <2>1 DEF AsyncInv
  <2> QED
    BY <1>1, <1>3, <1>4, <1>8, <1>9, <2>1, <2>2, <2>3, <2>4, <2>5 DEF AsyncInv
<1>10. CASE ~async.closed /\ async' = [w EXCEPT !.accepted = @ \cup {n}]
  <2>1. /\ async'.n = n /\ async'.ch = Append(async.ch, n) /\ async'.out = async.out
        /\ async'.late = async.late /\ async'.failed = async.failed
        /\ async'.accepted = async.accepted \cup {n} /\ async'.worker = async.worker
        /\ async'.closed = async.closed /\ async'.drain = async.drain /\ DOMAIN async' = WriterFields
    BY <1>1, <1>10 DEF WriterFields
  <2>2. Elements(async'.ch) = Elements(async.ch) \cup {n} /\ Rising(async'.ch) /\ async'.ch \in Seq(V)
    BY <1>7, <2>1
  <2>3. (Elements(async'.out) \cup Elements(async'.ch)) \ async'.late = async'.accepted \ async'.failed
    BY <1>1, <1>2, <1>5, <2>1, <2>2 DEF AsyncInv
  <2>4. async.worker \notin {"drain", "left"}
    BY <1>10 DEF AsyncInv
  <2>5. /\ async'.late \subseteq V /\ async'.accepted \subseteq V /\ async'.failed \subseteq V
        /\ async'.late \cap async'.accepted = {}
    <3>1. async.late \cap async.accepted = {}
      BY DEF AsyncInv
    <3>2. n \notin async.late
      BY <1>1, <1>2
    <3> QED
      BY <1>1, <1>2, <2>1, <3>1, <3>2
  <2> QED
    BY <1>1, <1>3, <1>4, <1>8, <1>10, <2>1, <2>2, <2>3, <2>4, <2>5 DEF AsyncInv
<1> QED
  BY <1>6, <1>9, <1>10 DEF WriteAsync, n

(* The worker takes the first of the buffer: it is written, or it fails.   *)
LEMMA WorkerStep ==
    ASSUME AsyncInv, WorkerWrites \/ WorkerSeesDone \/ WorkerLeaves \/ CloseAsync \/ DrainEnds
    PROVE  AsyncInv'
<1>1. CASE WorkerWrites
  <2> DEFINE h == Head(async.ch)
  <2>1. /\ async.worker \in {"run", "drain"} /\ async.ch # <<>>
        /\ \/ async' = [async EXCEPT !.ch = Tail(@), !.out = Append(@, h)]
           \/ async' = [async EXCEPT !.ch = Tail(@), !.failed = @ \cup {h}]
    BY <1>1 DEF WorkerWrites
  <2>2. /\ async.out \in Seq(Given) /\ async.ch \in Seq(Given) /\ async.n \in Nat /\ DOMAIN async = WriterFields
        /\ Given \subseteq Nat
    BY DEF AsyncInv, Given
  <2>3. async.out \in Seq(Nat) /\ async.ch \in Seq(Nat) /\ Tail(async.ch) \in Seq(Given) /\ h \in Given
    BY <2>1, <2>2
  <2>4. /\ Rising(Tail(async.ch)) /\ Elements(async.ch) = Elements(Tail(async.ch)) \cup {h}
        /\ \A y \in Elements(Tail(async.ch)) : h < y
    BY <2>1, <2>3, RisingEnds DEF AsyncInv
  <2>5. /\ async'.n = async.n /\ async'.ch = Tail(async.ch) /\ async'.late = async.late
        /\ async'.accepted = async.accepted /\ async'.worker = async.worker /\ async'.closed = async.closed
        /\ async'.drain = async.drain /\ DOMAIN async' = WriterFields /\ Given' = Given
    BY <2>1, <2>2 DEF WriterFields, Given
  <2>6. \/ async'.out = Append(async.out, h) /\ async'.failed = async.failed
        \/ async'.out = async.out /\ async'.failed = async.failed \cup {h}
    BY <2>1, <2>2 DEF WriterFields
  <2> HIDE DEF h
  <2>7. \A x \in Elements(async.out) : x < h
    BY <2>4 DEF AsyncInv
  <2>8. h \notin Elements(Tail(async.ch)) /\ h \notin Elements(async.out) /\ h \notin async.failed
    <3>1. ~(h < h)
      BY <2>2, <2>3
    <3> QED
      BY <2>4, <2>7, <3>1 DEF AsyncInv
  <2>9. CASE async'.out = Append(async.out, h) /\ async'.failed = async.failed
    <3>1. async'.out \in Seq(Given) /\ Rising(async'.out) /\ Elements(async'.out) = Elements(async.out) \cup {h}
      <4>1. Append(async.out, h) \in Seq(Given)
        BY <2>2, <2>3
      <4> QED
        BY <2>2, <2>3, <2>7, <2>9, <4>1, RisingEnds DEF AsyncInv
    <3>2. Elements(async'.out) \cup Elements(async'.ch) = Elements(async.out) \cup Elements(async.ch)
      BY <2>4, <2>5, <3>1
    <3>3. \A x \in Elements(async'.out), y \in Elements(async'.ch) : x < y
      BY <2>4, <2>5, <3>1 DEF AsyncInv
    <3>4. \A x \in async'.failed, y \in Elements(async'.ch) : x < y
      BY <2>4, <2>5, <2>9 DEF AsyncInv
    <3> QED
      BY <2>1, <2>2, <2>3, <2>4, <2>5, <2>9, <3>1, <3>2, <3>3, <3>4 DEF AsyncInv
  <2>10. CASE async'.out = async.out /\ async'.failed = async.failed \cup {h}
    <3>1. (Elements(async'.out) \cup Elements(async'.ch)) \ async'.late = async'.accepted \ async'.failed
      BY <2>4, <2>5, <2>8, <2>10 DEF AsyncInv
    <3>2. \A x \in Elements(async'.out), y \in Elements(async'.ch) : x < y
      BY <2>4, <2>5, <2>10 DEF AsyncInv
    <3>3. \A x \in async'.failed, y \in Elements(async'.ch) : x < y
      BY <2>4, <2>5, <2>10 DEF AsyncInv
    <3> QED
      BY <2>1, <2>2, <2>3, <2>4, <2>5, <2>10, <3>1, <3>2, <3>3 DEF AsyncInv
  <2> QED
    BY <2>6, <2>9, <2>10
<1>2. CASE WorkerSeesDone \/ WorkerLeaves \/ CloseAsync \/ DrainEnds
  <2>1. /\ async'.n = async.n /\ async'.ch = async.ch /\ async'.out = async.out
        /\ async'.late = async.late /\ async'.accepted = async.accepted /\ async'.failed = async.failed
        /\ DOMAIN async' = WriterFields /\ Given' = Given
    BY <1>2 DEF WorkerSeesDone, WorkerLeaves, CloseAsync, DrainEnds, AsyncInv, WriterFields, Given
  <2>2. async'.worker \in {"drain", "left"} => async'.closed
    BY <1>2 DEF WorkerSeesDone, WorkerLeaves, CloseAsync, DrainEnds, AsyncInv, WriterFields
  <2>3. async'.worker = "left" => \A i \in DOMAIN async.ch : async.ch[i] \in async.late
    <3>1. CASE WorkerLeaves
      <4>1. async.ch = <<>>
        BY <3>1 DEF WorkerLeaves, LeavesWith
      <4> QED
        BY <4>1
    <3>2. CASE WorkerSeesDone \/ CloseAsync \/ DrainEnds
      <4>1. async'.worker = "left" => async.worker = "left"
        BY <3>2 DEF WorkerSeesDone, CloseAsync, DrainEnds, AsyncInv, WriterFields
      <4> QED
        BY <4>1 DEF AsyncInv
    <3> QED
      BY <1>2, <3>1, <3>2
  <2>4. async'.drain = "drained" => async'.worker = "left"
    BY <1>2 DEF WorkerSeesDone, WorkerLeaves, CloseAsync, DrainEnds, AsyncInv, WriterFields
  <2> QED
    BY <2>1, <2>2, <2>3, <2>4 DEF AsyncInv
<1> QED
  BY <1>1, <1>2

(* When the worker has left, nothing but late entries is left in the       *)
(* buffer: what was accepted has been written, or failed.                  *)
LEMMA AsyncInvDrained == AsyncInv => DrainedAll
<1> SUFFICES ASSUME AsyncInv, async.drain = "drained"
             PROVE  Rising(async.out) /\ Elements(async.out) \ async.late = async.accepted \ async.failed
  BY DEF DrainedAll, Rising, Elements
<1>1. Elements(async.ch) \subseteq async.late
  BY DEF AsyncInv, Elements
<1> QED
  BY <1>1 DEF AsyncInv

(* The two parts of the history's state do not touch each other.           *)
LEMMA HistoryInitInv == HistoryInit => HistoryInv /\ AsyncInv
<1> SUFFICES ASSUME HistoryInit PROVE HistoryInv
  BY AsyncInitInv
<1>1. /\ file = <<>> /\ procs = [p \in Procs |-> IdleProc]
      /\ born = <<>> /\ today = 0 /\ disturbed = FALSE /\ cleared = {}
  BY DEF HistoryInit
<1>0. written = 0 /\ born \in Seq(Nat)
  BY <1>1 DEF written
<1>2. Log(file) /\ Complete(file, 0) /\ Few(file)
  <2>1. MaxEntries \in Nat
    BY HistoryAssumption DEF HistoryAssumption
  <2> QED
    BY <1>0, <1>1, <2>1 DEF Log, Complete, Few, Ids
<1>3. ProcTypes /\ \A p \in Procs : procs[p].at = "idle"
  BY <1>1 DEF ProcTypes, IsProc, IdleProc
<1> QED
  BY <1>0, <1>1, <1>2, <1>3 DEF HistoryInv, InTurn, OneAtWork, Resting

(* The file and the writer are independent: a step of one leaves the other. *)
LEMMA HistorySteps ==
    ASSUME HistoryInv, AsyncInv, [FileNext \/ AsyncNext]_historyVars
    PROVE  HistoryInv' /\ AsyncInv'
<1>1. CASE FileNext
  <2>1. async' = async
    BY <1>1 DEF FileNext, AppendEntry, ReadAndKeep, Truncate, Flush, ClearSince, ClearAll,
               ProcessDies, DayPasses
  <2>2. AsyncInv'
    BY <2>1 DEF AsyncInv, Given
  <2>3. CASE DayPasses
    BY <2>2, <2>3, OtherStep
  <2>4. ASSUME NEW p \in Procs, \/ AppendEntry(p) \/ ReadAndKeep(p) \/ Truncate(p) \/ Flush(p)
                                \/ ClearSince(p) \/ ClearAll(p) \/ ProcessDies(p)
        PROVE  HistoryInv'
    BY <2>4, AppendStep, KeepStep, TruncateStep, FlushStep, ClearStep, OtherStep
  <2> QED
    BY <1>1, <2>2, <2>3, <2>4 DEF FileNext
<1>2. CASE AsyncNext
  <2>1. UNCHANGED fileVars
    BY <1>2 DEF AsyncNext, WriteAsync, WorkerWrites, WorkerSeesDone, WorkerLeaves, CloseAsync, DrainEnds
  <2> QED
    BY <1>2, <2>1, OtherStep, WriteStep, WorkerStep DEF AsyncNext
<1>3. CASE UNCHANGED historyVars
  <2>1. UNCHANGED fileVars /\ async' = async
    BY <1>3 DEF historyVars, fileVars
  <2>2. AsyncInv'
    BY <2>1 DEF AsyncInv, Given
  <2> QED
    BY <2>1, <2>2, OtherStep
<1> QED
  BY <1>1, <1>2, <1>3

-----------------------------------------------------------------------------
(* The stream's events: those of the first n sentences of a text, with the *)
(* citations of the markers that are cited.                                *)
StreamEvent == [event : {"sentence", "citation"}, n : Nat, marker : Markers \cup {0}]
Citation(n, m) == [event |-> "citation", n |-> n, marker |-> m]
CitedIn(text, cited, n) == ToSet(text[n]) \cap cited
Belongs(text, cited, e) ==
    e = SentenceEvent(e.n) \/ \E m \in CitedIn(text, cited, e.n) : e = Citation(e.n, m)
Delivered(text, cited, out, n) ==
    /\ out \in Seq(StreamEvent) /\ (n > 0 => out # <<>> /\ out[Len(out)].n = n)
    /\ \A i \in DOMAIN out : out[i].n \in 1..n /\ Belongs(text, cited, out[i])
    /\ \A i \in DOMAIN out : out[i].event = "citation" => i > 1 /\ out[i - 1].n = out[i].n
    /\ \A i \in DOMAIN out : out[i].event = "sentence" /\ i > 1 => out[i - 1].n = out[i].n - 1
    /\ \A i, j \in DOMAIN out : out[i] = out[j] => i = j
    /\ \A k \in 1..n : /\ \E i \in DOMAIN out : out[i] = SentenceEvent(k)
                       /\ \A m \in CitedIn(text, cited, k) : \E i \in DOMAIN out : out[i] = Citation(k, m)
Texts == Seq(Seq(Markers))
StreamInv(q) ==
    /\ IsRun(q) /\ q.answer \in Texts
    /\ q.stage \in {"idle", "route"} => q.asked = {}
    /\ q.stage # "done" => q.end = "none"
    /\ q.stage \notin {"stream", "done"} => q.out = <<>>
    /\ \E n \in 0..Len(q.answer) :
          /\ Delivered(q.answer, DOMAIN q.cites, q.out, n)
          /\ q.stage = "stream" => q.at = n + 1
          /\ q.end = "complete" /\ q.asked # {} => n = Len(q.answer)
StreamsInv == DOMAIN run = Runs /\ \A r \in Runs : StreamInv(run[r])

(* What it says is what the property asks.                                 *)
LEMMA StreamInvTells == StreamsInv => StreamWellFormed
<1> SUFFICES ASSUME StreamsInv, NEW r \in Runs
             PROVE  LET q == run[r]  out == q.out IN
    /\ \A i \in DOMAIN out :
          /\ out[i].event = "citation" =>
                /\ out[i].marker \in ToSet(q.answer[out[i].n]) \cap DOMAIN q.cites
                /\ i > 1 /\ out[i - 1].n = out[i].n
          /\ out[i].event = "sentence" /\ i > 1 => out[i - 1].n = out[i].n - 1
    /\ IsInjective(out)
    /\ q.end = "complete" /\ q.asked # {} =>
          \A i \in DOMAIN q.answer :
             /\ Contains(out, SentenceEvent(i))
             /\ \A m \in ToSet(q.answer[i]) \cap DOMAIN q.cites :
                   Contains(out, [event |-> "citation", n |-> i, marker |-> m])
  BY DEF StreamWellFormed
<1> DEFINE q == run[r]  out == q.out
<1>1. PICK n \in 0..Len(q.answer) :
          /\ Delivered(q.answer, DOMAIN q.cites, q.out, n)
          /\ q.end = "complete" /\ q.asked # {} => n = Len(q.answer)
  BY DEF StreamsInv, StreamInv
<1>2. q.answer \in Texts
  BY DEF StreamsInv, StreamInv
<1> HIDE DEF q
<1>3. out \in Seq(StreamEvent) /\ DOMAIN out = 1..Len(out)
  BY <1>1 DEF Delivered
<1>4. DOMAIN q.answer = 1..Len(q.answer)
  BY <1>2 DEF Texts
<1>5. ASSUME NEW i \in DOMAIN out, out[i].event = "citation"
      PROVE  out[i].marker \in ToSet(q.answer[out[i].n]) \cap DOMAIN q.cites
  <2>1. Belongs(q.answer, DOMAIN q.cites, out[i])
    BY <1>1 DEF Delivered
  <2>2. SentenceEvent(out[i].n).event = "sentence"
    BY DEF SentenceEvent
  <2>3. \A m : Citation(out[i].n, m).marker = m
    BY DEF Citation
  <2>4. PICK m \in CitedIn(q.answer, DOMAIN q.cites, out[i].n) : out[i] = Citation(out[i].n, m)
    BY <1>5, <2>1, <2>2 DEF Belongs
  <2> QED
    BY <2>3, <2>4 DEF CitedIn
<1>6. IsInjective(out)
  BY <1>1 DEF Delivered, IsInjective
<1>7. ASSUME q.end = "complete", q.asked # {}, NEW k \in DOMAIN q.answer
      PROVE  /\ Contains(out, SentenceEvent(k))
             /\ \A m \in ToSet(q.answer[k]) \cap DOMAIN q.cites :
                   Contains(out, [event |-> "citation", n |-> k, marker |-> m])
  <2>1. k \in 1..n
    BY <1>1, <1>4, <1>7
  <2>2. /\ \E i \in DOMAIN out : out[i] = SentenceEvent(k)
        /\ \A m \in CitedIn(q.answer, DOMAIN q.cites, k) : \E i \in DOMAIN out : out[i] = Citation(k, m)
    BY <1>1, <2>1 DEF Delivered
  <2> HIDE DEF out
  <2> QED
    BY <1>3, <2>2 DEF Contains, CitedIn, Citation
<1>8. /\ \A i \in DOMAIN out : out[i].event = "citation" => i > 1 /\ out[i - 1].n = out[i].n
      /\ \A i \in DOMAIN out : out[i].event = "sentence" /\ i > 1 => out[i - 1].n = out[i].n - 1
  BY <1>1 DEF Delivered
<1> QED
  BY <1>5, <1>6, <1>7, <1>8 DEF q

(* The events of one sentence.                                             *)
LEMMA SentenceTold ==
    ASSUME NEW q, q.answer \in Texts, NEW n \in 1..Len(q.answer)
    PROVE  LET ev == SentenceEvents(q, n) IN
           /\ ev \in Seq(StreamEvent) /\ Len(ev) > 0 /\ ev[1] = SentenceEvent(n)
           /\ \A i \in DOMAIN ev : ev[i].n = n
           /\ \A i \in DOMAIN ev \ {1} : \E m \in CitedIn(q.answer, DOMAIN q.cites, n) : ev[i] = Citation(n, m)
           /\ \A m \in CitedIn(q.answer, DOMAIN q.cites, n) : \E i \in DOMAIN ev : ev[i] = Citation(n, m)
           /\ \A i, j \in DOMAIN ev : ev[i] = ev[j] => i = j
<1> DEFINE s == q.answer[n]
           C == DOMAIN q.cites
           d == DistinctMarkers(s)
           I == {k \in DOMAIN d : d[k] \in C}
           c == KeepAt(d, I)
           cs == CitationEvents(q, n)
           ev == SentenceEvents(q, n)
           Here == CitedIn(q.answer, C, n)
<1>1. s \in Seq(Markers) /\ n \in Nat
  BY DEF Texts
<1>a. Here = ToSet(s) \cap C
  BY DEF CitedIn
<1>b. cs = [k \in DOMAIN c |-> [event |-> "citation", n |-> n, marker |-> c[k]]]
  BY DEF CitationEvents
<1>c. ev = <<SentenceEvent(n)>> \o cs
  BY DEF SentenceEvents
<1> HIDE DEF s, Here, cs, ev
<1>2. d \in Seq(Markers) /\ ToSet(d) = ToSet(s) /\ \A j, k \in DOMAIN d : d[j] = d[k] => j = k
  <2> DEFINE J == FirstPlaces(s)
  <2>1. J \subseteq DOMAIN s /\ \A i, j \in J : s[i] = s[j] => i = j
    BY <1>1, FirstPlacesAre
  <2>0. \A i \in DOMAIN s : \E j \in J : s[j] = s[i]
    BY <1>1, FirstPlacesAre
  <2>2. d = KeepAt(s, J)
    BY DEF DistinctMarkers
  <2> HIDE DEF J, d
  <2>3. /\ d \in Seq(Markers) /\ (\A k \in DOMAIN d : \E i \in J : d[k] = s[i])
        /\ (\A i \in J : \E k \in DOMAIN d : d[k] = s[i])
        /\ \A j, k \in DOMAIN d : d[j] = d[k] => j = k
    BY <1>1, <2>1, <2>2, KeptValues
  <2>4. ToSet(d) = ToSet(s)
    BY <2>0, <2>1, <2>3 DEF ToSet
  <2> QED
    BY <2>3, <2>4
<1> HIDE DEF d
<1>3. I \subseteq DOMAIN d /\ {d[i] : i \in I} = ToSet(s) \cap C
  BY <1>2 DEF ToSet
<1>4. \A i, j \in I : d[i] = d[j] => i = j
  BY <1>2
<1> HIDE DEF I
<1>5. c \in Seq(Markers) /\ {c[k] : k \in DOMAIN c} = Here /\ \A j, k \in DOMAIN c : c[j] = c[k] => j = k
  <2>1. c = KeepAt(d, I)
    OBVIOUS
  <2> HIDE DEF c
  <2>2. /\ c \in Seq(Markers) /\ (\A k \in DOMAIN c : \E i \in I : c[k] = d[i])
        /\ (\A i \in I : \E k \in DOMAIN c : c[k] = d[i])
        /\ \A j, k \in DOMAIN c : c[j] = c[k] => j = k
    BY <1>2, <1>3, <1>4, <2>1, KeptValues
  <2>3. {c[k] : k \in DOMAIN c} = {d[i] : i \in I}
    BY <2>2
  <2> QED
    BY <1>3, <1>a, <2>2, <2>3
<1> HIDE DEF c
<1>6. DOMAIN cs = DOMAIN c /\ \A k \in DOMAIN cs : cs[k] = Citation(n, c[k])
  BY <1>b DEF Citation
<1>7. \A m \in Markers : Citation(n, m) \in StreamEvent
  BY <1>1 DEF Citation, StreamEvent
<1>8. cs \in Seq(StreamEvent) /\ Len(cs) = Len(c)
  <2>1. \A k \in 1..Len(c) : c[k] \in Markers /\ k \in DOMAIN cs
    BY <1>5, <1>6
  <2>2. Len(c) \in Nat /\ cs = [k \in 1..Len(c) |-> cs[k]] /\ \A k \in 1..Len(c) : cs[k] \in StreamEvent
    BY <1>5, <1>6, <1>7, <1>b, <2>1
  <2> HIDE DEF StreamEvent
  <2> QED
    BY <2>2
<1>9. SentenceEvent(n) \in StreamEvent /\ SentenceEvent(n).n = n /\ SentenceEvent(n).event = "sentence"
  BY <1>1 DEF SentenceEvent, StreamEvent
<1>10. /\ ev \in Seq(StreamEvent) /\ Len(ev) = Len(c) + 1 /\ ev[1] = SentenceEvent(n)
       /\ DOMAIN ev = 1..Len(c) + 1 /\ Len(c) \in Nat /\ DOMAIN c = 1..Len(c)
       /\ \A i \in DOMAIN ev \ {1} : i - 1 \in DOMAIN c /\ ev[i] = cs[i - 1]
       /\ \A k \in DOMAIN c : k + 1 \in DOMAIN ev /\ ev[k + 1] = cs[k]
  <2>1. Len(c) \in Nat /\ DOMAIN c = 1..Len(c)
    BY <1>5
  <2> HIDE DEF StreamEvent
  <2> QED
    BY <1>8, <1>9, <1>c, <2>1
<1>11. \A m : Citation(n, m).n = n /\ Citation(n, m).event = "citation" /\ Citation(n, m).marker = m
  BY DEF Citation
<1>12. \A i \in DOMAIN ev \ {1} : i - 1 \in DOMAIN c /\ c[i - 1] \in Here /\ ev[i] = Citation(n, c[i - 1])
  BY <1>5, <1>6, <1>10
<1>13. \A i \in DOMAIN ev : ev[i].n = n
  BY <1>9, <1>10, <1>11, <1>12
<1>14. \A m \in Here : \E i \in DOMAIN ev : ev[i] = Citation(n, m)
  BY <1>5, <1>6, <1>10
<1>15. ASSUME NEW i \in DOMAIN ev, NEW j \in DOMAIN ev, ev[i] = ev[j] PROVE i = j
  <2>1. i = 1 <=> j = 1
    BY <1>9, <1>10, <1>11, <1>12, <1>15
  <2>2. i # 1 /\ j # 1 => c[i - 1] = c[j - 1]
    BY <1>11, <1>12, <1>15
  <2>3. i # 1 /\ j # 1 => i - 1 = j - 1
    BY <1>5, <1>12, <2>2
  <2> QED
    BY <1>10, <2>1, <2>3
<1>16. Len(ev) > 0
  BY <1>10
<1> QED
  BY <1>10, <1>12, <1>13, <1>14, <1>15, <1>16 DEF Here, ev

(* One more sentence.                                                      *)
LEMMA OneMoreSentence ==
    ASSUME NEW q, q.answer \in Texts, NEW n \in 0..Len(q.answer) - 1,
           Delivered(q.answer, DOMAIN q.cites, q.out, n)
    PROVE  Delivered(q.answer, DOMAIN q.cites, q.out \o SentenceEvents(q, n + 1), n + 1)
<1> DEFINE text == q.answer  C == DOMAIN q.cites  out == q.out
           ev == SentenceEvents(q, n + 1)
           all == out \o ev
<1>0. n \in Nat /\ n + 1 \in 1..Len(q.answer)
  BY DEF Texts
<1>1. /\ ev \in Seq(StreamEvent) /\ Len(ev) > 0 /\ ev[1] = SentenceEvent(n + 1)
      /\ \A i \in DOMAIN ev : ev[i].n = n + 1
      /\ \A i \in DOMAIN ev \ {1} : \E m \in CitedIn(text, C, n + 1) : ev[i] = Citation(n + 1, m)
      /\ \A m \in CitedIn(text, C, n + 1) : \E i \in DOMAIN ev : ev[i] = Citation(n + 1, m)
      /\ \A i, j \in DOMAIN ev : ev[i] = ev[j] => i = j
  BY <1>0, SentenceTold
<1>2. out \in Seq(StreamEvent)
  BY DEF Delivered
<1>3. Delivered(text, C, out, n)
  OBVIOUS
<1> HIDE DEF text, C, out, ev, all
<1>4. /\ all \in Seq(StreamEvent) /\ Len(all) = Len(out) + Len(ev)
      /\ DOMAIN out \subseteq DOMAIN all
      /\ \A i \in DOMAIN out : all[i] = out[i]
      /\ \A i \in DOMAIN all \ DOMAIN out : i - Len(out) \in DOMAIN ev /\ all[i] = ev[i - Len(out)]
      /\ \A i \in DOMAIN ev : Len(out) + i \in DOMAIN all /\ all[Len(out) + i] = ev[i]
  BY <1>1, <1>2, Concatenated DEF all
<1>5. /\ DOMAIN out = 1..Len(out) /\ Len(out) \in Nat /\ DOMAIN ev = 1..Len(ev) /\ Len(ev) \in Nat
      /\ DOMAIN all = 1..Len(all) /\ Len(all) \in Nat
  BY <1>1, <1>2, <1>4
<1>6. /\ SentenceEvent(n + 1).event = "sentence" /\ SentenceEvent(n + 1).n = n + 1
      /\ \A m : Citation(n + 1, m).event = "citation"
  BY DEF SentenceEvent, Citation
<1>7. \A i \in DOMAIN out : out[i].n \in 1..n /\ out[i].n \in 1..n + 1 /\ Belongs(text, C, out[i])
  BY <1>0, <1>3 DEF Delivered
<1>8. \A i \in DOMAIN ev : Belongs(text, C, ev[i])
  BY <1>1 DEF Belongs
<1>9. all # <<>> /\ all[Len(all)].n = n + 1
  <2>1. Len(ev) \in DOMAIN ev /\ Len(all) = Len(out) + Len(ev)
    BY <1>1, <1>4, <1>5
  <2>2. all[Len(all)] = ev[Len(ev)]
    BY <1>4, <2>1
  <2> QED
    BY <1>1, <1>4, <1>5, <2>1, <2>2
<1>10. \A i \in DOMAIN all : all[i].n \in 1..n + 1 /\ Belongs(text, C, all[i])
  <2> TAKE i \in DOMAIN all
  <2>1. n + 1 \in 1..n + 1
    BY <1>0
  <2>2. CASE i \in DOMAIN out
    <3>1. all[i] = out[i]
      BY <1>4, <2>2
    <3> QED
      BY <1>7, <2>2, <3>1
  <2>3. CASE i \notin DOMAIN out
    <3>1. i - Len(out) \in DOMAIN ev /\ all[i] = ev[i - Len(out)]
      BY <1>4, <2>3
    <3> QED
      BY <1>1, <1>8, <2>1, <3>1
  <2> QED
    BY <2>2, <2>3
<1>11. ASSUME NEW i \in DOMAIN all, all[i].event = "citation" PROVE i > 1 /\ all[i - 1].n = all[i].n
  <2>1. CASE i \in DOMAIN out
    <3>1. i > 1 /\ out[i - 1].n = out[i].n
      BY <1>3, <1>4, <1>11, <2>1 DEF Delivered
    <3>2. i - 1 \in DOMAIN out
      BY <1>5, <2>1, <3>1
    <3> QED
      BY <1>4, <2>1, <3>1, <3>2
  <2>2. CASE i \notin DOMAIN out
    <3> DEFINE k == i - Len(out)
    <3>1. k \in DOMAIN ev /\ all[i] = ev[k]
      BY <1>4, <2>2
    <3>2. k # 1
      BY <1>1, <1>6, <1>11, <3>1
    <3>3. k - 1 \in DOMAIN ev /\ Len(out) + (k - 1) = i - 1 /\ i > 1
      <4>1. i \in Int /\ k \in 1..Len(ev) /\ i = Len(out) + k
        BY <1>5, <3>1
      <4> HIDE DEF k
      <4>2. k - 1 \in 1..Len(ev)
        BY <1>5, <3>2, <4>1
      <4> QED
        BY <1>5, <3>2, <4>1, <4>2
    <3>4. all[i - 1] = ev[k - 1]
      BY <1>4, <3>3
    <3> QED
      BY <1>1, <3>1, <3>3, <3>4
  <2> QED
    BY <2>1, <2>2
<1>12. ASSUME NEW i \in DOMAIN all, all[i].event = "sentence", i > 1 PROVE all[i - 1].n = all[i].n - 1
  <2>1. CASE i \in DOMAIN out
    <3>1. out[i - 1].n = out[i].n - 1
      BY <1>3, <1>4, <1>12, <2>1 DEF Delivered
    <3>2. i - 1 \in DOMAIN out
      BY <1>5, <1>12, <2>1
    <3> QED
      BY <1>4, <2>1, <3>1, <3>2
  <2>2. CASE i \notin DOMAIN out
    <3> DEFINE k == i - Len(out)
    <3>1. k \in DOMAIN ev /\ all[i] = ev[k]
      BY <1>4, <2>2
    <3>2. k = 1
      BY <1>1, <1>6, <1>12, <3>1
    <3>3. i - 1 = Len(out) /\ Len(out) > 0 /\ i - 1 \in DOMAIN out
      BY <1>5, <1>12, <3>2
    <3>4. out[Len(out)].n \in 1..n
      BY <1>7, <3>3
    <3>5. out[Len(out)].n = n
      BY <1>0, <1>3, <3>4 DEF Delivered
    <3>6. all[i - 1] = out[Len(out)] /\ all[i].n = n + 1
      BY <1>1, <1>4, <3>1, <3>3
    <3> QED
      BY <1>0, <3>5, <3>6
  <2> QED
    BY <2>1, <2>2
<1>13. ASSUME NEW i \in DOMAIN all, NEW j \in DOMAIN all, all[i] = all[j] PROVE i = j
  <2>1. i \in DOMAIN out <=> j \in DOMAIN out
    <3>1. \A k \in DOMAIN out : all[k].n # n + 1
      BY <1>0, <1>4, <1>7
    <3>2. \A k \in DOMAIN all \ DOMAIN out : all[k].n = n + 1
      BY <1>1, <1>4
    <3> QED
      BY <1>13, <3>1, <3>2
  <2>2. CASE i \in DOMAIN out
    BY <1>3, <1>4, <1>13, <2>1, <2>2 DEF Delivered
  <2>3. CASE i \notin DOMAIN out
    <3>1. i - Len(out) = j - Len(out)
      BY <1>1, <1>4, <1>13, <2>1, <2>3
    <3> QED
      BY <1>5, <3>1
  <2> QED
    BY <2>2, <2>3
<1>14. ASSUME NEW k \in 1..n + 1
       PROVE  /\ \E i \in DOMAIN all : all[i] = SentenceEvent(k)
              /\ \A m \in CitedIn(text, C, k) : \E i \in DOMAIN all : all[i] = Citation(k, m)
  <2>1. CASE k \in 1..n
    BY <1>3, <1>4, <2>1 DEF Delivered
  <2>2. CASE k = n + 1
    <3>1. 1 \in DOMAIN ev
      BY <1>1, <1>5
    <3> QED
      BY <1>1, <1>4, <2>2, <3>1
  <2> QED
    BY <1>0, <2>1, <2>2
<1>15. Delivered(text, C, all, n + 1)
  BY <1>4, <1>9, <1>10, <1>11, <1>12, <1>13, <1>14 DEF Delivered
<1> QED
  BY <1>15 DEF all, ev, out, C, text

(* A search whose stream has said nothing.                                 *)
LEMMA Silent ==
    ASSUME NEW q, IsRun(q), q.out = <<>>, q.answer \in Texts,
           q.stage \in {"idle", "route"} => q.asked = {},
           q.stage # "done" => q.end = "none",
           q.stage = "stream" => q.at = 1,
           q.end = "complete" => q.asked = {}
    PROVE  StreamInv(q)
<1>1. Delivered(q.answer, DOMAIN q.cites, <<>>, 0)
  BY DEF Delivered
<1>2. 0 \in 0..Len(q.answer)
  BY DEF Texts
<1> QED
  BY <1>1, <1>2 DEF StreamInv

(* The one search that takes a step.                                       *)
LEMMA StreamMoves ==
    ASSUME StreamsInv, NEW r \in Runs, NEW p, StreamInv(p), run' = [run EXCEPT ![r] = p]
    PROVE  StreamsInv'
<1>1. DOMAIN run' = Runs /\ \A e \in Runs : run'[e] = IF e = r THEN p ELSE run[e]
  BY DEF StreamsInv
<1>2. \A e \in Runs : StreamInv(run'[e])
  BY <1>1 DEF StreamsInv
<1> QED
  BY <1>1, <1>2 DEF StreamsInv

(* Whatever the request, the choice or the fanout's result.                *)
LEMMA BeforeSynthesis ==
    ASSUME StreamsInv, NEW r \in Runs, Arrive(r) \/ Route(r) \/ FanoutDone(r)
    PROVE  StreamsInv'
<1>0. <<>> \in Texts
  BY DEF Texts
<1>1. CASE Arrive(r)
  <2>1. PICK s \in Surfaces, prompt \in BOOLEAN, filter \in SUBSET (Adapters_ \cup {Ghost}) :
          run' = [run EXCEPT ![r] = ParseRequest([IdleRun EXCEPT
                     !.surface = s, !.prompt = prompt, !.filter = filter])]
    BY <1>1 DEF Arrive
  <2>2. PICK q : q = [IdleRun EXCEPT !.surface = s, !.prompt = prompt, !.filter = filter]
    OBVIOUS
  <2>3. IsRun(q) /\ q.out = <<>> /\ q.answer = <<>> /\ q.asked = {} /\ q.end = "none"
    BY <2>2 DEF IdleRun, IsRun, Fields
  <2>4. \A end : /\ IsRun(Ended(q, end)) /\ Ended(q, end).out = <<>> /\ Ended(q, end).answer = <<>>
                 /\ Ended(q, end).asked = {} /\ Ended(q, end).stage = "done"
    BY <2>3 DEF Ended, IsRun, Fields
  <2>5. \A end : StreamInv(Ended(q, end))
    BY <1>0, <2>4, Silent
  <2>6. StreamInv([q EXCEPT !.stage = "route"])
    <3>1. PICK p : p = [q EXCEPT !.stage = "route"]
      OBVIOUS
    <3>2. /\ IsRun(p) /\ p.out = <<>> /\ p.answer = <<>> /\ p.asked = {} /\ p.end = "none"
          /\ p.stage = "route"
      BY <2>3, <3>1 DEF IsRun, Fields
    <3> QED
      BY <1>0, <3>1, <3>2, Silent
  <2>7. StreamInv(ParseRequest(q))
    BY <2>5, <2>6 DEF ParseRequest
  <2> QED
    BY <2>1, <2>2, <2>7, StreamMoves
<1> DEFINE q == run[r]
<1>2. CASE Route(r)
  <2>1. /\ q.stage = "route" /\ IsRun(q) /\ q.out = <<>> /\ q.answer \in Texts /\ q.asked = {}
        /\ q.end = "none"
    BY <1>2 DEF Route, StreamsInv, StreamInv
  <2>2. \/ run' = [run EXCEPT ![r] = Ended(q, Errors(q.surface))]
        \/ \E left : run' = [run EXCEPT ![r] = IF left = {} THEN NobodyAsked(q)
                                               ELSE [q EXCEPT !.stage = "fanout", !.asked = left]]
    BY <1>2 DEF Route
  <2> HIDE DEF q
  <2>3. \A end : /\ IsRun(Ended(q, end)) /\ Ended(q, end).out = <<>> /\ Ended(q, end).answer = q.answer
                 /\ Ended(q, end).asked = {} /\ Ended(q, end).stage = "done"
    BY <2>1 DEF Ended, IsRun, Fields
  <2>4. \A end : StreamInv(Ended(q, end))
    BY <2>1, <2>3, Silent
  <2>5. StreamInv(NobodyAsked(q))
    BY <2>4 DEF NobodyAsked
  <2>6. ASSUME NEW left PROVE StreamInv([q EXCEPT !.stage = "fanout", !.asked = left])
    <3>1. PICK p : p = [q EXCEPT !.stage = "fanout", !.asked = left]
      OBVIOUS
    <3>2. /\ IsRun(p) /\ p.out = <<>> /\ p.answer = q.answer /\ p.end = "none" /\ p.stage = "fanout"
      BY <2>1, <3>1 DEF IsRun, Fields
    <3> QED
      BY <2>1, <3>1, <3>2, Silent
  <2> QED
    BY <2>2, <2>4, <2>5, <2>6, StreamMoves DEF q
<1>3. CASE FanoutDone(r)
  <2>1. /\ q.stage = "fanout" /\ IsRun(q) /\ q.out = <<>> /\ q.answer \in Texts /\ q.end = "none"
    BY <1>3 DEF FanoutDone, StreamsInv, StreamInv
  <2>2. PICK docs \in SUBSET Documents, errs \in SUBSET q.asked, late \in BOOLEAN :
            run' = [run EXCEPT ![r] = AfterFanout([q EXCEPT
                        !.docs = docs, !.errs = errs, !.expired = late])]
    <3>1. PICK es \in SUBSET q.asked, expired \in BOOLEAN :
             \E docs \in SUBSET {d \in Documents : SourceOf[d] \in q.asked \ es} :
                run' = [run EXCEPT ![r] = AfterFanout([q EXCEPT
                          !.docs = docs, !.errs = es,
                          !.expired = expired /\ q.surface \in {"cli", "mcp"}])]
      BY <1>3 DEF FanoutDone
    <3>2. PICK docs \in SUBSET {d \in Documents : SourceOf[d] \in q.asked \ es} :
                run' = [run EXCEPT ![r] = AfterFanout([q EXCEPT
                          !.docs = docs, !.errs = es,
                          !.expired = expired /\ q.surface \in {"cli", "mcp"}])]
      BY <3>1
    <3>3. docs \in SUBSET Documents
      OBVIOUS
    <3>4. (expired /\ q.surface \in {"cli", "mcp"}) \in BOOLEAN
      OBVIOUS
    <3> HIDE DEF q
    <3> QED
      BY <3>2, <3>3, <3>4
  <2> HIDE DEF q
  <2>3. PICK p : p = [q EXCEPT !.docs = docs, !.errs = errs, !.expired = late]
    OBVIOUS
  <2>4. IsRun(p) /\ p.out = <<>> /\ p.answer = q.answer /\ p.end = "none"
    BY <2>1, <2>3 DEF IsRun, Fields
  <2>5. \A end \in {"2", "allFailed"} : StreamInv(Ended(p, end))
    <3>1. \A end : /\ IsRun(Ended(p, end)) /\ Ended(p, end).out = <<>> /\ Ended(p, end).answer = q.answer
                   /\ Ended(p, end).stage = "done" /\ Ended(p, end).end = end
      BY <2>4 DEF Ended, IsRun, Fields
    <3> QED
      BY <2>1, <3>1, Silent
  <2>6. StreamInv([p EXCEPT !.stage = "synth"])
    <3>1. PICK s : s = [p EXCEPT !.stage = "synth"]
      OBVIOUS
    <3>2. /\ IsRun(s) /\ s.out = <<>> /\ s.answer = q.answer /\ s.end = "none" /\ s.stage = "synth"
      BY <2>4, <3>1 DEF IsRun, Fields
    <3> QED
      BY <2>1, <3>1, <3>2, Silent
  <2>7. StreamInv(AfterFanout(p))
    BY <2>5, <2>6 DEF AfterFanout
  <2> QED
    BY <2>2, <2>3, <2>7, StreamMoves DEF q
<1> QED
  BY <1>1, <1>2, <1>3

(* The synthesis answers, and is presented or begins to be streamed.       *)
LEMMA StreamBegins ==
    ASSUME StreamsInv, NEW r \in Runs, SynthDone(r) PROVE StreamsInv'
<1> DEFINE q == run[r]
<1>1. /\ q.stage = "synth" /\ IsRun(q) /\ q.out = <<>> /\ q.answer \in Texts /\ q.end = "none"
  BY DEF SynthDone, StreamsInv, StreamInv
<1>2. ASSUME NEW p, IsRun(p), p.out = <<>>, p.answer \in Texts, p.end = "none", Present(r, p)
      PROVE  StreamsInv'
  <2>1. \A end, shown : LET s == [Ended(p, end) EXCEPT !.shown = shown] IN
           /\ IsRun(s) /\ s.out = <<>> /\ s.answer = p.answer /\ s.stage = "done" /\ s.end = end
    BY <1>2 DEF Ended, IsRun, Fields
  <2>2. \A end, shown : end # "complete" => StreamInv([Ended(p, end) EXCEPT !.shown = shown])
    <3> TAKE end, shown
    <3>1. PICK s : s = [Ended(p, end) EXCEPT !.shown = shown]
      OBVIOUS
    <3>2. IsRun(s) /\ s.out = <<>> /\ s.answer = p.answer /\ s.stage = "done" /\ s.end = end
      BY <2>1, <3>1
    <3>3. end # "complete" => StreamInv(s)
      BY <1>2, <3>2, Silent
    <3> QED
      BY <3>1, <3>3
  <2>3. CASE PresentCLI(r, p)
    <3>1. PICK printed \in BOOLEAN :
            run' = [run EXCEPT ![r] = [Ended(p, IF printed THEN DetermineExitCode(p) ELSE "2")
                                       EXCEPT !.shown = IF printed THEN p.docs ELSE {}]]
      BY <2>3 DEF PresentCLI
    <3>2. (IF printed THEN DetermineExitCode(p) ELSE "2") # "complete"
      BY DEF DetermineExitCode
    <3> QED
      BY <2>2, <3>1, <3>2, StreamMoves
  <2>4. CASE PresentAPI(r, p)
    BY <2>2, <2>4, StreamMoves DEF PresentAPI
  <2>5. CASE PresentMCP(r, p)
    BY <2>2, <2>5, StreamMoves DEF PresentMCP
  <2>6. CASE run' = [run EXCEPT ![r] = [p EXCEPT !.stage = "stream", !.at = 1]]
    <3>1. PICK s : s = [p EXCEPT !.stage = "stream", !.at = 1]
      OBVIOUS
    <3>2. IsRun(s) /\ s.out = <<>> /\ s.answer = p.answer /\ s.stage = "stream" /\ s.at = 1 /\ s.end = "none"
      BY <1>2, <3>1 DEF IsRun, Fields
    <3>3. StreamInv(s)
      BY <1>2, <3>2, Silent
    <3> QED
      BY <2>6, <3>1, <3>3, StreamMoves
  <2> QED
    BY <1>2, <2>3, <2>4, <2>5, <2>6 DEF Present
<1>3. CASE Present(r, [q EXCEPT !.answer = << <<>> >>])
  <2>1. PICK p : p = [q EXCEPT !.answer = << <<>> >>]
    OBVIOUS
  <2>2. IsRun(p) /\ p.out = <<>> /\ p.answer = << <<>> >> /\ p.end = "none"
    BY <1>1, <2>1 DEF IsRun, Fields
  <2>3. << <<>> >> \in Texts
    <3>1. <<>> \in Seq(Markers)
      OBVIOUS
    <3> QED
      BY <3>1 DEF Texts
  <2> QED
    BY <1>2, <1>3, <2>1, <2>2, <2>3
<1>4. CASE Present(r, [q EXCEPT !.synthErr = TRUE])
  <2>1. PICK p : p = [q EXCEPT !.synthErr = TRUE]
    OBVIOUS
  <2>2. IsRun(p) /\ p.out = <<>> /\ p.answer = q.answer /\ p.end = "none"
    BY <1>1, <2>1 DEF IsRun, Fields
  <2> QED
    BY <1>1, <1>2, <1>4, <2>1, <2>2
<1>5. ASSUME NEW text \in Answers, NEW cites, Present(r, [q EXCEPT !.answer = text, !.cites = cites])
      PROVE  StreamsInv'
  <2>1. PICK p : p = [q EXCEPT !.answer = text, !.cites = cites]
    OBVIOUS
  <2>2. IsRun(p) /\ p.out = <<>> /\ p.answer = text /\ p.end = "none"
    BY <1>1, <2>1 DEF IsRun, Fields
  <2>3. text \in Texts
    BY PipeAssumption DEF PipeAssumption, Texts
  <2> QED
    BY <1>2, <1>5, <2>1, <2>2, <2>3
<1> QED
  BY <1>3, <1>4, <1>5 DEF SynthDone

(* A sentence goes out with its citations, or the stream ends.             *)
LEMMA StreamGoesOn ==
    ASSUME StreamsInv, NEW r \in Runs,
           StreamSentence(r) \/ StreamAbandoned(r) \/ StreamComplete(r)
    PROVE  StreamsInv'
<1> DEFINE q == run[r]
<1>1. /\ q.stage = "stream" /\ IsRun(q) /\ q.answer \in Texts /\ q.end = "none"
      /\ \E n \in 0..Len(q.answer) : Delivered(q.answer, DOMAIN q.cites, q.out, n) /\ q.at = n + 1
  BY DEF StreamSentence, StreamAbandoned, StreamComplete, StreamsInv, StreamInv
<1>2. PICK n \in 0..Len(q.answer) : Delivered(q.answer, DOMAIN q.cites, q.out, n) /\ q.at = n + 1
  BY <1>1
<1>3. Len(q.answer) \in Nat
  BY <1>1 DEF Texts
<1>4. CASE StreamSentence(r)
  <2>1. /\ run' = [run EXCEPT ![r] = [q EXCEPT !.out = @ \o SentenceEvents(q, q.at), !.at = @ + 1]]
        /\ q.at <= Len(q.answer)
    BY <1>4 DEF StreamSentence
  <2> HIDE DEF q
  <2>2. PICK p : p = [q EXCEPT !.out = @ \o SentenceEvents(q, q.at), !.at = @ + 1]
    OBVIOUS
  <2>3. /\ IsRun(p) /\ p.out = q.out \o SentenceEvents(q, n + 1) /\ p.at = (n + 1) + 1
        /\ p.answer = q.answer /\ p.cites = q.cites /\ p.stage = "stream" /\ p.end = "none"
    BY <1>1, <1>2, <2>2 DEF IsRun, Fields
  <2>4. n \in 0..Len(q.answer) - 1 /\ n + 1 \in 0..Len(q.answer)
    BY <1>2, <1>3, <2>1
  <2>5. Delivered(q.answer, DOMAIN q.cites, q.out \o SentenceEvents(q, n + 1), n + 1)
    BY <1>1, <1>2, <2>4, OneMoreSentence
  <2>6. StreamInv(p)
    BY <1>1, <2>3, <2>4, <2>5 DEF StreamInv
  <2> QED
    BY <2>1, <2>2, <2>6, StreamMoves DEF q
<1>5. CASE StreamAbandoned(r) \/ StreamComplete(r)
  <2>1. PICK end \in {"gone", "complete"} :
           run' = [run EXCEPT ![r] = Ended(q, end)] /\ (end = "complete" => q.at > Len(q.answer))
    BY <1>5 DEF StreamAbandoned, StreamComplete
  <2> HIDE DEF q
  <2>2. PICK p : p = Ended(q, end)
    OBVIOUS
  <2>3. /\ IsRun(p) /\ p.out = q.out /\ p.answer = q.answer /\ p.cites = q.cites
        /\ p.stage = "done" /\ p.end = end
    BY <1>1, <2>2 DEF IsRun, Fields, Ended
  <2>4. end = "complete" => n = Len(q.answer)
    BY <1>2, <1>3, <2>1
  <2>5. StreamInv(p)
    BY <1>1, <1>2, <2>3, <2>4 DEF StreamInv
  <2> QED
    BY <2>1, <2>2, <2>5, StreamMoves DEF q
<1> QED
  BY <1>4, <1>5

(* PipeInit and every step of a search.                                    *)
LEMMA StreamInitInv == PipeInit => StreamsInv
<1>1. StreamInv(IdleRun)
  <2>1. /\ IsRun(IdleRun) /\ IdleRun.out = <<>> /\ IdleRun.answer = <<>> /\ IdleRun.stage = "idle"
        /\ IdleRun.asked = {} /\ IdleRun.end = "none"
    BY DEF IdleRun, IsRun, Fields
  <2>2. <<>> \in Texts
    BY DEF Texts
  <2> QED
    BY <2>1, <2>2, Silent
<1> QED
  BY <1>1 DEF PipeInit, StreamsInv

(* Every step of a search keeps it, for the streams a handler writes.      *)
LEMMA StreamsStep == StreamsInv /\ [PipeNext]_pipeVars => StreamsInv'
<1> SUFFICES ASSUME StreamsInv, [PipeNext]_pipeVars PROVE StreamsInv'
  OBVIOUS
<1>1. CASE UNCHANGED pipeVars
  BY <1>1 DEF pipeVars, StreamsInv
<1>2. CASE PipeNext
  <2>1. PICK r \in Runs : \/ Arrive(r) \/ Route(r) \/ FanoutDone(r) \/ SynthDone(r)
                          \/ StreamSentence(r) \/ StreamAbandoned(r) \/ StreamComplete(r)
    BY <1>2 DEF PipeNext
  <2> QED
    BY <2>1, BeforeSynthesis, StreamBegins, StreamGoesOn
<1> QED
  BY <1>1, <1>2

-----------------------------------------------------------------------------
(* A step of the whole is a step or a stutter of every part. The transport *)
(* and the tool do not touch each other's state.                           *)
LEMMA SurfaceSteps ==
    [ServiceNext]_serviceVars => [PipeNext]_pipeVars /\ [SessionNext \/ DeepNext]_mcpVars
<1> SUFFICES ASSUME [ServiceNext]_serviceVars
             PROVE  [PipeNext]_pipeVars /\ [SessionNext \/ DeepNext]_mcpVars
  OBVIOUS
<1>1. CASE UNCHANGED serviceVars
  BY <1>1 DEF serviceVars
<1>2. CASE ServiceNext
  <2>1. PipeNext \/ UNCHANGED pipeVars
    BY <1>2 DEF ServiceNext
  <2>2. SessionNext \/ DeepNext \/ UNCHANGED mcpVars
    BY <1>2 DEF ServiceNext
  <2> QED
    BY <2>1, <2>2
<1> QED
  BY <1>1, <1>2

(* Each leaves the other's invariant as it was.                            *)
LEMMA McpSteps ==
    ASSUME [SessionNext \/ DeepNext]_mcpVars
    PROVE  /\ SessionInv => SessionInv' /\ Kept
           /\ DeepInv => DeepInv'
<1>1. CASE SessionNext
  <2>1. UNCHANGED deepVars
    BY <1>1 DEF SessionNext, HandleHTTP, LookUpSession, NumberSession, EnterSession,
               ProcessRequest, HandleGet, HandleDelete, ClientLeaves
  <2> QED
    BY <1>1, <2>1, SessionStep DEF deepVars, DeepInv, Charged, PerhapsCharged
<1>2. CASE DeepNext
  <2>1. UNCHANGED httpVars
    BY <1>2 DEF DeepNext, CallDeep, CapChecked, PipelineReturns, TransportEnds, GracePeriodEnds
  <2>2. SessionInv => SessionInv' /\ Kept
    BY <2>1 DEF httpVars, SessionInv, Kept
  <2> QED
    BY <1>2, <2>2, DeepStep
<1>3. CASE UNCHANGED mcpVars
  BY <1>3, SessionStep, DeepStep
<1> QED
  BY <1>1, <1>2, <1>3

(* A number is one session's for good: nobody is handed the session of     *)
(* another, and none comes back once deleted (the MCP transport).          *)
THEOREM SessionsKept == ServiceSpec => SessionsDistinct
<1>1. ServiceInit => SessionInv
  BY SessionInitInv DEF ServiceInit
<1>2. SessionInv /\ [ServiceNext]_serviceVars => SessionInv'
  BY SurfaceSteps, McpSteps
<1>3. SessionInv /\ [ServiceNext]_serviceVars => Kept
  BY SurfaceSteps, McpSteps
<1>4. Kept => [ /\ \A id \in DOMAIN sessions \cap DOMAIN sessions' : sessions'[id] = sessions[id]
                /\ DOMAIN sessions' \cap deleted = {} ]_mcpVars
  BY DEF Kept
<1> QED
  BY <1>1, <1>2, <1>3, <1>4, PTL DEF ServiceSpec, SessionsDistinct

(* What a search's caller was told is true, on each of the four surfaces,  *)
(* and the day's cap was charged once for each deep_research pipeline that *)
(* ran, and for others only where the cap store failed; each call it did   *)
(* not fail has one audit line (query.go, api_handlers.go,                 *)
(* deep_research.go).                                                      *)
THEOREM AnsweredHonestly == ServiceSpec => []SurfacesHonest
<1>1. ServiceInit => SearchInv /\ DeepInv
  BY SearchInitInv, DeepInitInv DEF ServiceInit
<1>2. SearchInv /\ [ServiceNext]_serviceVars => SearchInv'
  BY SurfaceSteps, SearchStep
<1>3. DeepInv /\ [ServiceNext]_serviceVars => DeepInv'
  BY SurfaceSteps, McpSteps
<1>4. SearchInv /\ DeepInv => SurfacesHonest
  BY SearchInvHonest, DeepInvAccounted DEF SurfacesHonest
<1> QED
  BY <1>1, <1>2, <1>3, <1>4, PTL DEF ServiceSpec

(* A stream's client can resolve what it reads: a sentence's citations     *)
(* come after it and before the next one, once each and only of its own    *)
(* markers, and a complete stream has every sentence and every citation    *)
(* the synthesis resolved (handleStreamQuery).                             *)
THEOREM StreamsResolve == ServiceSpec => []StreamWellFormed
<1>1. ServiceInit => StreamsInv
  BY StreamInitInv DEF ServiceInit
<1>2. StreamsInv /\ [ServiceNext]_serviceVars => StreamsInv'
  <2>1. [ServiceNext]_serviceVars => [PipeNext]_pipeVars
    BY SurfaceSteps
  <2> QED
    BY <2>1, StreamsStep
<1>3. StreamsInv => StreamWellFormed
  BY StreamInvTells
<1> QED
  BY <1>1, <1>2, <1>3, PTL DEF ServiceSpec

(* Every step keeps what is known of the trail.                            *)
LEMMA TrailStep == AuditInv /\ [ServiceNext]_serviceVars => AuditInv'
<1> SUFFICES ASSUME AuditInv, [ServiceNext]_serviceVars PROVE AuditInv'
  OBVIOUS
<1>1. CASE UNCHANGED auditVars
  <2>1. UNCHANGED <<rows, reconcileVars, retentionVars, chain, tampered>>
    BY <1>1 DEF auditVars, chainVars
  <2>2. ReconcileInv'
    BY <2>1, OthersReconcile DEF AuditInv, ReconcileInv, ReconcileTypes, OnlyBystanders
  <2>3. RetentionInv'
    BY <2>1, OthersRetain DEF AuditInv
  <2>4. ChainInv'
    BY <2>1 DEF AuditInv, ChainInv, BadLinks
  <2> QED
    BY <2>2, <2>3, <2>4 DEF AuditInv
<1>2. ReconcileNext \/ RetentionNext \/ ReplayNext \/ UNCHANGED auditVars
  BY DEF ServiceNext, serviceVars
<1> QED
  BY <1>1, <1>2, ReconcileStep, RetainStep, ReplayStep

(* The audit trail, whatever the jobs' and the callers' order: a call that *)
(* LiteLLM logged has at most one row as long as polls do not overlap, and *)
(* is not missed as long as none is late or fails; a dropped partition was *)
(* past retention, and archived where that is required, and one the trail  *)
(* says was dropped is gone; the verification finds what was changed       *)
(* (litellm_reconcile.go, cleanup.go, chain.go).                           *)
THEOREM TrailKept == ServiceSpec => []TrailSound
<1>1. ServiceInit => AuditInv
  BY ReconcileInitInv, RetentionInitInv, ChainInitInv DEF ServiceInit, AuditInv
<1>2. AuditInv /\ [ServiceNext]_serviceVars => AuditInv'
  BY TrailStep
<1>3. AuditInv => TrailSound
  BY AuditInvSound
<1> QED
  BY <1>1, <1>2, <1>3, PTL DEF ServiceSpec

(* The history loses what its rules say and nothing else, as long as the   *)
(* commands do not overlap and run to their end; and an AsyncWriter whose  *)
(* Close did not run out of time has given its backend what it accepted,   *)
(* which holds in order all it did not fail to write (jsonl.go, async.go). *)
THEOREM HistoryHeld == ServiceSpec => []HistoryKept
<1>1. ServiceInit => HistoryInv /\ AsyncInv
  BY HistoryInitInv DEF ServiceInit
<1>2. HistoryInv /\ AsyncInv /\ [ServiceNext]_serviceVars => HistoryInv' /\ AsyncInv'
  <2> SUFFICES ASSUME [ServiceNext]_serviceVars PROVE [FileNext \/ AsyncNext]_historyVars
    BY HistorySteps
  <2> QED
    BY DEF ServiceNext, serviceVars
<1>3. HistoryInv /\ AsyncInv => HistoryKept
  BY HistoryInvKept, AsyncInvDrained DEF HistoryKept
<1> QED
  BY <1>1, <1>2, <1>3, PTL DEF ServiceSpec

-----------------------------------------------------------------------------
(* Types of the searches, the MCP server, the history and the trail.       *)

(* What a search may be at any stage, besides what SearchInv says of it.   *)
Ends == {"none", "0", "1", "2", "3", "200", "400", "ok", "noAdapters",
         "allFailed", "internal", "complete", "error", "gone"}
TypedRun(q) ==
    /\ IsRun(q) /\ q.surface \in Surfaces /\ q.stage \in Underway \cup {"done"}
    /\ q.asked \subseteq Adapters_ /\ q.docs \subseteq Documents /\ q.end \in Ends
PipeTyped ==
    /\ DOMAIN run = Runs /\ \A r \in Runs : TypedRun(run[r])
    /\ docCache \subseteq Documents

(* A search that ends keeps whom it asked and what it found.               *)
LEMMA EndedTyped ==
    ASSUME NEW q, TypedRun(q), NEW end \in Ends, NEW docs
    PROVE  TypedRun(Ended(q, end)) /\ TypedRun([Ended(q, end) EXCEPT !.shown = docs])
<1> DEFINE e == Ended(q, end)
<1>0. DOMAIN q = Fields
  BY DEF TypedRun, IsRun
<1>1. /\ DOMAIN e = Fields /\ e.surface = q.surface /\ e.stage = "done" /\ e.asked = q.asked
      /\ e.docs = q.docs /\ e.end = end
  BY <1>0 DEF Ended, Fields
<1> HIDE DEF e
<1> DEFINE s == [e EXCEPT !.shown = docs]
<1>2. /\ DOMAIN s = Fields /\ s.surface = q.surface /\ s.stage = "done" /\ s.asked = q.asked
      /\ s.docs = q.docs /\ s.end = end
  BY <1>1 DEF Fields
<1> HIDE DEF s
<1>3. TypedRun(e) /\ TypedRun(s)
  BY <1>1, <1>2 DEF TypedRun, IsRun
<1> QED
  BY <1>3 DEF e, s

(* The one search that takes a step.                                       *)
LEMMA OneTyped ==
    ASSUME PipeTyped, NEW r \in Runs, NEW p, TypedRun(p), run' = [run EXCEPT ![r] = p],
           docCache' = docCache \/ \E q : TypedRun(q) /\ docCache' = docCache \cup q.docs
    PROVE  PipeTyped'
<1>1. DOMAIN run' = Runs /\ run'[r] = p /\ \A e \in Runs : e # r => run'[e] = run[e]
  BY DEF PipeTyped
<1>2. docCache' \subseteq Documents
  BY DEF PipeTyped, TypedRun
<1>3. ASSUME NEW e \in Runs PROVE TypedRun(run'[e])
  BY <1>1 DEF PipeTyped
<1> QED
  BY <1>1, <1>2, <1>3 DEF PipeTyped

(* What each surface presents ends the search or starts the stream.        *)
LEMMA PresentTyped ==
    ASSUME PipeTyped, NEW r \in Runs, NEW q, TypedRun(q), Present(r, q)
    PROVE  PipeTyped'
<1>1. CASE q.surface = "cli"
  <2> DEFINE code == DetermineExitCode(q)
  <2>1. PresentCLI(r, q)
    BY <1>1 DEF Present
  <2>2. code \in Ends /\ "2" \in Ends
    BY DEF DetermineExitCode, Ends
  <2>3. docCache' = docCache /\ \E printed \in BOOLEAN :
          run' = [run EXCEPT ![r] = [Ended(q, IF printed THEN code ELSE "2")
                                       EXCEPT !.shown = IF printed THEN q.docs ELSE {}]]
    BY <2>1 DEF PresentCLI
  <2> HIDE DEF code
  <2>4. PICK end \in Ends, docs \in {q.docs, {}} : run' = [run EXCEPT ![r] = [Ended(q, end) EXCEPT !.shown = docs]]
    BY <2>2, <2>3
  <2> QED
    BY <2>3, <2>4, EndedTyped, OneTyped
<1>2. CASE q.surface = "api"
  <2>1. docCache' = docCache /\ "200" \in Ends
        /\ \E docs : run' = [run EXCEPT ![r] = [Ended(q, "200") EXCEPT !.shown = docs]]
    BY <1>2 DEF Present, PresentAPI, Ends
  <2> QED
    BY <2>1, EndedTyped, OneTyped
<1>3. CASE q.surface = "mcp"
  <2>1. docCache' = docCache \cup q.docs /\ "ok" \in Ends
        /\ run' = [run EXCEPT ![r] = [Ended(q, "ok") EXCEPT !.shown = q.docs]]
    BY <1>3 DEF Present, PresentMCP, Ends
  <2> QED
    BY <2>1, EndedTyped, OneTyped
<1>4. CASE q.surface = "stream"
  <2> DEFINE p == [q EXCEPT !.stage = "stream", !.at = 1]
  <2>1. run' = [run EXCEPT ![r] = p] /\ docCache' = docCache
    BY <1>4 DEF Present
  <2>2. /\ DOMAIN p = Fields /\ p.surface = q.surface /\ p.stage = "stream" /\ p.asked = q.asked
        /\ p.docs = q.docs /\ p.end = q.end
    BY DEF TypedRun, IsRun, Fields
  <2> HIDE DEF p
  <2>3. TypedRun(p)
    BY <2>2 DEF TypedRun, IsRun, Underway
  <2> QED
    BY <2>1, <2>3, OneTyped
<1> QED
  BY <1>1, <1>2, <1>3, <1>4 DEF TypedRun, Surfaces

(* Every step of a search keeps it: only registered adapters are asked,    *)
(* only their documents found.                                             *)
LEMMA PipeTypedStep == PipeTyped /\ [PipeNext]_pipeVars => PipeTyped'
<1> SUFFICES ASSUME PipeTyped, [PipeNext]_pipeVars PROVE PipeTyped'
  OBVIOUS
<1>0. DOMAIN run = Runs /\ \A r \in Runs : TypedRun(run[r])
  BY DEF PipeTyped
<1>1. ASSUME NEW r \in Runs, Arrive(r) PROVE PipeTyped'
  <2>1. PICK s \in Surfaces, prompt \in BOOLEAN, filter \in SUBSET (Adapters_ \cup {Ghost}) :
            run' = [run EXCEPT ![r] = ParseRequest([IdleRun EXCEPT
                       !.surface = s, !.prompt = prompt, !.filter = filter])]
    BY <1>1 DEF Arrive
  <2> DEFINE q == [IdleRun EXCEPT !.surface = s, !.prompt = prompt, !.filter = filter]
             g == [q EXCEPT !.stage = "route"]
  <2>2. /\ DOMAIN q = Fields /\ q.surface = s /\ q.stage = "idle" /\ q.asked = {}
        /\ q.docs = {} /\ q.end = "none"
    BY DEF IdleRun, Fields
  <2> HIDE DEF q
  <2>3. TypedRun(q)
    BY <2>2 DEF TypedRun, IsRun, Underway, Ends
  <2>4. /\ DOMAIN g = Fields /\ g.surface = s /\ g.stage = "route" /\ g.asked = {}
        /\ g.docs = {} /\ g.end = "none"
    BY <2>2 DEF Fields
  <2>5. {"1", "400", "error"} \subseteq Ends
    BY DEF Ends
  <2>6. ParseRequest(q) \in {Ended(q, "1"), Ended(q, "400"), Ended(q, "error"), g}
    BY DEF ParseRequest
  <2> HIDE DEF g
  <2>7. TypedRun(g)
    BY <2>4 DEF TypedRun, IsRun, Underway, Ends
  <2>8. TypedRun(ParseRequest(q))
    BY <2>3, <2>5, <2>6, <2>7, EndedTyped
  <2> QED
    BY <1>1, <2>1, <2>8, OneTyped DEF q, Arrive
<1>2. ASSUME NEW r \in Runs, Route(r) PROVE PipeTyped'
  <2> DEFINE q == run[r]
  <2>1. docCache' = docCache /\ TypedRun(q)
    BY <1>0, <1>2 DEF Route
  <2>2. {"1", "2", "200", "internal", "error", "noAdapters", "complete"} \subseteq Ends
    BY DEF Ends
  <2>3. CASE run' = [run EXCEPT ![r] = Ended(q, Errors(q.surface))]
    <3>1. Errors(q.surface) \in Ends
      BY DEF Errors, Ends
    <3> QED
      BY <2>1, <2>3, <3>1, EndedTyped, OneTyped
  <2>4. ASSUME NEW chosen \in SUBSET Adapters_,
               run' = [run EXCEPT ![r] =
                         IF IntersectSources(chosen, q.filter) = {} THEN NobodyAsked(q)
                         ELSE [q EXCEPT !.stage = "fanout", !.asked = IntersectSources(chosen, q.filter)]]
        PROVE  PipeTyped'
    <3> DEFINE left == IntersectSources(chosen, q.filter)
               p == [q EXCEPT !.stage = "fanout", !.asked = left]
    <3>1. left \subseteq Adapters_
      BY DEF IntersectSources
    <3> HIDE DEF left, q
    <3>2. /\ DOMAIN p = Fields /\ p.surface = q.surface /\ p.stage = "fanout" /\ p.asked = left
          /\ p.docs = q.docs /\ p.end = q.end
      BY <2>1 DEF TypedRun, IsRun, Fields
    <3>3. NobodyAsked(q) \in {Ended(q, "2"), Ended(q, "200"), Ended(q, "noAdapters"), Ended(q, "complete")}
      BY DEF NobodyAsked
    <3>4. run' = [run EXCEPT ![r] = NobodyAsked(q)] \/ run' = [run EXCEPT ![r] = p]
      BY <2>4 DEF left, q
    <3> HIDE DEF p
    <3>5. TypedRun(p)
      BY <2>1, <3>1, <3>2 DEF TypedRun, IsRun, Underway
    <3>6. TypedRun(NobodyAsked(q))
      BY <2>1, <2>2, <3>3, EndedTyped
    <3> QED
      BY <2>1, <3>4, <3>5, <3>6, OneTyped
  <2> QED
    BY <1>2, <2>3, <2>4 DEF Route
<1>3. ASSUME NEW r \in Runs, FanoutDone(r) PROVE PipeTyped'
  <2> DEFINE q == run[r]
  <2>1. docCache' = docCache /\ TypedRun(q)
    BY <1>0, <1>3 DEF FanoutDone
  <2>2. \E errs, docs, expired : /\ docs \subseteq Documents
             /\ run' = [run EXCEPT ![r] = AfterFanout([q EXCEPT !.docs = docs, !.errs = errs, !.expired = expired])]
    BY <1>3 DEF FanoutDone
  <2>3. PICK errs, docs, expired : /\ docs \subseteq Documents
             /\ run' = [run EXCEPT ![r] = AfterFanout([q EXCEPT !.docs = docs, !.errs = errs, !.expired = expired])]
    BY <2>2
  <2> DEFINE f == [q EXCEPT !.docs = docs, !.errs = errs, !.expired = expired]
             g == [f EXCEPT !.stage = "synth"]
  <2> HIDE DEF q
  <2>4. /\ DOMAIN f = Fields /\ f.surface = q.surface /\ f.stage = q.stage /\ f.asked = q.asked
        /\ f.docs = docs /\ f.end = q.end
    BY <2>1 DEF TypedRun, IsRun, Fields
  <2> HIDE DEF f
  <2>5. /\ DOMAIN g = Fields /\ g.surface = q.surface /\ g.stage = "synth" /\ g.asked = q.asked
        /\ g.docs = docs /\ g.end = q.end
    BY <2>4 DEF Fields
  <2>6. AfterFanout(f) \in {Ended(f, "2"), Ended(f, "allFailed"), g} /\ {"2", "allFailed"} \subseteq Ends
    BY DEF AfterFanout, Ends
  <2> HIDE DEF g
  <2>7. TypedRun(f) /\ TypedRun(g)
    BY <2>1, <2>3, <2>4, <2>5 DEF TypedRun, IsRun, Underway
  <2>8. TypedRun(AfterFanout(f))
    BY <2>6, <2>7, EndedTyped
  <2> QED
    BY <2>1, <2>3, <2>8, OneTyped DEF f
<1>4. ASSUME NEW r \in Runs, SynthDone(r) PROVE PipeTyped'
  <2> DEFINE q == run[r]
  <2>1. TypedRun(q)
    BY <1>0
  <2>2. \E p : /\ Present(r, p)
               /\ \/ p = [q EXCEPT !.answer = << <<>> >>] \/ p = [q EXCEPT !.synthErr = TRUE]
                  \/ \E text, cites : p = [q EXCEPT !.answer = text, !.cites = cites]
    BY <1>4 DEF SynthDone
  <2>3. PICK p : /\ Present(r, p)
                 /\ \/ p = [q EXCEPT !.answer = << <<>> >>] \/ p = [q EXCEPT !.synthErr = TRUE]
                    \/ \E text, cites : p = [q EXCEPT !.answer = text, !.cites = cites]
    BY <2>2
  <2> HIDE DEF q
  <2>4. /\ DOMAIN p = Fields /\ p.surface = q.surface /\ p.stage = q.stage /\ p.asked = q.asked
        /\ p.docs = q.docs /\ p.end = q.end
    BY <2>1, <2>3 DEF TypedRun, IsRun, Fields
  <2>5. TypedRun(p)
    BY <2>1, <2>4 DEF TypedRun, IsRun
  <2> QED
    BY <2>3, <2>5, PresentTyped
<1>5. ASSUME NEW r \in Runs, StreamSentence(r) PROVE PipeTyped'
  <2> DEFINE q == run[r]
             p == [q EXCEPT !.out = @ \o SentenceEvents(q, q.at), !.at = @ + 1]
  <2>1. TypedRun(q) /\ docCache' = docCache /\ run' = [run EXCEPT ![r] = p]
    BY <1>0, <1>5 DEF StreamSentence
  <2> HIDE DEF q
  <2>2. /\ DOMAIN p = Fields /\ p.surface = q.surface /\ p.stage = q.stage /\ p.asked = q.asked
        /\ p.docs = q.docs /\ p.end = q.end
    BY <2>1 DEF TypedRun, IsRun, Fields
  <2> HIDE DEF p
  <2>3. TypedRun(p)
    BY <2>1, <2>2 DEF TypedRun, IsRun
  <2> QED
    BY <2>1, <2>3, OneTyped
<1>6. ASSUME NEW r \in Runs, StreamAbandoned(r) \/ StreamComplete(r) PROVE PipeTyped'
  <2>1. /\ docCache' = docCache /\ "gone" \in Ends /\ "complete" \in Ends
        /\ \E end \in {"gone", "complete"} : run' = [run EXCEPT ![r] = Ended(run[r], end)]
    BY <1>6 DEF StreamAbandoned, StreamComplete, Ends
  <2> QED
    BY <1>0, <2>1, EndedTyped, OneTyped
<1>7. CASE UNCHANGED pipeVars
  BY <1>7 DEF PipeTyped, pipeVars
<1> QED
  BY <1>1, <1>2, <1>3, <1>4, <1>5, <1>6, <1>7 DEF PipeNext

(* No search has begun at first.                                           *)
LEMMA PipeInitTyped == PipeInit => PipeTyped
<1> SUFFICES ASSUME PipeInit PROVE PipeTyped
  OBVIOUS
<1>1. TypedRun(IdleRun)
  BY DEF TypedRun, IdleRun, IsRun, Fields, Underway, Surfaces, Ends
<1>2. run = [r \in Runs |-> IdleRun] /\ docCache = {}
  BY DEF PipeInit
<1> QED
  BY <1>1, <1>2 DEF PipeTyped
(* This is what PipeTypeOK says.                                           *)
LEMMA PipeTypedOK == PipeTyped => PipeTypeOK
BY DEF PipeTyped, TypedRun, PipeTypeOK, Underway, Ends

-----------------------------------------------------------------------------
(* The MCP server's counters stay within their bounds.                     *)
McpTyped == SessionInv /\ DeepInv /\ sessionID <= MaxSessions /\ spent \in 0..CallCap
(* Nothing was counted at first ...                                        *)
LEMMA McpInitTyped == McpInit => McpTyped
<1> SUFFICES ASSUME McpInit PROVE McpTyped
  OBVIOUS
<1>1. sessionID = 0 /\ spent = 0
  BY DEF McpInit
<1> QED
  BY <1>1, McpAssumption, SessionInitInv, DeepInitInv DEF McpTyped
(* ... a number is only given, and a call only let through, below them ... *)
LEMMA McpTypedStep == McpTyped /\ [SessionNext \/ DeepNext]_mcpVars => McpTyped'
<1> SUFFICES ASSUME McpTyped, [SessionNext \/ DeepNext]_mcpVars PROVE McpTyped'
  OBVIOUS
<1>0. MaxSessions \in Nat /\ CallCap \in Nat /\ sessionID \in Nat /\ sessionID <= MaxSessions /\ spent \in 0..CallCap
  BY McpAssumption DEF McpTyped, SessionInv
<1>1. sessionID' = sessionID \/ (sessionID < MaxSessions /\ sessionID' = sessionID + 1)
  BY DEF SessionNext, HandleHTTP, LookUpSession, NumberSession, EnterSession, ProcessRequest, HandleGet,
         HandleDelete, ClientLeaves, DeepNext, CallDeep, CapChecked, PipelineReturns, TransportEnds,
         GracePeriodEnds, mcpVars, httpVars
<1>2. spent' = spent \/ (spent < CallCap /\ spent' = spent + 1)
  BY DEF SessionNext, HandleHTTP, LookUpSession, NumberSession, EnterSession, ProcessRequest, HandleGet,
         HandleDelete, ClientLeaves, DeepNext, CallDeep, CapChecked, PipelineReturns, TransportEnds,
         GracePeriodEnds, mcpVars, deepVars
<1>3. sessionID' <= MaxSessions /\ spent' \in 0..CallCap
  BY ONLY <1>0, <1>1, <1>2
<1> QED
  BY <1>3, McpSteps DEF McpTyped
(* ... so the types hold.                                                  *)
LEMMA McpTypedOK == McpTyped => McpTypeOK
<1> SUFFICES ASSUME McpTyped PROVE McpTypeOK
  OBVIOUS
<1>1. /\ sessionID \in Nat /\ MaxSessions \in Nat /\ sessionID <= MaxSessions
      /\ DOMAIN sessions \subseteq 1..sessionID
  BY McpAssumption DEF McpTyped, SessionInv
<1>2. DOMAIN sessions \subseteq 1..MaxSessions /\ sessionID \in 0..MaxSessions
  BY ONLY <1>1
<1> QED
  BY <1>2 DEF McpTyped, DeepInv, CallInv, McpTypeOK

(* The trail's invariant says what AuditTypeOK says.                       *)
LEMMA AuditTypedOK == AuditInv => AuditTypeOK
<1> SUFFICES ASSUME AuditInv PROVE AuditTypeOK
  OBVIOUS
<1>1. rows \in Seq(TrailRows) /\ ledger \subseteq LLMCalls /\ poller \in [Pollers -> Polling]
  BY DEF AuditInv, ReconcileInv, ReconcileTypes
<1>2. \A i \in DOMAIN rows : rows[i] \in TrailRows
  BY <1>1
<1>3. \A i \in DOMAIN rows : ValidDecision(rows[i].decision)
  BY <1>2 DEF TrailRows, ValidDecision
<1>4. \A p \in Pollers : poller[p].at \in {"idle", "ledger", "events", "emit"}
  BY <1>1 DEF Polling
<1>5. RetentionTypes
  BY DEF AuditInv, RetentionInv
<1>6. \A m \in 1..Months : months[m] \in {"live", "archived", "dropped", "lost"}
  BY <1>5 DEF RetentionTypes
<1> QED
  BY <1>1, <1>3, <1>4, <1>6 DEF AuditTypeOK

(* What a line of the file may be once n entries were written.             *)
Lines(n) == [id : 0..n, long : BOOLEAN]
KnownLines == file \in Seq(Lines(written)) /\ \A p \in Procs : procs[p].kept \in Seq(Lines(written))

(* A file may be empty.                                                    *)
LEMMA NoLines == \A n : <<>> \in Seq(Lines(n))
<1> SUFFICES ASSUME NEW V PROVE <<>> \in Seq(V)
  OBVIOUS
<1> QED
  OBVIOUS

(* A line may be there later too.                                          *)
LEMMA LinesStay ==
    ASSUME NEW n \in Nat, NEW s \in Seq(Lines(n)) PROVE s \in Seq(Lines(n + 1))
<1>1. Lines(n) \subseteq Lines(n + 1)
  BY DEF Lines
<1> HIDE DEF Lines
<1> QED
  BY <1>1

(* What is read, and what an operation keeps of it, are lines of the file. *)
LEMMA KeepsLines ==
    ASSUME NEW n \in Nat, file \in Seq(Lines(n)), NEW I
    PROVE  /\ ReadAll \in Seq(Lines(n)) /\ Evict(ReadAll) \in Seq(Lines(n))
           /\ I \subseteq DOMAIN ReadAll => KeepAt(ReadAll, I) \in Seq(Lines(n))
<1> DEFINE V == Lines(n)
<1>1. \A s \in Seq(V) : \A J : J \subseteq DOMAIN s => KeepAt(s, J) \in Seq(V)
  BY KeepAtIs
<1>2. \A x \in V : x.id \in Int
  BY DEF Lines
<1> HIDE DEF V
<1>3. ReadAll \in Seq(V)
  BY <1>1 DEF ReadAll, V
<1>4. Unexpired(ReadAll) \in Seq(V)
  <2>1. {i \in DOMAIN ReadAll : ~TooOld(ReadAll[i].id)} \subseteq DOMAIN ReadAll
    OBVIOUS
  <2> QED
    BY <1>1, <1>3, <2>1 DEF Unexpired
<1>5. ASSUME NEW s \in Seq(V) PROVE NewestFirst(s) \in Seq(V) /\ Len(NewestFirst(s)) = Len(s)
  <2> DEFINE D == DOMAIN s
             newer == {p \in D \X D : s[p[1]].id > s[p[2]].id}
  <2>1. \A i \in D : s[i].id \in Int
    BY <1>2, <1>5
  <2>2. \A i, j \in D : <<i, j>> \in newer <=> s[i].id > s[j].id
    OBVIOUS
  <2>3. NewestFirst(s) = SortedBy(s, newer)
    BY DEF NewestFirst
  <2> HIDE DEF newer
  <2>4. WeakOrder(D, newer)
    <3> HIDE DEF D
    <3>1. PICK id : id = [i \in D |-> s[i].id]
      OBVIOUS
    <3>2. \A i \in D : id[i] \in Int
      BY <2>1, <3>1
    <3>3. \A i, j \in D : <<i, j>> \in newer <=> id[i] > id[j]
      BY <2>2, <3>1
    <3> QED
      BY ONLY <3>2, <3>3 DEF WeakOrder
  <2> QED
    BY <1>5, <2>3, <2>4, SortedByIs
<1>6. \A s \in Seq(V) : \A m \in Nat : Len(s) > m => SubSeq(s, 1, m) \in Seq(V)
  OBVIOUS
<1>7. Evict(ReadAll) \in Seq(V)
  <2> DEFINE fresh == Unexpired(ReadAll)
  <2> HIDE DEF fresh
  <2>1. Evict(ReadAll) = IF MaxEntries > 0 /\ Len(fresh) > MaxEntries
                         THEN SubSeq(NewestFirst(fresh), 1, MaxEntries) ELSE fresh
    BY DEF Evict, fresh
  <2>2. fresh \in Seq(V) /\ NewestFirst(fresh) \in Seq(V) /\ MaxEntries \in Nat
    BY <1>4, <1>5, HistoryAssumption DEF fresh
  <2>3. SubSeq(NewestFirst(fresh), 1, MaxEntries) \in Seq(V) \/ ~(Len(fresh) > MaxEntries)
    BY <1>5, <1>6, <2>2
  <2> QED
    BY <2>1, <2>2, <2>3
<1> QED
  BY <1>1, <1>3, <1>7 DEF V

(* Every step keeps it: what is written is one more line, or what was read.*)
LEMMA LinesStep == HistoryInv /\ KnownLines /\ [FileNext \/ AsyncNext]_historyVars => KnownLines'
<1> SUFFICES ASSUME HistoryInv, KnownLines, [FileNext \/ AsyncNext]_historyVars PROVE KnownLines'
  OBVIOUS
<1>0. /\ written \in Nat /\ born \in Seq(Nat) /\ today \in Nat /\ ProcTypes /\ file \in Seq(Lines(written))
      /\ \A p \in Procs : procs[p].kept \in Seq(Lines(written))
  BY WrittenNumber DEF HistoryInv, KnownLines
<1> DEFINE Known(kept) == kept \in Seq(Lines(written))
<1>1. Known(<<>>) /\ IdleProc.kept = <<>>
  BY NoLines DEF IdleProc
<1>2. ASSUME UNCHANGED written, file' \in Seq(Lines(written)), NEW p \in Procs, NEW q, Known(q.kept),
             procs' = [procs EXCEPT ![p] = q]
      PROVE  KnownLines'
  <2>1. procs'[p] = q /\ \A r \in Procs \ {p} : procs'[r] = procs[r]
    BY <1>0, <1>2 DEF ProcTypes
  <2> QED
    BY <1>0, <1>2, <2>1 DEF KnownLines
<1>3. ASSUME UNCHANGED <<written, procs>>, file' \in Seq(Lines(written)) PROVE KnownLines'
  BY <1>0, <1>3 DEF KnownLines
<1>4. ASSUME NEW p \in Procs, AppendEntry(p) PROVE KnownLines'
  <2>1. PICK long \in BOOLEAN : file' = Append(file, [id |-> written + 1, long |-> long])
    BY <1>4 DEF AppendEntry
  <2> DEFINE e == [id |-> written + 1, long |-> long]
  <2>2. e \in Lines(written + 1)
    BY <1>0 DEF Lines
  <2> HIDE DEF e
  <2>3. file' = Append(file, e) /\ written' = written + 1
    <3>1. file' = Append(file, e) /\ born' = Append(born, today)
      BY <1>4, <2>1 DEF AppendEntry, e
    <3> QED
      BY <1>0, <3>1 DEF written
  <2>4. file' \in Seq(Lines(written'))
    BY <1>0, <2>2, <2>3, LinesStay
  <2> DEFINE q == Begins("write", 0)
  <2>5. procs' = [procs EXCEPT ![p] = q] /\ q.kept = <<>>
    BY <1>4 DEF AppendEntry, Begins
  <2> HIDE DEF q
  <2>6. procs'[p] = q /\ \A r \in Procs \ {p} : procs'[r] = procs[r]
    BY <1>0, <2>5 DEF ProcTypes
  <2>7. ASSUME NEW r \in Procs PROVE procs'[r].kept \in Seq(Lines(written'))
    <3>1. CASE r = p
      BY <2>5, <2>6, <3>1, NoLines
    <3>2. CASE r # p
      BY <1>0, <2>3, <2>6, <3>2, LinesStay
    <3> QED
      BY <3>1, <3>2
  <2> QED
    BY <2>4, <2>7 DEF KnownLines
<1>5. ASSUME NEW p \in Procs, ReadAndKeep(p) PROVE KnownLines'
  <2> DEFINE q == procs[p]
  <2>1. file' = file /\ written' = written
    BY <1>5 DEF ReadAndKeep, written
  <2> DEFINE I == {i \in DOMAIN ReadAll : ReadAll[i].id >= q.since}
             kept == IF q.op = "write" THEN Evict(ReadAll) ELSE KeepAt(ReadAll, I)
             next == [q EXCEPT !.at = "truncate", !.kept = kept]
  <2>3. Known(kept)
    <3>1. I \subseteq DOMAIN ReadAll
      OBVIOUS
    <3> HIDE DEF I
    <3> QED
      BY <1>0, <3>1, KeepsLines
  <2>4. next.kept = kept
    <3> HIDE DEF kept
    <3> QED
      BY <1>0 DEF ProcTypes, IsProc
  <2>5. procs' = [procs EXCEPT ![p] = IdleProc] \/ procs' = [procs EXCEPT ![p] = next]
    BY <1>5 DEF ReadAndKeep, Since
  <2> HIDE DEF kept, next, q
  <2> QED
    BY <1>0, <1>1, <1>2, <2>1, <2>3, <2>4, <2>5
<1>6. ASSUME NEW p \in Procs, Truncate(p) PROVE KnownLines'
  <2> DEFINE q == [procs[p] EXCEPT !.at = "flush"]
  <2>1. q.kept = procs[p].kept
    BY <1>0 DEF ProcTypes, IsProc
  <2>2. procs' = [procs EXCEPT ![p] = q] /\ file' = <<>> /\ written' = written
    BY <1>6 DEF Truncate, Become, written
  <2> HIDE DEF q
  <2> QED
    BY <1>0, <1>1, <1>2, <2>1, <2>2
<1>7. ASSUME NEW p \in Procs, Flush(p) PROVE KnownLines'
  <2> DEFINE V == Lines(written)
  <2>1. PICK kept : kept = procs[p].kept /\ kept \in Seq(V)
    BY <1>0
  <2>2. PICK rest : rest = SubSeq(file, Len(kept) + 1, Len(file))
    OBVIOUS
  <2>3. (rest # <<>> /\ file' = kept \o (<<Damaged>> \o Tail(rest))) \/ file' = kept \o rest
    BY <1>7, <2>1, <2>2 DEF Flush
  <2>4. Damaged \in V
    BY <1>0 DEF Lines, Damaged
  <2>5. file \in Seq(V)
    BY <1>0
  <2> HIDE DEF V
  <2>6. rest \in Seq(V)
    BY <2>1, <2>2, <2>5
  <2>7. rest # <<>> => Tail(rest) \in Seq(V)
    BY <2>6
  <2>8. file' \in Seq(V)
    <3>1. CASE rest # <<>> /\ file' = kept \o (<<Damaged>> \o Tail(rest))
      <4>1. PICK t : t = Tail(rest)
        OBVIOUS
      <4>2. t \in Seq(V) /\ <<Damaged>> \o t \in Seq(V)
        BY ONLY <2>4, <2>7, <3>1, <4>1
      <4> QED
        BY ONLY <2>1, <3>1, <4>1, <4>2
    <3>2. CASE file' = kept \o rest
      BY ONLY <2>1, <2>6, <3>2
    <3> QED
      BY <2>3, <3>1, <3>2
  <2>9. procs' = [procs EXCEPT ![p] = IdleProc] /\ written' = written
    BY <1>7 DEF Flush, written
  <2> QED
    BY <1>1, <1>2, <2>8, <2>9 DEF V
<1>8. ASSUME NEW p \in Procs, ClearSince(p) PROVE KnownLines'
  <2>0. PICK since : procs' = [procs EXCEPT ![p] = Begins("clear", since)]
    BY <1>8 DEF ClearSince
  <2> DEFINE q == Begins("clear", since)
  <2>1. procs' = [procs EXCEPT ![p] = q] /\ q.kept = <<>> /\ file' = file /\ written' = written
    BY <1>8, <2>0 DEF ClearSince, Begins, written
  <2> HIDE DEF q
  <2> QED
    BY <1>0, <1>1, <1>2, <2>1
<1>9. ASSUME NEW p \in Procs, ClearAll(p) PROVE KnownLines'
  BY <1>1, <1>3, <1>9 DEF ClearAll, written
<1>10. ASSUME NEW p \in Procs, ProcessDies(p) PROVE KnownLines'
  BY <1>0, <1>1, <1>2, <1>10 DEF ProcessDies, written
<1>11. CASE DayPasses \/ AsyncNext \/ UNCHANGED historyVars
  <2>1. UNCHANGED <<file, procs, written>>
    BY <1>11 DEF DayPasses, AsyncNext, WriteAsync, WorkerWrites, WorkerSeesDone, WorkerLeaves, CloseAsync,
                 DrainEnds, fileVars, historyVars, written
  <2> QED
    BY <1>0, <1>3, <2>1
<1> QED
  BY <1>4, <1>5, <1>6, <1>7, <1>8, <1>9, <1>10, <1>11 DEF FileNext

(* The buffer never holds more than its size.                              *)
LEMMA BufferStep ==
    AsyncInv /\ Len(async.ch) <= BufferSize /\ [FileNext \/ AsyncNext]_historyVars
    => (Len(async.ch) <= BufferSize)'
<1> SUFFICES ASSUME AsyncInv, Len(async.ch) <= BufferSize, [FileNext \/ AsyncNext]_historyVars
             PROVE  Len(async'.ch) <= BufferSize
  OBVIOUS
<1>0. DOMAIN async = WriterFields /\ async.ch \in Seq(Given) /\ BufferSize \in Nat
  BY HistoryAssumption DEF AsyncInv
<1>1. CASE WriteAsync
  <2> DEFINE n == async.n + 1  w == [async EXCEPT !.n = n, !.ch = Append(@, n)]
  <2>1. w.ch = Append(async.ch, n) /\ DOMAIN w = WriterFields
    BY <1>0 DEF WriterFields
  <2>2. Len(w.ch) = Len(async.ch) + 1
    BY <1>0, <2>1
  <2>3. \/ Len(async.ch) = BufferSize /\ async' = [async EXCEPT !.n = n]
        \/ Len(async.ch) # BufferSize /\ async' = [w EXCEPT !.late = @ \cup {n}]
        \/ Len(async.ch) # BufferSize /\ async' = [w EXCEPT !.accepted = @ \cup {n}]
    BY <1>1 DEF WriteAsync
  <2> HIDE DEF w, n
  <2>4. \/ Len(async.ch) = BufferSize /\ async'.ch = async.ch
        \/ Len(async.ch) # BufferSize /\ async'.ch = w.ch
    BY <1>0, <2>1, <2>3 DEF WriterFields
  <2> QED
    BY <1>0, <2>2, <2>4
<1>2. CASE WorkerWrites
  <2>1. async.ch # <<>> /\ async'.ch = Tail(async.ch)
    BY <1>0, <1>2 DEF WorkerWrites, WriterFields
  <2> QED
    BY <1>0, <2>1
<1>3. CASE WorkerSeesDone \/ WorkerLeaves \/ CloseAsync \/ DrainEnds \/ FileNext \/ UNCHANGED historyVars
  <2>1. async'.ch = async.ch
    BY <1>0, <1>3 DEF WorkerSeesDone, WorkerLeaves, CloseAsync, DrainEnds, WriterFields, historyVars, FileNext,
       AppendEntry, ReadAndKeep, Truncate, Flush, ClearSince, ClearAll, ProcessDies, DayPasses
  <2> QED
    BY <2>1
<1> QED
  BY <1>1, <1>2, <1>3 DEF AsyncNext

(* With the history's invariants these are the types.                      *)
HistoryTyped == HistoryInv /\ AsyncInv /\ KnownLines /\ Len(async.ch) <= BufferSize
(* It holds before anything is written ...                                 *)
LEMMA HistoryInitTyped == HistoryInit => HistoryTyped
<1> SUFFICES ASSUME HistoryInit PROVE HistoryTyped
  OBVIOUS
<1>1. file = <<>> /\ procs = [p \in Procs |-> IdleProc] /\ async = FreshWriter
  BY DEF HistoryInit
<1>2. \A p \in Procs : procs[p].kept = <<>>
  BY <1>1 DEF IdleProc
<1>3. KnownLines
  BY <1>1, <1>2, NoLines DEF KnownLines
<1>4. Len(async.ch) = 0 /\ BufferSize \in Nat
  BY <1>1, HistoryAssumption DEF FreshWriter
<1> QED
  BY <1>3, <1>4, HistoryInitInv DEF HistoryTyped
(* ... every step keeps it ...                                             *)
LEMMA HistoryTypedStep == HistoryTyped /\ [FileNext \/ AsyncNext]_historyVars => HistoryTyped'
BY HistorySteps, LinesStep, BufferStep DEF HistoryTyped
(* ... and it says what HistoryTypeOK says.                                *)
LEMMA HistoryTypedOK == HistoryTyped => HistoryTypeOK
<1> SUFFICES ASSUME HistoryTyped PROVE HistoryTypeOK
  OBVIOUS
<1>1. \A i \in DOMAIN file : file[i] \in Lines(written)
  BY DEF HistoryTyped, KnownLines
<1> QED
  BY <1>1 DEF HistoryTyped, HistoryInv, ProcTypes, IsProc, HistoryTypeOK, Lines

-----------------------------------------------------------------------------
(* The types of all the parts.                                             *)
PartsTyped ==
    /\ PipeTyped /\ RouterTypeOK /\ McpTyped /\ StoresTyped /\ TenancyTyped
    /\ AnswerTyped /\ HistoryTyped /\ AuditInv /\ AuthTyped /\ MembersTyped

(* A step of the whole is a step or a stutter of the index, the router and *)
(* the history too.                                                        *)
LEMMA IndexSteps ==
    [ServiceNext]_serviceVars =>
       /\ [RouterNext \/ ShardNext]_routerVars /\ [IndexNext]_indexVars /\ [TenancyNext]_tenancyVars
       /\ [AnswerNext]_answerVars /\ [FileNext \/ AsyncNext]_historyVars
<1> SUFFICES ASSUME [ServiceNext]_serviceVars
             PROVE  /\ [RouterNext \/ ShardNext]_routerVars /\ [IndexNext]_indexVars /\ [TenancyNext]_tenancyVars
                    /\ [AnswerNext]_answerVars /\ [FileNext \/ AsyncNext]_historyVars
  OBVIOUS
<1>1. CASE UNCHANGED serviceVars
  BY <1>1 DEF serviceVars
<1>2. CASE ServiceNext
  <2>1. RouterNext \/ FileDocument \/ MergeRRF \/ UNCHANGED routerVars
    BY <1>2 DEF ServiceNext
  <2>2. UpsertNext \/ SearchNext \/ UNCHANGED indexVars
    BY <1>2 DEF ServiceNext
  <2>3. /\ TenancyNext \/ UNCHANGED tenancyVars
        /\ AnswerNext \/ UNCHANGED answerVars
    BY <1>2 DEF ServiceNext
  <2>4. FileNext \/ AsyncNext \/ UNCHANGED historyVars
    BY <1>2 DEF ServiceNext
  <2> QED
    BY <2>1, <2>2, <2>3, <2>4 DEF ShardNext, IndexNext
<1> QED
  BY <1>1, <1>2

(* A filled index holds copies of both tenants' documents, or none.        *)
LEMMA FilledTyped == Filled => StoresTyped
<1> SUFFICES ASSUME Filled PROVE StoresTyped
  OBVIOUS
<1> DEFINE Copies_ == {MCCopy(0, NoTeam), MCCopy(1, "a"), MCCopy(2, "b"), MCCopy(1, NoTeam)}
<1>1. Copies_ \subseteq Copy
  <2>1. NoTeam \in STRING /\ "a" \in STRING /\ "b" \in STRING
    BY IndexAssumption, TeamNames DEF TeamNames
  <2> HIDE DEF NoTeam
  <2> QED
    BY <2>1 DEF MCCopy, Copy
<1>2. held \in [Stores -> [DocIds -> Copies_]]
  BY DEF Filled
<1> HIDE DEF Copies_
<1>3. DOMAIN held = Stores /\ \A s \in Stores : held[s] \in [DocIds -> Copy]
  BY <1>1, <1>2
<1> DEFINE Told == [NoReport EXCEPT !.failed = Stores]
<1>4. Told.failed = Stores /\ "failed" \in DOMAIN Told
  BY DEF NoReport
<1> HIDE DEF Told
<1>5. report = [w \in Writers |-> Told]
  BY DEF Filled, Told
<1>6. DOMAIN report = Writers /\ \A w \in Writers : "failed" \in DOMAIN report[w] /\ report[w].failed = Stores
  BY <1>4, <1>5
<1>7. /\ wpc \in [Writers -> {"idle", "writing", "done"}] /\ from \in [Writers -> Nat \ {0}]
      /\ awaited \in [Writers -> SUBSET Stores] /\ DOMAIN lists = {}
  BY DEF Filled
<1>8. tasks \in Seq(Task)
  <2>1. tasks = <<>>
    BY DEF Filled
  <2> HIDE DEF Task
  <2> QED
    BY <2>1
<1> QED
  BY <1>3, <1>6, <1>7, <1>8 DEF StoresTyped, UpsertTypes, IndexTypeOK

(* It holds at first, wherever the behaviour looks ...                     *)
LEMMA PartsInitTyped == ServiceInit => PartsTyped
<1> SUFFICES ASSUME ServiceInit PROVE PartsTyped
  OBVIOUS
<1>1. /\ PipeInit /\ McpInit /\ AnswerInit /\ HistoryInit /\ AuditInit /\ MembersInit
      /\ RouterInit /\ TenancyInit /\ AuthInit /\ (Filled \/ IndexInit)
  BY Zenon DEF ServiceInit
<1>2. AuditInv
  BY <1>1, ReconcileInitInv, RetentionInitInv, ChainInitInv, Zenon DEF AuditInv
<1>3. StoresTyped
  BY <1>1, FilledTyped, StoresInitTyped
<1>4. PipeTyped /\ RouterTypeOK /\ McpTyped
  BY <1>1, PipeInitTyped, RouterInitTyped, McpInitTyped
<1>5. TenancyTyped /\ AnswerTyped /\ HistoryTyped
  BY <1>1, TenancyInitTyped, AnswerInitTyped, HistoryInitTyped
<1>6. AuthTyped /\ MembersTyped
  BY <1>1, AuthInitTyped, MembersInitTyped
<1> QED
  BY <1>2, <1>3, <1>4, <1>5, <1>6 DEF PartsTyped

(* ... and every step keeps it.                                            *)
LEMMA PartsTypedStep == PartsTyped /\ [ServiceNext]_serviceVars => PartsTyped'
<1> SUFFICES ASSUME PartsTyped, [ServiceNext]_serviceVars PROVE PartsTyped'
  OBVIOUS
<1>1. PipeTyped' /\ McpTyped'
  BY SurfaceSteps, PipeTypedStep, McpTypedStep DEF PartsTyped
<1>2. RouterTypeOK' /\ StoresTyped' /\ TenancyTyped' /\ AnswerTyped' /\ HistoryTyped'
  BY IndexSteps, RouterTypedStep, StoresTypedStep, TenancyTypedStep, AnswerTypedStep, HistoryTypedStep DEF PartsTyped
<1>3. AuthTyped' /\ MembersTyped'
  BY AccessSteps, AuthTypedStep, MembersTypedStep DEF PartsTyped
<1>4. AuditInv'
  BY TrailStep DEF PartsTyped
<1> QED
  BY <1>1, <1>2, <1>3, <1>4 DEF PartsTyped

(* Every part's variables have their types in every state: what is asked,  *)
(* held, counted or listed is of what the part was given and within its    *)
(* bounds (the whole serving side).                                        *)
THEOREM ServiceTyped == ServiceSpec => []ServiceTypesOK
<1>1. PartsTyped => ServiceTypesOK
  BY PipeTypedOK, McpTypedOK, AnswerTypedOK, HistoryTypedOK, AuditTypedOK, AuthTypedOK, MembersTypedOK
     DEF PartsTyped, StoresTyped, TenancyTyped, ServiceTypesOK
<1> QED
  BY <1>1, PartsInitTyped, PartsTypedStep, PTL DEF ServiceSpec
=============================================================================
