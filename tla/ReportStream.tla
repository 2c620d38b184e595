---------------------------- MODULE ReportStream ----------------------------
(***************************************************************************)
(* A deep report on its way to the caller: the handler takes it from the   *)
(* agents' pipeline or from STORM and answers with JSON or with a stream   *)
(* of events, section by section, keeping only sentences with a citation   *)
(* it can resolve; a client parses the events back. The caller may leave,  *)
(* and the connection may break in the middle of a frame.                  *)
(***************************************************************************)
EXTENDS Integers, Sequences, FiniteSets, SequencesExt

CONSTANTS Reports,       \* reports: a sequence of sections, each a sequence of
                         \* sentences, each the set of markers it cites
          Citations,     \* markers the report has a citation for
          MaxAgents      \* bound: entries of the agents' log

ASSUME ReportAssumption == \A r \in Reports : r \in Seq(Seq(SUBSET Nat))

VARIABLES
    ask,        \* the request: [mode, sse]
    report,
    log,        \* the agents' log: Seq of [agent, outcome]
    handler,    \* [at, section, sentence, emitted, total, status, returned]
    gone,       \* the caller has left: the context has ended
    wire,       \* frames that were written whole: [event, section, count, refs]
    broken,     \* the connection broke: "no", or what arrived of the last frame
    reader      \* the client: [at, read, events]
reportVars == <<ask, report, log, handler, gone, wire, broken, reader>>

ReportInit ==
    /\ ask \in [mode : {"agents", "storm", "other"}, sse : BOOLEAN] /\ report \in Reports
    /\ log = <<>> /\ gone = FALSE /\ wire = <<>> /\ broken = "no"
    /\ handler = [at |-> "start", section |-> 1, sentence |-> 1, emitted |-> 0, total |-> 0,
                  status |-> 0, returned |-> 0]
    /\ reader = [at |-> "reading", read |-> 0, events |-> <<>>]

-----------------------------------------------------------------------------
Frame(event, section, count, refs) ==
    [event |-> event, section |-> section, count |-> count, refs |-> refs]
Ended(status) == handler' = [handler EXCEPT !.at = "ended", !.status = status]

(* writeAndFlush: a frame is written whole, or the write fails and part of *)
(* it may have left.                                                       *)
Torn == {"nothing", "name", "event", "data"}
Written(frame) == broken = "no" /\ wire' = Append(wire, frame) /\ UNCHANGED broken
WriteFails ==
    /\ IF broken = "no" THEN broken' \in Torn ELSE UNCHANGED broken
    /\ UNCHANGED wire

(* The pipeline, or STORM, has answered: refused, failed, empty, without a *)
(* draft, or with one. The agents' log goes out before the draft, and a    *)
(* failed write there is not looked at.                                    *)
AgentRuns ==
    /\ handler.at = "start" /\ ask.mode = "agents" /\ Len(log) < MaxAgents
    /\ \E agent \in {"researcher", "writer", "verifier"}, outcome \in {"ok", "error"} :
          log' = Append(log, [agent |-> agent, outcome |-> outcome])
    /\ UNCHANGED <<ask, report, handler, gone, wire, broken, reader>>

FailedAgent ==
    LET failed == {i \in DOMAIN log : log[i].outcome = "error"} IN
    IF failed = {} THEN "unknown" ELSE log[CHOOSE i \in failed : \A j \in failed : j <= i].agent
Attempts == Cardinality({i \in DOMAIN log : log[i].agent = "writer"})

SourceFails ==
    /\ handler.at = "start"
    /\ CASE ask.mode = "other" -> Ended(400) /\ UNCHANGED <<wire, broken>>
         [] ask.mode = "storm" -> (Ended(503) \/ Ended(500)) /\ UNCHANGED <<wire, broken>>
         [] OTHER -> IF ask.sse
               THEN /\ Ended(200)
                    /\ Written(Frame("pipeline_failed", 0, Attempts, {FailedAgent})) \/ WriteFails
               ELSE Ended(503) /\ UNCHANGED <<wire, broken>>
    /\ UNCHANGED <<ask, report, log, gone, reader>>
EmptyCorpus ==
    /\ handler.at = "start" /\ ask.mode = "agents" /\ Ended(200)
    /\ IF ask.sse THEN Written(Frame("agent_completed", 0, 0, {"researcher"})) \/ WriteFails
       ELSE UNCHANGED <<wire, broken>>
    /\ UNCHANGED <<ask, report, log, gone, reader>>
Buffered ==
    /\ handler.at = "start" /\ ask.mode # "other" /\ ~ask.sse /\ Ended(200)
    /\ UNCHANGED <<ask, report, log, gone, wire, broken, reader>>
StartStream ==
    /\ handler.at = "start" /\ ask.mode # "other" /\ ask.sse
    /\ handler' = [handler EXCEPT !.at = IF ask.mode = "agents" THEN "log" ELSE "section"]
    /\ UNCHANGED <<ask, report, log, gone, wire, broken, reader>>
EmitAgentLog ==
    /\ handler.at = "log"
    /\ \/ /\ broken = "no" /\ UNCHANGED broken
          /\ wire' = wire \o [i \in DOMAIN log |-> Frame("agent_completed", 0, 0, {log[i].agent})]
       \/ WriteFails
    /\ handler' \in {[handler EXCEPT !.at = "section"], [handler EXCEPT !.at = "ended", !.status = 200]}
    /\ UNCHANGED <<ask, report, log, gone, reader>>

-----------------------------------------------------------------------------
Stop == handler' = [handler EXCEPT !.at = "ended", !.status = 200, !.returned = handler.total]
Send(frame, next) == \/ Written(frame) /\ handler' = next
                     \/ WriteFails /\ Stop
Resolve(markers) == markers \cap Citations

StreamAbandoned ==
    /\ handler.at \in {"section", "sentence"} /\ gone /\ Stop
    /\ handler.at = "section" => handler.section <= Len(report)
    /\ handler.at = "sentence" => handler.sentence <= Len(report[handler.section])
    /\ UNCHANGED <<ask, report, log, gone, wire, broken, reader>>
SectionStart ==
    /\ handler.at = "section" /\ handler.section <= Len(report) /\ ~gone
    /\ Send(Frame("section_start", handler.section, 0, {}),
            [handler EXCEPT !.at = "sentence", !.sentence = 1, !.emitted = 0])
    /\ UNCHANGED <<ask, report, log, gone, reader>>
StreamSentence == LET section == report[handler.section] IN
    /\ handler.at = "sentence" /\ handler.sentence <= Len(section) /\ ~gone
    /\ LET refs == Resolve(section[handler.sentence]) IN
       IF refs = {}
       THEN handler' = [handler EXCEPT !.sentence = @ + 1] /\ UNCHANGED <<wire, broken>>
       ELSE Send(Frame("sentence", handler.section, handler.sentence, refs),
                 [handler EXCEPT !.sentence = @ + 1, !.emitted = @ + 1, !.total = @ + 1])
    /\ UNCHANGED <<ask, report, log, gone, reader>>
SectionDone ==
    /\ handler.at = "sentence" /\ handler.sentence > Len(report[handler.section])
    /\ Send(Frame("section_done", handler.section, handler.emitted, {}),
            [handler EXCEPT !.at = "section", !.section = @ + 1])
    /\ UNCHANGED <<ask, report, log, gone, reader>>
StreamDone ==
    /\ handler.at = "section" /\ handler.section > Len(report)
    /\ Send(Frame("done", Len(report), handler.total, {}),
            [handler EXCEPT !.at = "ended", !.status = 200, !.returned = handler.total])
    /\ UNCHANGED <<ask, report, log, gone, reader>>

CallerLeaves ==
    /\ ~gone /\ handler.at # "ended" /\ gone' = TRUE
    /\ UNCHANGED <<ask, report, log, handler, wire, broken, reader>>

-----------------------------------------------------------------------------
(* SSEParser.Next: whole frames one after the other; at the end of the     *)
(* stream what has arrived of a frame counts as one. A field it does not   *)
(* know is a frame without a name, which the consumer takes for a sentence.*)
Known(event) == IF event \in {"sentence", "citation", "done", "error"} THEN event ELSE "sentence"
ReadFrame ==
    /\ reader.at = "reading" /\ reader.read < Len(wire)
    /\ reader' = [reader EXCEPT !.read = @ + 1,
                     !.events = Append(@, [type |-> Known(wire[reader.read + 1].event), whole |-> TRUE])]
    /\ UNCHANGED <<ask, report, log, handler, gone, wire, broken>>
ReadEnd ==
    /\ reader.at = "reading" /\ reader.read = Len(wire) /\ handler.at = "ended"
    /\ \E type \in IF broken \in {"no", "nothing"} THEN {"none"}
                   ELSE IF broken = "name" THEN {"sentence"} ELSE {"sentence", "done"} :
          reader' = [reader EXCEPT !.at = "closed",
             !.events = IF type = "none" THEN @ ELSE Append(@, [type |-> type, whole |-> FALSE])]
    /\ UNCHANGED <<ask, report, log, handler, gone, wire, broken>>

ReportNext ==
    \/ AgentRuns \/ SourceFails \/ EmptyCorpus \/ Buffered \/ StartStream \/ EmitAgentLog
    \/ StreamAbandoned \/ SectionStart \/ StreamSentence \/ SectionDone \/ StreamDone
    \/ CallerLeaves \/ ReadFrame \/ ReadEnd
ReportSpec == ReportInit /\ [][ReportNext]_reportVars

-----------------------------------------------------------------------------
ReportTypeOK ==
    /\ handler.at \in {"start", "log", "section", "sentence", "ended"}
    /\ handler.status \in {0, 200, 400, 500, 503} /\ broken \in {"no"} \cup Torn
    /\ handler.section \in 1..(Len(report) + 1) /\ reader.read \in 0..Len(wire)

(* The stream accounts for itself (StreamLongFormReport): a section ends   *)
(* with the number of sentences sent since it began, the last event tells  *)
(* how many there were, every sentence cites something the report has a    *)
(* citation for, nothing follows the end, and what the handler counts is   *)
(* what went out, also when it was cut off. The sentences go out in the    *)
(* order of the report, each once, and a stream that says it is done has   *)
(* sent every sentence with a citation that resolves.                      *)
Sentences == {i \in DOMAIN wire : wire[i].event = "sentence"}
OfSection(n) == {i \in Sentences : wire[i].section = n}
Precedes(p, q) == p[1] < q[1] \/ (p[1] = q[1] /\ p[2] < q[2])
Place(f) == <<f.section, f.count>>
Due == UNION {{<<n, k>> : k \in {j \in DOMAIN report[n] : Resolve(report[n][j]) # {}}} : n \in DOMAIN report}
StreamAccounted ==
    /\ \A i \in DOMAIN wire : LET f == wire[i] IN
          /\ f.event = "sentence" => f.refs # {} /\ f.refs \subseteq Citations
          /\ f.event = "section_done" => f.count = Cardinality(OfSection(f.section))
          /\ f.event = "done" => /\ i = Len(wire) /\ f.count = Cardinality(Sentences)
                                /\ {Place(wire[j]) : j \in Sentences} = Due
    /\ \A i, j \in Sentences : i < j => Precedes(Place(wire[i]), Place(wire[j]))
    /\ handler.at \in {"section", "sentence"} => handler.total = Cardinality(Sentences)
    /\ handler.returned = 0 \/ handler.returned = Cardinality(Sentences)
=============================================================================
