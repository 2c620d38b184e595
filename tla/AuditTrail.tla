----------------------------- MODULE AuditTrail -----------------------------
(***************************************************************************)
(* The audit trail: one emitter in front of an append-only table, and the  *)
(* jobs that work on it. A reconciler polls LiteLLM's spend log and writes *)
(* a row for each call the Go side has not accounted for; an exporter and  *)
(* a cleanup job archive and drop monthly partitions; an administrator has *)
(* old queries replayed; a hash chain over the rows can be verified. The   *)
(* table, LiteLLM and the object store are external; each may fail.        *)
(* Nothing in the commands runs these jobs yet.                            *)
(***************************************************************************)
EXTENDS Integers, Sequences, FiniteSets, FiniteSetsExt, SequencesExt

CONSTANTS Pollers,        \* reconcilers that may run
          LLMCalls,       \* ids of the calls LiteLLM logs
          Interval,       \* minutes between two polls
          MaxMinute,      \* bound: minutes that pass
          Months,         \* partitions 1..Months, of MonthDays days each
          MonthDays, RetentionHotDays, RequireS3Archive,
          MaxAuditDay,    \* bound: days that pass
          MaxReplays,     \* bound: replays asked for
          MaxLinks        \* bound: rows of the chain

ASSUME AuditAssumption ==
    /\ Interval \in Nat \ {0} /\ MaxMinute \in Nat /\ Months \in Nat
    /\ MonthDays \in Nat \ {0} /\ RetentionHotDays \in Nat /\ MaxAuditDay \in Nat
    /\ RequireS3Archive \in BOOLEAN /\ MaxReplays \in Nat /\ MaxLinks \in Nat

VARIABLES
    rows,       \* the table, oldest first: [type, decision, ref]
    minute,
    spend,      \* LLMCalls -> the minute LiteLLM logged it, Never before
    ledger,     \* ids the Go side has in cost_ledger
    poller,     \* Pollers -> [at, left, id]
    polls,      \* history: [last, late, failed, overlapped]
    months,     \* month -> "live", "archived", then "dropped"; "lost" if never archived
    cleaner,    \* the cleanup job: [at, listed, month, cutoff]
    auditDay,
    replays,    \* what was answered: Seq of [target, answer]
    chain,      \* rows with their hashes, as an auditor reads them
    tampered    \* history: a row of the chain was changed or taken out

reconcileVars == <<minute, spend, ledger, poller, polls>>
retentionVars == <<months, cleaner, auditDay>>
chainVars == <<chain, tampered>>
auditVars == <<rows, reconcileVars, retentionVars, replays, chainVars>>

Never == -1
IdlePoll == [at |-> "idle", left |-> {}, id |-> "none"]
IdleCleaner == [at |-> "idle", listed |-> {}, month |-> 0, cutoff |-> 0]

AuditInit ==
    /\ rows = <<>> /\ minute = 0 /\ ledger = {}
    /\ spend = [c \in LLMCalls |-> Never] /\ poller = [p \in Pollers |-> IdlePoll]
    /\ polls = [last |-> 0, late |-> FALSE, failed |-> FALSE, overlapped |-> FALSE]
    /\ months = [m \in 1..Months |-> "live"] /\ cleaner = IdleCleaner /\ auditDay = 0
    /\ replays = <<>> /\ chain = <<>> /\ tampered = FALSE

-----------------------------------------------------------------------------
Row(type, decision, ref) == [type |-> type, decision |-> decision, ref |-> ref]

(* EmitEvent: a decision of its own is refused, such as the pre-screen's   *)
(* "degrade"; otherwise the row is there when nil is returned, and not     *)
(* when the store fails.                                                   *)
ValidDecision(decision) == decision \in {"allow", "deny", "none"}
Emitted(row) == ValidDecision(row.decision) /\ rows' = Append(rows, row)
EmitFails == UNCHANGED rows

(* The slog tee writes its line first; what the trail refuses or fails to  *)
(* write is not an error of the logger.                                    *)
DecisionLogged ==
    /\ \E decision \in {"allow", "deny", "degrade"} :
          LET row == Row("cap.evaluation", decision, "tee") IN
          IF ValidDecision(decision) THEN Emitted(row) \/ EmitFails ELSE EmitFails
    /\ Len(rows) = 0    \* bound: one such line is enough
    /\ UNCHANGED <<reconcileVars, retentionVars, replays, chainVars>>

-----------------------------------------------------------------------------
(* LiteLLM logs a call; the Go side writes its ledger before or after.     *)
CallLogged(c) ==
    /\ spend[c] = Never /\ spend' = [spend EXCEPT ![c] = minute]
    /\ UNCHANGED <<rows, minute, ledger, poller, polls, retentionVars, replays, chainVars>>
LedgerWritten(c) ==
    /\ c \notin ledger /\ ledger' = ledger \cup {c}
    /\ UNCHANGED <<rows, minute, spend, poller, polls, retentionVars, replays, chainVars>>
MinutePasses ==
    /\ minute < MaxMinute /\ minute' = minute + 1
    /\ UNCHANGED <<rows, spend, ledger, poller, polls, retentionVars, replays, chainVars>>

(* The window is the interval and a minute back from now, whenever the     *)
(* last poll was.                                                          *)
WindowStart == minute - (Interval + 1)
InWindow == {c \in LLMCalls : spend[c] # Never /\ spend[c] >= WindowStart}
Turn(p, left, failed) ==   \* to the next log of the poll, or to its end
    /\ poller' = [poller EXCEPT ![p] = IF left = {} THEN IdlePoll
                    ELSE [at |-> "ledger", left |-> left, id |-> CHOOSE c \in left : TRUE]]
    /\ polls' = [polls EXCEPT !.failed = @ \/ failed]

FetchSpendLogs(p) ==
    /\ poller[p].at = "idle"
    /\ \/ poller' = [poller EXCEPT ![p] = IF InWindow = {} THEN IdlePoll
             ELSE [at |-> "ledger", left |-> InWindow, id |-> CHOOSE c \in InWindow : TRUE]]
          /\ polls' = [polls EXCEPT !.last = minute,
                                    !.late = @ \/ minute > polls.last + Interval + 1,
                                    !.overlapped = @ \/ \E q \in Pollers : poller[q].at # "idle"]
       \/ UNCHANGED <<poller, polls>>      \* LiteLLM does not answer
    /\ UNCHANGED <<rows, minute, spend, ledger, retentionVars, replays, chainVars>>

Reconciled(c) == \E i \in DOMAIN rows : rows[i] = Row("cost.reconciled", "none", c)

(* A log is skipped when it is known, and when it cannot be told.          *)
ExistsInCostLedger(p) == LET q == poller[p] IN
    /\ q.at = "ledger"
    /\ \/ Turn(p, q.left \ {q.id}, TRUE)
       \/ q.id \in ledger /\ Turn(p, q.left \ {q.id}, FALSE)
       \/ q.id \notin ledger /\ poller' = [poller EXCEPT ![p].at = "events"] /\ UNCHANGED polls
    /\ UNCHANGED <<rows, minute, spend, ledger, retentionVars, replays, chainVars>>
ExistsInAuditEvents_Unasked(c) == FALSE
ExistsInAuditEvents(c) == Reconciled(c)
CheckAuditEvents(p) == LET q == poller[p] IN
    /\ q.at = "events"
    /\ \/ Turn(p, q.left \ {q.id}, TRUE)
       \/ ExistsInAuditEvents(q.id) /\ Turn(p, q.left \ {q.id}, FALSE)
       \/ ~ExistsInAuditEvents(q.id) /\ poller' = [poller EXCEPT ![p].at = "emit"] /\ UNCHANGED polls
    /\ UNCHANGED <<rows, minute, spend, ledger, retentionVars, replays, chainVars>>
EmitReconciled(p) == LET q == poller[p] IN
    /\ q.at = "emit"
    /\ \/ Emitted(Row("cost.reconciled", "none", q.id)) /\ Turn(p, q.left \ {q.id}, FALSE)
       \/ EmitFails /\ Turn(p, q.left \ {q.id}, TRUE)
    /\ UNCHANGED <<minute, spend, ledger, retentionVars, replays, chainVars>>

ReconcileNext ==
    \/ \E c \in LLMCalls : CallLogged(c) \/ LedgerWritten(c)
    \/ MinutePasses
    \/ \E p \in Pollers : FetchSpendLogs(p) \/ ExistsInCostLedger(p) \/ CheckAuditEvents(p)
                          \/ EmitReconciled(p)

-----------------------------------------------------------------------------
RangeStart(m) == (m - 1) * MonthDays
RangeEnd(m) == m * MonthDays
RetentionDay ==
    /\ auditDay < MaxAuditDay /\ auditDay' = auditDay + 1
    /\ UNCHANGED <<rows, reconcileVars, months, cleaner, replays, chainVars>>

(* The object is stored, then the export is recorded; that the partition   *)
(* is archived is marked outside. An upload that fails leaves nothing.     *)
ExportPartition(m) ==
    /\ months[m] = "live"
    /\ months' = [months EXCEPT ![m] = "archived"]
    /\ Emitted(Row("audit.export", "none", m)) \/ EmitFails
    /\ UNCHANGED <<reconcileVars, cleaner, auditDay, replays, chainVars>>

(* RunCleanup over the partitions it was given, as they were listed, in    *)
(* whatever order its caller lists them.                                   *)
Old(m, cutoff) == RangeStart(m) < cutoff
Droppable(p, cutoff) == Old(p.month, cutoff) /\ (RequireS3Archive => p.archived)
RunCleanup ==
    /\ cleaner.at = "idle"
    /\ LET live == {m \in 1..Months : months[m] \in {"live", "archived"} /\ RangeStart(m) <= auditDay}
       IN  /\ live # {}
           /\ cleaner' = [at |-> "next", month |-> 0, cutoff |-> auditDay - RetentionHotDays,
                          listed |-> {[month |-> m, archived |-> months[m] = "archived"] : m \in live}]
    /\ UNCHANGED <<rows, reconcileVars, months, auditDay, replays, chainVars>>
NextPartition ==
    /\ cleaner.at = "next"
    /\ \/ cleaner.listed = {} /\ cleaner' = IdleCleaner /\ UNCHANGED months
       \/ \E p \in cleaner.listed :
            LET rest == [cleaner EXCEPT !.listed = @ \ {p}] IN
            \/ /\ ~Droppable(p, cleaner.cutoff) /\ cleaner' = rest /\ UNCHANGED months
            \/ /\ Droppable(p, cleaner.cutoff)          \* the drop fails
               /\ cleaner' = rest /\ UNCHANGED months
            \/ /\ Droppable(p, cleaner.cutoff)
               /\ months' = [months EXCEPT ![p.month] = IF @ = "live" THEN "lost" ELSE "dropped"]
               /\ cleaner' = [rest EXCEPT !.at = "emit", !.month = p.month]
    /\ UNCHANGED <<rows, reconcileVars, auditDay, replays, chainVars>>
DropRecorded ==
    /\ cleaner.at = "emit"
    /\ Emitted(Row("audit.partition_drop", "none", cleaner.month)) \/ EmitFails
    /\ cleaner' = [cleaner EXCEPT !.at = "next"]
    /\ UNCHANGED <<reconcileVars, months, auditDay, replays, chainVars>>

RetentionNext ==
    \/ RetentionDay \/ RunCleanup \/ NextPartition \/ DropRecorded
    \/ \E m \in 1..Months : ExportPartition(m)

-----------------------------------------------------------------------------
(* The event a request id names: of a type, its query text masked or not.  *)
Targets == {"none", "query", "deep", "other", "masked"}
Replayable(t) == t \in {"query", "deep"}
Denied(t, reason) ==
    /\ \/ Emitted(Row("admin.replay", "deny", t)) \/ EmitFails
    /\ replays' = Append(replays, [target |-> t, answer |-> reason])
(* Nothing runs the query again: "submitted" is two rows of the trail, and *)
(* either may be missing when the store fails.                             *)
Replay ==
    /\ Len(replays) < MaxReplays
    /\ \E t \in Targets, limited \in BOOLEAN :
          \/ limited /\ Denied(t, "429")
          \/ ~limited /\ t = "none" /\ Denied(t, "unknown_request_id")
          \/ ~limited /\ t = "none" /\ EmitFails       \* no fetcher: no row is tried
             /\ replays' = Append(replays, [target |-> t, answer |-> "unknown_request_id"])
          \/ ~limited /\ t = "other" /\ Denied(t, "event_not_replayable")
          \/ ~limited /\ t = "masked" /\ Denied(t, "query_text_masked")
          \/ /\ ~limited /\ Replayable(t)
             /\ LET asked == Row("admin.replay", "allow", t)  again == Row(t, "allow", "replay") IN
                rows' \in {rows \o kept : kept \in {<<asked, again>>, <<asked>>, <<again>>, <<>>}}
             /\ replays' = Append(replays, [target |-> t, answer |-> "submitted"])
    /\ UNCHANGED <<reconcileVars, retentionVars, chainVars>>

-----------------------------------------------------------------------------
(* A hash stands for what was hashed: the rows up to its own.              *)
ComputeThisHash(prevHash, event) == Append(prevHash, event)
LastHash == IF chain = <<>> THEN <<>> ELSE chain[Len(chain)].this
ChainGrows ==
    /\ Len(chain) < MaxLinks /\ ~tampered
    /\ \E event \in {"e", "f"} :
          chain' = Append(chain, [event |-> event, this |-> ComputeThisHash(LastHash, event)])
    /\ UNCHANGED <<rows, reconcileVars, retentionVars, replays, tampered>>
(* Outside the program a row is changed, its hash left as it is, or taken  *)
(* out, as the cleanup takes the oldest ones; the newest go unnoticed.     *)
RowChanged ==
    /\ ~tampered /\ tampered' = TRUE
    /\ \E i \in DOMAIN chain : chain' = [chain EXCEPT ![i].event = IF @ = "e" THEN "f" ELSE "e"]
    /\ UNCHANGED <<rows, reconcileVars, retentionVars, replays>>
RowTaken ==
    /\ ~tampered
    /\ \E i \in DOMAIN chain : chain' = RemoveAt(chain, i) /\ tampered' = (i < Len(chain))
    /\ UNCHANGED <<rows, reconcileVars, retentionVars, replays>>

(* The number of rows whose hash is not that of the row before with them.  *)
VerifyChain(links) ==
    Cardinality({i \in DOMAIN links : links[i].this #
        ComputeThisHash(IF i = 1 THEN <<>> ELSE links[i - 1].this, links[i].event)})

ReplayNext == DecisionLogged \/ Replay \/ ChainGrows \/ RowChanged \/ RowTaken

AuditSpec == AuditInit /\ [][ReconcileNext \/ RetentionNext \/ ReplayNext]_auditVars

-----------------------------------------------------------------------------
(* The table's rows have a valid decision, the jobs are at a step of theirs.*)
AuditTypeOK ==
    /\ \A i \in DOMAIN rows : ValidDecision(rows[i].decision)
    /\ ledger \subseteq LLMCalls
    /\ \A p \in Pollers : poller[p].at \in {"idle", "ledger", "events", "emit"}
    /\ \A m \in 1..Months : months[m] \in {"live", "archived", "dropped", "lost"}

(* A call LiteLLM logged is in the trail once, however the windows of two  *)
(* polls overlap in time, as long as the polls themselves do not; and, if  *)
(* none came late and nothing failed, no call logged before the last poll  *)
(* is missing from both the ledger and the trail when the polls are done.  *)
PollsDone == \A p \in Pollers : poller[p].at = "idle"
Rowed(c) == Cardinality({i \in DOMAIN rows : rows[i] = Row("cost.reconciled", "none", c)})
Skipped == {c \in LLMCalls : /\ spend[c] # Never /\ spend[c] < polls.last
                             /\ ~Reconciled(c) /\ c \notin ledger}
SpendReconciled ==
    /\ ~polls.overlapped => \A c \in LLMCalls : Rowed(c) <= 1
    /\ ~polls.late /\ ~polls.failed /\ PollsDone => Skipped = {}

(* What the cleanup drops is past retention and, where that is required,   *)
(* archived; with a retention of a month or more it is never the month     *)
(* that is being written. A partition the trail says was dropped is gone.  *)
DroppedRightly ==
    /\ RequireS3Archive => \A m \in 1..Months : months[m] # "lost"
    /\ \A m \in 1..Months : months[m] \in {"dropped", "lost"} =>
          /\ RangeStart(m) < auditDay - RetentionHotDays
          /\ RetentionHotDays >= MonthDays => RangeEnd(m) <= auditDay
    /\ \A i \in DOMAIN rows : rows[i].type = "audit.partition_drop" =>
          months[rows[i].ref] \in {"dropped", "lost"}

(* The verification counts nothing exactly when no row before the last was *)
(* changed or taken out: rows dropped with the oldest partition count.     *)
ChainTells == (VerifyChain(chain) = 0) = ~tampered

TrailSound == SpendReconciled /\ DroppedRightly /\ ChainTells

(* SPEC-AUTH-003 REQ-AUTH3-003: the window starts a minute before the last *)
(* run, so that a late poll catches up.                                    *)
LatePollCatchesUp == ~polls.failed /\ PollsDone => Skipped = {}
=============================================================================
