---------------------------- MODULE HistoryStore ----------------------------
(***************************************************************************)
(* The CLI's history. JSONLBackend appends an entry to a file, then reads  *)
(* it all and, when entries are too old or too many, truncates it and      *)
(* writes it again; its mutex is one process's own, the file is everybody's*)
(* and a process can end at any system call. AsyncWriter puts a buffer and *)
(* a goroutine in front of a backend; the commands do not use it yet.      *)
(***************************************************************************)
EXTENDS Integers, Sequences, FiniteSets, Subsequences

CONSTANTS Procs,          \* processes of the CLI
          MaxEntries, RetentionDays,
          MaxWritten,     \* bound: entries ever written
          MaxDay,         \* bound: days that pass
          BufferSize      \* AsyncWriter's channel

ASSUME HistoryAssumption ==
    /\ MaxEntries \in Nat /\ RetentionDays \in Nat
    /\ MaxWritten \in Nat /\ MaxDay \in Nat /\ BufferSize \in Nat

VARIABLES
    file,       \* the lines, an entry [id, long] or Damaged; ids grow with time
    procs,      \* Procs -> [at, op, since, kept]: the operation a process is in
    born,       \* the day of every entry ever written, by its id
    today,
    disturbed,  \* history: an operation overlapped another, ended early or met a long line
    cleared,    \* history: ids a completed Clear was asked to remove
    async       \* AsyncWriter: [n, ch, closed, worker, accepted, late, failed, out, drain]

historyVars == <<file, procs, born, today, disturbed, cleared, async>>
fileVars == <<file, procs, born, today, disturbed, cleared>>

written == Len(born)
Damaged == [id |-> 0, long |-> FALSE]
Begins(op, since) == [at |-> "read", op |-> op, since |-> since, kept |-> <<>>]
IdleProc == [at |-> "idle", op |-> "write", since |-> 0, kept |-> <<>>]
FreshWriter == [n |-> 0, ch |-> <<>>, closed |-> FALSE, worker |-> "run", accepted |-> {},
                late |-> {}, failed |-> {}, out |-> <<>>, drain |-> "none"]

HistoryInit ==
    /\ file = <<>> /\ procs = [p \in Procs |-> IdleProc]
    /\ born = <<>> /\ today = 0 /\ disturbed = FALSE /\ cleared = {}
    /\ async = FreshWriter

-----------------------------------------------------------------------------
OtherProcs(p) == \E q \in Procs \ {p} : procs[q].at # "idle"
Overlap(p) == disturbed' = (disturbed \/ OtherProcs(p))
Become(p, at) == procs' = [procs EXCEPT ![p].at = at]

(* Write, its first half: the line goes to the end, wherever that is now.  *)
AppendEntry(p) ==
    /\ procs[p].at = "idle" /\ written < MaxWritten
    /\ born' = Append(born, today)
    /\ \E long \in BOOLEAN :
          /\ file' = Append(file, [id |-> written + 1, long |-> long])
          /\ disturbed' = (disturbed \/ OtherProcs(p) \/ long)
    /\ procs' = [procs EXCEPT ![p] = Begins("write", 0)]
    /\ UNCHANGED <<today, cleared, async>>

(* readAllLocked passes over damaged lines; one too long for the scanner   *)
(* fails the whole read.                                                   *)
ReadAll == KeepAt(file, {i \in DOMAIN file : file[i] # Damaged})
ReadFails == \E i \in DOMAIN file : file[i].long

TooOld(id) == RetentionDays > 0 /\ born[id] <= today - RetentionDays
Unexpired(entries) == KeepAt(entries, {i \in DOMAIN entries : ~TooOld(entries[i].id)})
NewestFirst(entries) ==
    SortedBy(entries, {p \in (DOMAIN entries) \X (DOMAIN entries) : entries[p[1]].id > entries[p[2]].id})
Evict_FileOrder(entries) ==
    LET fresh == Unexpired(entries) IN
    IF MaxEntries > 0 /\ Len(fresh) > MaxEntries THEN SubSeq(fresh, 1, MaxEntries) ELSE fresh
Evict(entries) ==
    LET fresh == Unexpired(entries) IN
    IF MaxEntries > 0 /\ Len(fresh) > MaxEntries
    THEN SubSeq(NewestFirst(fresh), 1, MaxEntries) ELSE fresh

(* evictLocked, and Clear with a cutoff: what is kept is settled here.     *)
Since(entries, since) == KeepAt(entries, {i \in DOMAIN entries : entries[i].id >= since})
ReadAndKeep(p) ==
    LET q == procs[p]
        kept == IF q.op = "write" THEN Evict(ReadAll) ELSE Since(ReadAll, q.since)
    IN
    /\ q.at = "read"
    /\ procs' = [procs EXCEPT ![p] =
          IF ReadFails \/ (q.op = "write" /\ kept = ReadAll) THEN IdleProc
          ELSE [q EXCEPT !.at = "truncate", !.kept = kept]]
    /\ Overlap(p)
    /\ UNCHANGED <<file, born, today, cleared, async>>

(* overwriteLocked: os.Create empties the file, the buffer is flushed at   *)
(* the start of it. Lines another process has added meanwhile are written  *)
(* over, the last of them perhaps in part.                                 *)
Truncate(p) ==
    /\ procs[p].at = "truncate"
    /\ file' = <<>> /\ Become(p, "flush") /\ Overlap(p)
    /\ UNCHANGED <<born, today, cleared, async>>
Flush(p) == LET kept == procs[p].kept  over == Len(procs[p].kept) IN
    /\ procs[p].at = "flush"
    /\ \E torn \in BOOLEAN :
          LET rest == SubSeq(file, over + 1, Len(file)) IN
          file' = kept \o (IF torn /\ rest # <<>> THEN <<Damaged>> \o Tail(rest) ELSE rest)
    /\ cleared' = cleared \cup {id \in 1..written : id < procs[p].since}
    /\ procs' = [procs EXCEPT ![p] = IdleProc] /\ Overlap(p)
    /\ UNCHANGED <<born, today, async>>

(* The cutoff falls before, between or after the entries there are.        *)
ClearSince(p) ==
    /\ procs[p].at = "idle"
    /\ \E since \in 1..written + 1 : procs' = [procs EXCEPT ![p] = Begins("clear", since)]
    /\ Overlap(p)
    /\ UNCHANGED <<file, born, today, cleared, async>>

(* Without a cutoff the file itself goes.                                  *)
ClearAll(p) ==
    /\ procs[p].at = "idle" /\ file # <<>>
    /\ file' = <<>> /\ cleared' = 1..written /\ Overlap(p)
    /\ UNCHANGED <<procs, born, today, async>>

(* The process ends in the middle: the next command is a new one.          *)
ProcessDies(p) ==
    /\ procs[p].at # "idle"
    /\ procs' = [procs EXCEPT ![p] = IdleProc] /\ disturbed' = TRUE
    /\ UNCHANGED <<file, born, today, cleared, async>>

DayPasses ==
    /\ today < MaxDay /\ today' = today + 1
    /\ UNCHANGED <<file, procs, born, disturbed, cleared, async>>

FileNext ==
    \/ \E p \in Procs : \/ AppendEntry(p) \/ ReadAndKeep(p) \/ Truncate(p) \/ Flush(p)
                        \/ ClearSince(p) \/ ClearAll(p) \/ ProcessDies(p)
    \/ DayPasses

(* List and, with a filter on the prompt, Search: the newest first.        *)
List(limit) ==
    LET all == NewestFirst(ReadAll) IN
    IF limit > 0 /\ Len(all) > limit THEN SubSeq(all, 1, limit) ELSE all

-----------------------------------------------------------------------------
(* A full buffer drops the entry with a warning; a write after Close is    *)
(* taken although nobody may be left to write it.                          *)
WriteAsync ==
    LET n == async.n + 1  w == [async EXCEPT !.n = n, !.ch = Append(@, n)] IN
    /\ async.n < MaxWritten
    /\ async' = IF Len(async.ch) = BufferSize THEN [async EXCEPT !.n = n]
                ELSE IF async.closed THEN [w EXCEPT !.late = @ \cup {n}]
                ELSE [w EXCEPT !.accepted = @ \cup {n}]
    /\ UNCHANGED fileVars

(* The worker takes what is there in either loop; done, once seen, only    *)
(* ends it when the buffer is empty. The backend writes the entry, or its  *)
(* error is logged and the entry is gone.                                  *)
WorkerWrites == LET n == Head(async.ch) IN
    /\ async.worker \in {"run", "drain"} /\ async.ch # <<>>
    /\ \/ async' = [async EXCEPT !.ch = Tail(@), !.out = Append(@, n)]
       \/ async' = [async EXCEPT !.ch = Tail(@), !.failed = @ \cup {n}]
    /\ UNCHANGED fileVars
WorkerSeesDone ==
    /\ async.worker = "run" /\ async.closed
    /\ async' = [async EXCEPT !.worker = "drain"]
    /\ UNCHANGED fileVars
LeavesWith(ch) == ch = <<>>
WorkerLeaves ==
    /\ async.worker = "drain" /\ LeavesWith(async.ch)
    /\ async' = [async EXCEPT !.worker = "left"]
    /\ UNCHANGED fileVars

CloseAsync ==
    /\ ~async.closed
    /\ async' = [async EXCEPT !.closed = TRUE, !.drain = "wait"]
    /\ UNCHANGED fileVars
DrainEnds ==
    /\ async.drain = "wait"
    /\ \/ async.worker = "left" /\ async' = [async EXCEPT !.drain = "drained"]
       \/ async' = [async EXCEPT !.drain = "timeout"]
    /\ UNCHANGED fileVars

AsyncNext == WriteAsync \/ WorkerWrites \/ WorkerSeesDone \/ WorkerLeaves \/ CloseAsync \/ DrainEnds

HistorySpec == HistoryInit /\ [][FileNext \/ AsyncNext]_historyVars

-----------------------------------------------------------------------------
(* The file holds entries that were written, processes are somewhere.      *)
HistoryTypeOK ==
    /\ \A i \in DOMAIN file : file[i].id \in 0..written
    /\ \A p \in Procs : procs[p].at \in {"idle", "read", "truncate", "flush"}
    /\ Len(async.ch) <= BufferSize

(* As long as the commands run one after the other and to their end, the   *)
(* history lists, newest first and once each, exactly the newest entries   *)
(* nobody cleared, as many as are kept, though each rewrite reverses the   *)
(* file and later entries are appended behind; an entry missing from the   *)
(* list was older than a Clear's cutoff, is by now as old as RetentionDays *)
(* itself, or is behind MaxEntries newer ones.                             *)
Listed == {List(0)[i].id : i \in DOMAIN List(0)}
EntriesKept == (~disturbed /\ \A p \in Procs : procs[p].at = "idle") =>
    /\ MaxEntries > 0 => Len(file) <= MaxEntries
    /\ Cardinality(Listed) = Len(List(0)) /\ Listed \cap cleared = {}
    /\ \A id \in 1..written \ (Listed \cup cleared) :
          \/ TooOld(id)
          \/ MaxEntries > 0 /\ Cardinality({e \in 1..written : e > id}) >= MaxEntries

(* Close, when it does not run out of time, returns only after everything  *)
(* accepted before it has been given to the backend: of that the backend   *)
(* holds, in order and once, all but the entries it failed to write. (What *)
(* is accepted later may be among it or be left in the buffer.)            *)
DrainedAll == async.drain = "drained" =>
    /\ \A i, j \in DOMAIN async.out : i < j => async.out[i] < async.out[j]
    /\ {async.out[i] : i \in DOMAIN async.out} \ async.late = async.accepted \ async.failed

(* The history loses what its rules say and nothing else (jsonl.go), and   *)
(* AsyncWriter drains what it accepted (async.go).                         *)
HistoryKept == EntriesKept /\ DrainedAll
=============================================================================
