------------------------------ MODULE TreeFile ------------------------------
(***************************************************************************)
(* The tree.json of a deep run: flushed after each node's transition and   *)
(* each level's join through one temporary file and a rename, by as many   *)
(* goroutines as there are siblings, read back after a crash. ExpandTree   *)
(* does not call it yet.                                                   *)
(***************************************************************************)
EXTENDS Integers, Sequences, FiniteSets

CONSTANTS TreeNodes,      \* nodes of the run
          Flushers,       \* goroutines that flush
          MaxFlushes      \* bound: flushes begun

ASSUME TreeFileAssumption == MaxFlushes \in Nat

VARIABLES
    nodeStatus,     \* node -> its status in memory
    tmp, final, \* the two files: "none", "partial", or the statuses a flush wrote
    flusher,    \* Flushers -> [at, data]
    flushes,    \* how many were begun
    overlapped, \* history: a flush began while another was between its two steps
    crashed,    \* the process is gone, its files stay
    reloaded    \* what a reader made of the file, or "unreadable"

treeFileVars == <<nodeStatus, tmp, final, flusher, flushes, overlapped, crashed, reloaded>>

Open == {"pending", "expanding"}
Statuses == Open \cup {"complete", "failed", "budget_exceeded"}
NoFile == [kind |-> "none", nodes |-> <<>>]
Partial == [kind |-> "partial", nodes |-> <<>>]
Whole(nodes) == [kind |-> "whole", nodes |-> nodes]
Idle == [at |-> "idle", data |-> <<>>]

TreeFileInit ==
    /\ nodeStatus = [n \in TreeNodes |-> "pending"]
    /\ tmp = NoFile /\ final = NoFile
    /\ flusher = [f \in Flushers |-> Idle] /\ flushes = 0
    /\ overlapped = FALSE /\ crashed = FALSE /\ reloaded = NoFile

-----------------------------------------------------------------------------
FlushInFlight == {f \in Flushers : flusher[f].at # "idle"}
Begin(f, data) ==
    /\ ~crashed /\ flusher[f].at = "idle" /\ flushes < MaxFlushes
    /\ flusher' = [flusher EXCEPT ![f] = [at |-> "write", data |-> data]]
    /\ flushes' = flushes + 1
    /\ overlapped' = (overlapped \/ FlushInFlight # {})

(* OnNodeTransition writes the tree it finds with this one node: the nodes *)
(* of earlier flushes are not taken over. A level's join writes them all.  *)
NodeTransition(f, n) ==
    /\ nodeStatus[n] \in Open
    /\ \E s \in IF nodeStatus[n] = "pending" THEN {"expanding"} ELSE Statuses \ Open :
          /\ nodeStatus' = [nodeStatus EXCEPT ![n] = s]
          /\ Begin(f, [m \in {n} |-> s])
    /\ UNCHANGED <<tmp, final, crashed, reloaded>>
LevelJoins(f) ==
    /\ Begin(f, nodeStatus)
    /\ UNCHANGED <<nodeStatus, tmp, final, crashed, reloaded>>

(* os.WriteFile truncates, then writes; os.Rename takes what the temporary *)
(* file holds then, and fails when another flush has taken it away.        *)
WriteTmp(f) ==
    /\ ~crashed /\ flusher[f].at = "write"
    /\ tmp' = Partial /\ flusher' = [flusher EXCEPT ![f].at = "writing"]
    /\ UNCHANGED <<nodeStatus, final, flushes, overlapped, crashed, reloaded>>
TmpWritten(f) ==
    /\ ~crashed /\ flusher[f].at = "writing"
    /\ IF tmp = NoFile THEN UNCHANGED tmp   \* renamed meanwhile: the bytes go to the final file
       ELSE tmp' = Whole(flusher[f].data)
    /\ final' = IF tmp = NoFile THEN Whole(flusher[f].data) ELSE final
    /\ flusher' = [flusher EXCEPT ![f].at = "rename"]
    /\ UNCHANGED <<nodeStatus, flushes, overlapped, crashed, reloaded>>
RenameTmp_At == {"rename"}
RenameTmp(f) ==
    /\ ~crashed /\ flusher[f].at \in RenameTmp_At
    /\ final' = IF tmp = NoFile THEN final ELSE tmp
    /\ tmp' = NoFile
    /\ flusher' = [flusher EXCEPT ![f] = Idle]
    /\ UNCHANGED <<nodeStatus, flushes, overlapped, crashed, reloaded>>

Crash ==
    /\ ~crashed /\ crashed' = TRUE
    /\ UNCHANGED <<nodeStatus, tmp, final, flusher, flushes, overlapped, reloaded>>

(* LoadTreeWithNodes with ReloadReclassifyNodes: open nodes become failed  *)
(* in memory, the file stays; a tree so loaded is refused to ExpandTree.   *)
Reclassify(nodes) == [n \in DOMAIN nodes |-> IF nodes[n] \in Open THEN "failed" ELSE nodes[n]]
Reload ==
    /\ final # NoFile
    /\ reloaded' = IF final = Partial THEN Partial ELSE Whole(Reclassify(final.nodes))
    /\ UNCHANGED <<nodeStatus, tmp, final, flusher, flushes, overlapped, crashed>>

TreeFileNext ==
    \/ \E f \in Flushers : \/ \E n \in TreeNodes : NodeTransition(f, n)
                           \/ LevelJoins(f) \/ WriteTmp(f) \/ TmpWritten(f) \/ RenameTmp(f)
    \/ Crash \/ Reload

TreeFileSpec == TreeFileInit /\ [][TreeFileNext]_treeFileVars

-----------------------------------------------------------------------------
(* The files hold nothing, a part, or statuses of nodes.                   *)
TreeFileTypeOK ==
    /\ \A x \in {tmp, final, reloaded} :
          /\ x.kind \in {"none", "partial", "whole"}
          /\ DOMAIN x.nodes \subseteq TreeNodes
    /\ \A n \in DOMAIN final.nodes : final.nodes[n] \in Statuses

(* As long as flushes do not overlap, a crash at any moment leaves a file  *)
(* that can be read, no node of a reloaded tree is open, and a node that   *)
(* has reached its end is never read back as another end.                  *)
TreeReadableSerial ==
    /\ ~overlapped => final # Partial /\ reloaded # Partial
    /\ \A n \in DOMAIN reloaded.nodes : reloaded.nodes[n] \notin Open
    /\ \A n \in DOMAIN final.nodes :
          final.nodes[n] \notin Open => final.nodes[n] = nodeStatus[n]
=============================================================================
