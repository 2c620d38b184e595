------------------------------ MODULE DeepTree ------------------------------
(***************************************************************************)
(* One run of the research tree (internal/deepagent/tree.go, budget.go):   *)
(* ExpandTree expands the root, then level by level asks for sub-queries   *)
(* of every completed node and expands all of them concurrently, each      *)
(* against a token budget that a shared tracker guards.                    *)
(***************************************************************************)
EXTENDS Integers, Sequences, FiniteSets, Functions

CONSTANTS Breadth, Depth,      \* cfg.Breadth, cfg.Depth
          MaxChildren,         \* sub-queries one Decompose may return
          TokenBudget,
          RootTokenEstimate,
          Tokens               \* tokens an expansion may report

(* ExpandTree refuses other breadths and depths; the number of sub-queries *)
(* is the researcher's, whatever breadth it was asked for.                 *)
ASSUME TreeAssumption ==
    /\ Breadth \in 1..8 /\ Depth \in 1..5
    /\ MaxChildren \in Nat
    /\ TokenBudget \in Nat /\ RootTokenEstimate \in Nat
    /\ Tokens \subseteq Nat

(* A node is the path of breadth indices that leads to it.                 *)
Nodes == UNION {[1..d -> 1..MaxChildren] : d \in 0..Depth}
Root == <<>>
Parent(n) == SubSeq(n, 1, Len(n) - 1)
Children(n, count) == {Append(n, i) : i \in 1..count}

VARIABLES pc,           \* root, decompose, level, done, failed
          depth,        \* currentDepth
          frontier,     \* completed nodes still to be decomposed
          children,     \* nodes of the next level
          nodeState,       \* Node.Status; "none" before a node exists
          visited,      \* state.nodes
          tokens,       \* Node.TokensUsed
          reservedFor,  \* Node.ReservedTokens
          used, reserved, count    \* the tracker's totals

node == <<nodeState, visited, tokens, reservedFor>>
tracker == <<used, reserved, count>>
treeVars == <<pc, depth, frontier, children, node, tracker>>

Settled == {"complete", "failed", "budget_exceeded"}
SumOver(f, S) == FoldFunctionOnSet(+, 0, f, S)
InFlight == {n \in Nodes : nodeState[n] = "expanding"}

TreeInit ==
    /\ pc = "root" /\ depth = 0 /\ frontier = {} /\ children = {Root}
    /\ nodeState = [n \in Nodes |-> IF n = Root THEN "pending" ELSE "none"]
    /\ visited = {}
    /\ tokens = [n \in Nodes |-> 0]
    /\ reservedFor = [n \in Nodes |-> 0]
    /\ used = 0 /\ reserved = 0 /\ count = 0

-----------------------------------------------------------------------------
(* PreCheck's estimate, recorded as the node's reservation: 25% above what *)
(* breadth children as costly as the parent would use.                     *)
Estimate(n) ==
    IF n = Root THEN RootTokenEstimate ELSE (5 * tokens[Parent(n)] * Breadth) \div 4

MaxNodes == LET power[i \in 0..Depth] == IF i = 0 THEN 1 ELSE Breadth * power[i - 1]
            IN  SumOver(power, 0..Depth)

(* PreCheck: both caps; the reservation is made under the same lock.       *)
Affordable_IgnoreReserved(n) == Estimate(n) <= TokenBudget - used /\ count < MaxNodes
Affordable(n) == Estimate(n) <= TokenBudget - used - reserved /\ count < MaxNodes

(* processNode, first part: the node gets a reservation and starts its     *)
(* search, or is given up.                                                 *)
StartExpansion(n) ==
    /\ nodeState[n] = "pending" /\ Affordable(n)
    /\ reserved' = reserved + Estimate(n)
    /\ reservedFor' = [reservedFor EXCEPT ![n] = Estimate(n)]
    /\ nodeState' = [nodeState EXCEPT ![n] = "expanding"]
    /\ UNCHANGED <<pc, depth, frontier, children, visited, tokens, used, count>>

ExceedBudget_StaysPending(n) ==
    /\ nodeState[n] = "pending" /\ ~Affordable(n)
    /\ visited' = visited \cup {n}
    /\ UNCHANGED <<pc, depth, frontier, children, nodeState, tokens, reservedFor, tracker>>
ExceedBudget(n) ==
    /\ nodeState[n] = "pending" /\ ~Affordable(n)
    /\ nodeState' = [nodeState EXCEPT ![n] = "budget_exceeded"]
    /\ visited' = visited \cup {n}
    /\ UNCHANGED <<pc, depth, frontier, children, tokens, reservedFor, tracker>>

(* ReleaseOnComplete: what was not used of the reservation is given back;  *)
(* what was used stays reserved and is counted as used besides.            *)
Release_Actual(n, actual) ==
    /\ used' = used + actual
    /\ reserved' = reserved - actual
    /\ count' = count + 1
Release(n, actual) ==
    /\ used' = used + actual
    /\ reserved' = IF reservedFor[n] > actual THEN reserved - (reservedFor[n] - actual)
                   ELSE reserved
    /\ count' = count + 1

Complete(n, t) ==
    /\ nodeState[n] = "expanding"
    /\ Release(n, t)
    /\ tokens' = [tokens EXCEPT ![n] = t]
    /\ nodeState' = [nodeState EXCEPT ![n] = "complete"]
    /\ visited' = visited \cup {n}
    /\ UNCHANGED <<pc, depth, frontier, children, reservedFor>>

(* The search fails: on its own, because its context timed out or was      *)
(* cancelled, or because the error of a sibling cancelled the context of   *)
(* the level. Any of them may be the reason, so a search can fail at any   *)
(* time. The root's error ends the run.                                    *)
Fail(n) ==
    /\ nodeState[n] = "expanding"
    /\ Release(n, 0)
    /\ nodeState' = [nodeState EXCEPT ![n] = "failed"]
    /\ visited' = visited \cup {n}
    /\ pc' = IF n = Root THEN "failed" ELSE pc
    /\ UNCHANGED <<depth, frontier, children, tokens, reservedFor>>

-----------------------------------------------------------------------------
Joined == \A n \in children : nodeState[n] \in Settled

(* The top of the loop: the level's completed nodes are the next frontier. *)
Advance(d) ==
    LET next == {n \in visited : Len(n) = d /\ nodeState[n] = "complete"}
    IN  /\ depth' = d
        /\ frontier' = next
        /\ children' = {}
        /\ pc' = IF d < Depth /\ next # {} THEN "decompose" ELSE "done"

(* The root has been expanded, or a level has been joined (the memory      *)
(* guard then marks visited nodes that are still open: there are none).    *)
JoinLevel ==
    /\ pc \in {"root", "level"} /\ Joined
    /\ Advance(IF pc = "root" THEN 0 ELSE depth + 1)
    /\ UNCHANGED <<node, tracker>>

(* Decompose of one frontier node: its sub-queries become children ...     *)
Decompose(n, k) ==
    /\ pc = "decompose" /\ n \in frontier
    /\ frontier' = frontier \ {n}
    /\ children' = children \cup Children(n, k)
    /\ UNCHANGED <<pc, depth, node, tracker>>

(* ... or the call fails, and the node, complete so far, counts as failed. *)
DecomposeFails(n) ==
    /\ pc = "decompose" /\ n \in frontier
    /\ frontier' = frontier \ {n}
    /\ nodeState' = [nodeState EXCEPT ![n] = "failed"]
    /\ UNCHANGED <<pc, depth, children, visited, tokens, reservedFor, tracker>>

(* All goroutines of the level are started, or there is nothing to start.  *)
LaunchLevel ==
    /\ pc = "decompose" /\ frontier = {}
    /\ pc' = IF children = {} THEN "done" ELSE "level"
    /\ nodeState' = [n \in Nodes |-> IF n \in children THEN "pending" ELSE nodeState[n]]
    /\ UNCHANGED <<depth, frontier, children, visited, tokens, reservedFor, tracker>>

Expand(n) == \/ StartExpansion(n) \/ ExceedBudget(n) \/ Fail(n)
             \/ \E t \in Tokens : Complete(n, t)

DecomposeAny == \E n \in frontier : DecomposeFails(n) \/ \E k \in 0..MaxChildren : Decompose(n, k)

TreeNext == \/ \E n \in children : Expand(n)
            \/ DecomposeAny \/ LaunchLevel \/ JoinLevel

TreeSpec == TreeInit /\ [][TreeNext]_treeVars

(* Goroutines run; Decompose and Fanout return when their contexts end     *)
(* (NodeTimeoutMs for a node).                                             *)
TreeFairness ==
    /\ WF_treeVars(DecomposeAny) /\ WF_treeVars(LaunchLevel) /\ WF_treeVars(JoinLevel)
    /\ \A n \in Nodes : WF_treeVars(n \in children /\ Expand(n))
TreeFairSpec == TreeSpec /\ TreeFairness

-----------------------------------------------------------------------------
TreeTypeOK ==
    /\ pc \in {"root", "decompose", "level", "done", "failed"}
    /\ depth \in 0..Depth
    /\ frontier \subseteq Nodes /\ children \subseteq Nodes /\ visited \subseteq Nodes
    /\ nodeState \in [Nodes -> {"none", "pending", "expanding"} \cup Settled]
    /\ tokens \in [Nodes -> Tokens \cup {0}] /\ reservedFor \in [Nodes -> Nat]
    /\ used \in Nat /\ reserved \in Nat /\ count \in 0..Cardinality(Nodes)

Completed == {n \in Nodes : nodeState[n] = "complete" \/ tokens[n] > 0}

(* NFR-DEEP3-003: as long as no node used more than it had reserved, the   *)
(* tokens used stay within the budget, however the siblings interleave     *)
(* their checks with each other's releases.                                *)
UsedWithinBudget ==
    (\A n \in Completed : tokens[n] <= reservedFor[n]) => used <= TokenBudget

(* REQ-DEEP3-007: the tracker counts exactly the tokens of the nodes, and  *)
(* never gives back what a node still in flight has reserved.              *)
TrackerCovers ==
    /\ used = SumOver(tokens, Nodes)
    /\ reserved >= SumOver(reservedFor, InFlight)

(* The breadth-first order of tree.go: while a node is open, everything    *)
(* above it is settled and its parent is complete; at the end nothing is   *)
(* open.                                                                   *)
LevelByLevel ==
    /\ \A n \in Nodes : nodeState[n] \in {"pending", "expanding"} =>
          /\ n = Root \/ nodeState[Parent(n)] = "complete"
          /\ \A m \in visited : Len(m) <= Len(n)
    /\ pc \in {"done", "failed"} => \A n \in Nodes : nodeState[n] \in Settled \cup {"none"}

(* ExpandTree returns.                                                     *)
Returns == <>(pc \in {"done", "failed"})

(* spec.md:520 (NFR-DEEP3-003): tree.TotalTokensUsed +                     *)
(* tree.TotalReservedTokens never exceeds the budget.                      *)
CommittedWithinBudget ==
    (\A n \in Completed : tokens[n] <= reservedFor[n]) => used + reserved <= TokenBudget

(* tree.go and budget.go: what is used stays within the budget, the shared *)
(* tracker counts what the nodes hold, and levels follow one another.      *)
TreeBudget == UsedWithinBudget /\ TrackerCovers /\ LevelByLevel
=============================================================================
