----------------------------- MODULE DeepProofs -----------------------------
(***************************************************************************)
(* The deep research side, for every value of the constants. The tree of   *)
(* sub-queries first: lemmas on what a sum over a finite set is, from the  *)
(* fold it is defined by, and on which node is whose parent; its invariant *)
(* says which levels exist, which nodes may still change, and what the     *)
(* tracker's totals are the sums of. The caps: the invariant ties the      *)
(* counters in Redis to the requests they stand for; expiry forgets a      *)
(* request only when it has left the window, because a counter is          *)
(* refreshed by each request it counts. Then the pre-screen's breaker, the *)
(* agents' pipeline, the tree's file, the report stream and the sidecars'  *)
(* clients, each with its own inductive invariant; and the clustering,     *)
(* whose union-find is shown to compute connected components: its trees    *)
(* follow a root function that halving keeps and union merges. Last the    *)
(* composition, whose steps are steps of one part and leave the other      *)
(* parts alone, and the types of all of them.                              *)
(***************************************************************************)
EXTENDS MCDeep, SubsequenceLemmas, FiniteSetTheorems, FunctionTheorems, SequenceTheorems, TLAPS

(* SumOver is a fold: one function over the subsets of S, whose value at a *)
(* set is one member's value and the value at the rest.                    *)
Pick(s) == CHOOSE x \in s : TRUE
SumStep(f, g, s) == IF s = {} THEN 0 ELSE f[Pick(s)] + g[s \ {Pick(s)}]
IsSum(f, S, g) == g = [s \in SUBSET S |-> SumStep(f, g, s)]

(* The sum is the value of that function, chosen by its equation.          *)
LEMMA SumIs == \A f, S : SumOver(f, S) = (CHOOSE g : IsSum(f, S, g))[S]
BY DEF SumOver, FoldFunctionOnSet, MapThenFoldSet, IsSum, SumStep, Pick

(* The member a fold takes next is one.                                    *)
LEMMA PickIn == \A s : s # {} => Pick(s) \in s
BY DEF Pick

(* Such a function exists for a finite set: the numbers n such that every  *)
(* subset with n members has one are all the numbers.                      *)
LEMMA SumExists ==
    ASSUME NEW S, IsFiniteSet(S), NEW f
    PROVE  \E g : IsSum(f, S, g)
<1> DEFINE UpTo(k, g) == \A s \in SUBSET S : Cardinality(s) <= k => g[s] = SumStep(f, g, s)
           T == {k \in Nat : \E g : UpTo(k, g)}
<1>0. \A s \in SUBSET S : IsFiniteSet(s) /\ Cardinality(s) \in Nat /\ Cardinality(s) <= Cardinality(S)
  BY FS_Subset, FS_CardinalityType
<1>1. \A s \in SUBSET S : s # {} => /\ s \ {Pick(s)} \in SUBSET S
                                    /\ Cardinality(s \ {Pick(s)}) = Cardinality(s) - 1
  BY <1>0, PickIn, FS_RemoveElement
<1>2. \A s \in SUBSET S : Cardinality(s) = 0 => s = {}
  BY <1>0, FS_EmptySet
<1>3. 0 \in T
  <2>1. UpTo(0, [s \in SUBSET S |-> 0])
    BY <1>0, <1>2 DEF SumStep
  <2> QED
    BY <2>1
<1>4. ASSUME NEW k \in Nat, k \in T PROVE k + 1 \in T
  <2>1. PICK g : UpTo(k, g)
    BY <1>4
  <2> DEFINE h == [s \in SUBSET S |-> SumStep(f, g, s)]
  <2>2. ASSUME NEW s \in SUBSET S, Cardinality(s) <= k + 1 PROVE h[s] = SumStep(f, h, s)
    <3>1. CASE s = {}
      BY <3>1 DEF SumStep
    <3>2. CASE s # {}
      <4> DEFINE t == s \ {Pick(s)}
      <4>1. t \in SUBSET S /\ Cardinality(t) <= k
        BY <1>0, <1>1, <2>2, <3>2
      <4>2. g[t] = SumStep(f, g, t)
        BY <2>1, <4>1
      <4>3. h[t] = g[t]
        BY <4>1, <4>2
      <4> QED
        BY <3>2, <4>3 DEF SumStep
    <3> QED
      BY <3>1, <3>2
  <2>3. UpTo(k + 1, h)
    <3> HIDE DEF h
    <3> QED BY <2>2
  <2>4. \E i : UpTo(k + 1, i)
    <3> HIDE DEF UpTo, h
    <3> WITNESS h
    <3> QED
      BY <2>3
  <2> HIDE DEF UpTo
  <2> QED
    BY <2>4
<1>5. Cardinality(S) \in T
  <2>1. Cardinality(S) \in Nat
    BY <1>0
  <2> HIDE DEF T
  <2> QED
    BY <1>3, <1>4, <2>1, EveryNumber
<1>6. PICK g : \A s \in SUBSET S : g[s] = SumStep(f, g, s)
  BY <1>0, <1>5
<1> DEFINE h == [s \in SUBSET S |-> g[s]]
<1>7. \A s \in SUBSET S : SumStep(f, h, s) = SumStep(f, g, s)
  BY <1>1 DEF SumStep
<1>8. IsSum(f, S, h)
  BY <1>6, <1>7 DEF IsSum
<1> QED
  BY <1>8

(* The sums over two sets agree wherever both are defined.                 *)
LEMMA SumUnique ==
    ASSUME NEW S, NEW U, IsFiniteSet(S), IsFiniteSet(U), NEW f, NEW e, NEW g, NEW h,
           IsSum(f, S, g), IsSum(e, U, h)
    PROVE  \A s \in SUBSET (S \cap U) : (\A x \in s : f[x] = e[x]) => g[s] = h[s]
<1> DEFINE P(s) == (\A x \in s : f[x] = e[x]) => g[s] = h[s]
           T == {k \in Nat : \A s \in SUBSET (S \cap U) : Cardinality(s) <= k => P(s)}
<1>0. \A s \in SUBSET (S \cap U) : IsFiniteSet(s) /\ Cardinality(s) \in Nat
  BY FS_Subset, FS_CardinalityType
<1>1. \A s \in SUBSET (S \cap U) : s # {} => /\ s \ {Pick(s)} \in SUBSET (S \cap U)
                                             /\ Cardinality(s \ {Pick(s)}) = Cardinality(s) - 1
  BY <1>0, PickIn, FS_RemoveElement
<1>2. \A s \in SUBSET (S \cap U) : g[s] = SumStep(f, g, s) /\ h[s] = SumStep(e, h, s)
  BY DEF IsSum
<1>3. 0 \in T
  <2>1. \A s \in SUBSET (S \cap U) : Cardinality(s) <= 0 => s = {}
    BY <1>0, FS_EmptySet
  <2> QED
    BY <1>2, <2>1 DEF SumStep
<1>4. ASSUME NEW k \in Nat, k \in T PROVE k + 1 \in T
  <2>1. ASSUME NEW s \in SUBSET (S \cap U), Cardinality(s) <= k + 1, \A x \in s : f[x] = e[x]
        PROVE  g[s] = h[s]
    <3>1. CASE s = {}
      BY <1>2, <3>1 DEF SumStep
    <3>2. CASE s # {}
      <4>1. g[s \ {Pick(s)}] = h[s \ {Pick(s)}]
        BY <1>0, <1>1, <1>4, <2>1, <3>2
      <4> QED
        BY <1>2, <2>1, <3>2, <4>1, PickIn DEF SumStep
    <3> QED
      BY <3>1, <3>2
  <2> QED
    BY <2>1
<1>5. Nat \subseteq T
  <2> HIDE DEF T
  <2> QED
    BY <1>3, <1>4, EveryNumber
<1> QED
  BY <1>0, <1>5

(* So the sum has the value that the equation gives it.                    *)
LEMMA SumOverIs ==
    ASSUME NEW S, IsFiniteSet(S), NEW f
    PROVE  \E g : IsSum(f, S, g) /\ SumOver(f, S) = g[S]
BY SumExists, SumIs

(* The sum depends on the values at the members only.                      *)
LEMMA SumSame ==
    ASSUME NEW S, IsFiniteSet(S), NEW f, NEW e, \A x \in S : f[x] = e[x]
    PROVE  SumOver(f, S) = SumOver(e, S)
<1>1. PICK g : IsSum(f, S, g) /\ SumOver(f, S) = g[S]
  BY SumOverIs
<1>2. PICK h : IsSum(e, S, h) /\ SumOver(e, S) = h[S]
  BY SumOverIs
<1>3. S \in SUBSET (S \cap S)
  OBVIOUS
<1> QED
  BY <1>1, <1>2, <1>3, SumUnique

(* The order in which the members are taken does not matter.               *)
Adds(f, S, g) == \A s \in SUBSET S : g[s] \in Nat /\ \A x \in s : g[s] = f[x] + g[s \ {x}]
(* Such a sum adds each element's term, whichever is taken last.           *)
LEMMA SumOrder ==
    ASSUME NEW S, IsFiniteSet(S), NEW f, \A x \in S : f[x] \in Nat, NEW g, IsSum(f, S, g)
    PROVE  Adds(f, S, g)
<1> DEFINE P(s) == g[s] \in Nat /\ \A x \in s : g[s] = f[x] + g[s \ {x}]
           T == {k \in Nat : \A s \in SUBSET S : Cardinality(s) <= k => P(s)}
<1>0. \A s \in SUBSET S : IsFiniteSet(s) /\ Cardinality(s) \in Nat
  BY FS_Subset, FS_CardinalityType
<1>1. \A s \in SUBSET S : \A x \in s : s \ {x} \in SUBSET S /\ Cardinality(s \ {x}) = Cardinality(s) - 1
  BY <1>0, FS_RemoveElement
<1>2. \A s \in SUBSET S : g[s] = SumStep(f, g, s)
  BY DEF IsSum
<1>3. 0 \in T
  <2>1. \A s \in SUBSET S : Cardinality(s) <= 0 => s = {}
    BY <1>0, FS_EmptySet
  <2>2. g[{}] = 0
    BY <1>2 DEF SumStep
  <2>3. P({})
    BY <2>2
  <2> HIDE DEF P
  <2> QED
    BY <2>1, <2>3
<1>4. ASSUME NEW k \in Nat, k \in T PROVE k + 1 \in T
  <2>1. ASSUME NEW s \in SUBSET S, Cardinality(s) <= k + 1 PROVE P(s)
    <3>1. CASE s = {}
      BY <1>2, <3>1 DEF SumStep
    <3>2. CASE s # {}
      <4> DEFINE y == Pick(s)
      <4>0. y \in s
        BY <3>2, PickIn
      <4> HIDE DEF y
      <4>1. g[s] = f[y] + g[s \ {y}]
        BY <1>2, <3>2 DEF SumStep, y
      <4>2. \A x \in s : P(s \ {x})
        <5>1. \A x \in s : s \ {x} \in SUBSET S /\ Cardinality(s \ {x}) <= k
          BY <1>0, <1>1, <2>1
        <5> HIDE DEF P
        <5> QED
          BY <1>4, <5>1
      <4>3. g[s] \in Nat
        <5>1. f[y] \in Nat /\ g[s \ {y}] \in Nat
          BY <4>0, <4>2
        <5> QED
          BY <4>1, <5>1
      <4>4. ASSUME NEW x \in s, x # y PROVE g[s] = f[x] + g[s \ {x}]
        <5>1. g[s \ {y}] = f[x] + g[(s \ {y}) \ {x}]
          BY <4>0, <4>2, <4>4
        <5>2. g[s \ {x}] = f[y] + g[(s \ {x}) \ {y}]
          BY <4>0, <4>2, <4>4
        <5>3. (s \ {y}) \ {x} = (s \ {x}) \ {y}
          OBVIOUS
        <5>4. f[x] \in Nat /\ f[y] \in Nat /\ g[s \ {x}] \in Nat /\ g[s \ {y}] \in Nat
          BY <4>0, <4>2
        <5>5. g[(s \ {x}) \ {y}] \in Nat
          <6>1. y \in s \ {x} /\ s \ {x} \in SUBSET S /\ Cardinality(s \ {x}) <= k
            BY <1>0, <1>1, <2>1, <4>0, <4>4
          <6>2. (s \ {x}) \ {y} \in SUBSET S /\ Cardinality((s \ {x}) \ {y}) <= k
            BY <1>0, <1>1, <6>1
          <6> HIDE DEF P
          <6>3. P((s \ {x}) \ {y})
            BY <1>4, <6>2
          <6> QED
            BY <6>3 DEF P
        <5> QED
          BY <4>1, <5>1, <5>2, <5>3, <5>4, <5>5
      <4> QED
        BY <4>1, <4>3, <4>4
    <3> QED
      BY <3>1, <3>2
  <2> HIDE DEF P
  <2> QED
    BY <2>1
<1>5. Nat \subseteq T
  <2> HIDE DEF T
  <2> QED
    BY <1>3, <1>4, EveryNumber
<1> QED
  <2>1. ASSUME NEW s \in SUBSET S PROVE P(s)
    <3>1. Cardinality(s) \in T
      BY <1>0, <1>5
    <3> HIDE DEF P
    <3> QED
      BY <1>0, <3>1
  <2> QED
    BY <2>1 DEF Adds

(* What the proofs about the tracker use of sums.                          *)
LEMMA SumSplit ==
    ASSUME NEW S, IsFiniteSet(S), NEW f, \A x \in S : f[x] \in Nat
    PROVE  /\ SumOver(f, S) \in Nat
           /\ \A x \in S : SumOver(f, S) = f[x] + SumOver(f, S \ {x})
           /\ S = {} => SumOver(f, S) = 0
<1>1. PICK g : IsSum(f, S, g) /\ SumOver(f, S) = g[S]
  BY SumOverIs
<1>2. g[S] \in Nat /\ \A x \in S : g[S] = f[x] + g[S \ {x}]
  <2>1. Adds(f, S, g)
    BY <1>1, SumOrder
  <2> QED
    BY <2>1 DEF Adds
<1>3. ASSUME NEW x \in S PROVE SumOver(f, S \ {x}) = g[S \ {x}]
  <2>1. IsFiniteSet(S \ {x}) /\ S \ {x} \in SUBSET (S \cap (S \ {x}))
    BY FS_RemoveElement
  <2>2. PICK h : IsSum(f, S \ {x}, h) /\ SumOver(f, S \ {x}) = h[S \ {x}]
    BY <2>1, SumOverIs
  <2> QED
    BY <1>1, <2>1, <2>2, SumUnique
<1>4. S = {} => g[S] = 0
  BY <1>1 DEF IsSum, SumStep
<1> QED
  BY <1>1, <1>2, <1>3, <1>4

(* A sum of zeros is zero.                                                 *)
LEMMA ZeroSum ==
    ASSUME NEW S, IsFiniteSet(S), NEW f, \A x \in S : f[x] = 0
    PROVE  SumOver(f, S) = 0
<1> DEFINE T == {k \in Nat : \A s \in SUBSET S : Cardinality(s) <= k => SumOver(f, s) = 0}
<1>0. \A s \in SUBSET S : IsFiniteSet(s) /\ Cardinality(s) \in Nat /\ (\A x \in s : f[x] \in Nat)
  BY FS_Subset, FS_CardinalityType
<1>1. ASSUME NEW s \in SUBSET S, s = {} PROVE SumOver(f, s) = 0
  BY <1>0, <1>1, SumSplit
<1>2. 0 \in T
  BY <1>0, <1>1, FS_EmptySet
<1>3. ASSUME NEW k \in Nat, k \in T PROVE k + 1 \in T
  <2>1. ASSUME NEW s \in SUBSET S, Cardinality(s) <= k + 1, NEW x \in s PROVE SumOver(f, s) = 0
    <3>1. SumOver(f, s) = f[x] + SumOver(f, s \ {x})
      BY <1>0, SumSplit
    <3>2. s \ {x} \in SUBSET S /\ Cardinality(s \ {x}) <= k
      BY <1>0, <2>1, FS_RemoveElement
    <3> QED
      BY <1>3, <3>1, <3>2
  <2> QED
    BY <1>1, <2>1
<1>4. Cardinality(S) \in T
  <2>1. Cardinality(S) \in Nat
    BY FS_CardinalityType
  <2> HIDE DEF T
  <2> QED
    BY <1>2, <1>3, <2>1, EveryNumber
<1> QED
  BY <1>0, <1>4

-----------------------------------------------------------------------------
(* Nodes are paths: a child's path is its parent's with one index more.    *)
LEMMA NodeIsPath ==
    \A n : n \in Nodes <=> n \in Seq(1..MaxChildren) /\ Len(n) <= Depth
<1>1. ASSUME NEW n \in Nodes PROVE n \in Seq(1..MaxChildren) /\ Len(n) <= Depth
  <2>1. PICK d \in 0..Depth : n \in [1..d -> 1..MaxChildren]
    BY DEF Nodes
  <2>2. d \in Nat
    BY <2>1, TreeAssumption
  <2>3. n \in Seq(1..MaxChildren)
    BY <2>1, <2>2, SeqDef
  <2>4. Len(n) = d
    BY <2>1, <2>2, <2>3, LenProperties
  <2> QED
    BY <2>1, <2>3, <2>4, TreeAssumption
<1>2. ASSUME NEW n \in Seq(1..MaxChildren), Len(n) <= Depth PROVE n \in Nodes
  <2>1. n \in [1..Len(n) -> 1..MaxChildren] /\ Len(n) \in 0..Depth
    BY <1>2, TreeAssumption
  <2> QED
    BY <2>1 DEF Nodes
<1> QED
  BY <1>1, <1>2

(* There are finitely many paths of bounded length.                        *)
LEMMA NodesFinite == IsFiniteSet(Nodes)
<1>1. ASSUME NEW d \in 0..Depth PROVE IsFiniteSet([1..d -> 1..MaxChildren])
  <2> DEFINE D == 1..d
             C == 1..MaxChildren
             graph == [f \in [D -> C] |-> {<<i, f[i]>> : i \in D}]
  <2>1. IsFiniteSet(D) /\ IsFiniteSet(C)
    BY FS_Interval, TreeAssumption
  <2>2. IsFiniteSet(SUBSET (D \X C))
    <3> HIDE DEF D, C
    <3> QED
      BY <2>1, FS_Product, FS_SUBSET
  <2>3. ASSUME NEW f \in [D -> C], NEW g \in [D -> C], graph[f] = graph[g] PROVE f = g
    <3>1. ASSUME NEW i \in D PROVE f[i] = g[i]
      <4>1. <<i, f[i]>> \in graph[g]
        BY <2>3
      <4> QED
        BY <4>1
    <3> QED
      BY <3>1
  <2>4. graph \in Injection([D -> C], SUBSET (D \X C))
    <3>1. graph \in [[D -> C] -> SUBSET (D \X C)]
      OBVIOUS
    <3> HIDE DEF graph, D, C
    <3> QED
      BY <2>3, <3>1 DEF Injection, IsInjective
  <2> HIDE DEF graph, D, C
  <2>5. IsFiniteSet([D -> C])
    BY <2>2, <2>4, FS_Injection
  <2> QED
    BY <2>5 DEF D, C
<1> DEFINE levels == {[1..d -> 1..MaxChildren] : d \in 0..Depth}
           level == [d \in 0..Depth |-> [1..d -> 1..MaxChildren]]
<1>2. level \in Surjection(0..Depth, levels)
  BY DEF Surjection
<1>3. IsFiniteSet(0..Depth)
  BY FS_Interval, TreeAssumption
<1>4. IsFiniteSet(levels)
  <2> HIDE DEF levels, level
  <2> QED
    BY <1>2, <1>3, FS_Surjection
<1>5. \A T \in levels : IsFiniteSet(T)
  BY <1>1
<1>6. Nodes = UNION levels
  BY DEF Nodes
<1> HIDE DEF levels
<1> QED
  BY <1>4, <1>5, <1>6, FS_UNION

(* A child is a node one level below its parent.                           *)
LEMMA ChildPath ==
    ASSUME NEW n \in Nodes, Len(n) < Depth, NEW k \in 0..MaxChildren, NEW c \in Children(n, k)
    PROVE  c \in Nodes /\ Len(c) = Len(n) + 1 /\ Parent(c) = n
<1>1. PICK i \in 1..k : c = Append(n, i)
  BY DEF Children
<1>2. n \in Seq(1..MaxChildren) /\ Len(n) \in Nat /\ i \in 1..MaxChildren
  BY NodeIsPath, TreeAssumption
<1>3. c \in Seq(1..MaxChildren) /\ Len(c) = Len(n) + 1
  BY <1>1, <1>2
<1>4. SubSeq(Append(n, i), 1, Len(n)) = n
  BY <1>2
<1>5. Parent(c) = n
  BY <1>1, <1>2, <1>3, <1>4 DEF Parent
<1> QED
  BY <1>3, <1>5, NodeIsPath, TreeAssumption

(* The root is the one node of length zero.                                *)
LEMMA RootPath == Root \in Nodes /\ Len(Root) = 0 /\ \A n \in Nodes : Len(n) = 0 => n = Root
<1>1. Root \in Seq(1..MaxChildren) /\ Len(Root) = 0
  BY DEF Root
<1>2. \A n \in Nodes : Len(n) = 0 => n = Root
  BY NodeIsPath, EmptySeq DEF Root
<1>3. 0 <= Depth
  BY TreeAssumption
<1>4. Root \in Nodes
  BY <1>1, <1>3, NodeIsPath
<1> QED
  BY <1>1, <1>2, <1>4

(* Every other node has a parent one level up.                             *)
LEMMA ParentPath == \A n \in Nodes : n # Root => Parent(n) \in Nodes /\ Len(Parent(n)) = Len(n) - 1
<1> SUFFICES ASSUME NEW n \in Nodes, n # Root
             PROVE  Parent(n) \in Nodes /\ Len(Parent(n)) = Len(n) - 1
  OBVIOUS
<1>1. n \in Seq(1..MaxChildren) /\ Len(n) \in Nat \ {0} /\ Len(n) <= Depth
  BY NodeIsPath, RootPath
<1>2. Parent(n) \in Seq(1..MaxChildren) /\ Len(Parent(n)) = Len(n) - 1
  <2> DEFINE C == 1..MaxChildren
             l == Len(n) - 1
  <2>0. n \in Seq(C) /\ l \in Nat
    BY <1>1
  <2>1. n \in [1..Len(n) -> C] /\ l \in Nat
    <3> HIDE DEF C
    <3> QED
      BY <2>0, LenProperties
  <2>2. \A i \in 1..l : n[i] \in C
    <3> HIDE DEF C
    <3> QED
      BY <1>1, <2>1
  <2> HIDE DEF C, l
  <2>3. SubSeq(n, 1, l) \in Seq(C) /\ Len(SubSeq(n, 1, l)) = IF 1 <= l THEN l - 1 + 1 ELSE 0
    BY <2>1, <2>2, SubSeqProperties
  <2>4. Len(SubSeq(n, 1, l)) = l
    BY <2>1, <2>3
  <2> QED
    BY <2>3, <2>4 DEF Parent, C, l
<1> QED
  BY <1>1, <1>2, NodeIsPath, TreeAssumption

-----------------------------------------------------------------------------
NodeStates == {"none", "pending", "expanding"} \cup Settled
Unsettled(n) == nodeState[n] \in {"pending", "expanding"}
Level == IF pc = "level" THEN depth + 1 ELSE depth

TreeTypes ==
    /\ pc \in {"root", "decompose", "level", "done", "failed"} /\ depth \in 0..Depth
    /\ frontier \subseteq Nodes /\ children \subseteq Nodes /\ visited \subseteq Nodes
    /\ nodeState \in [Nodes -> NodeStates]
    /\ tokens \in [Nodes -> Nat] /\ reservedFor \in [Nodes -> Nat]
    /\ used \in Nat /\ reserved \in Int /\ count \in Nat

(* Only the level being expanded holds unsettled nodes, deeper ones do not *)
(* exist yet, and its parents were complete and are not touched any more.  *)
TreeLevels ==
    /\ pc \in {"root", "failed"} => depth = 0 /\ children = {Root}
    /\ \A n \in Nodes : Len(n) > Level => nodeState[n] = "none"
    /\ \A n \in visited : Len(n) <= Level
    /\ \A n \in Nodes : Unsettled(n) => n \in children /\ pc \in {"root", "level"}
    /\ pc = "level" => depth < Depth /\ \A n \in children : Len(n) = depth + 1 /\ nodeState[Parent(n)] = "complete"
    /\ pc = "decompose" =>
          /\ depth < Depth
          /\ \A n \in frontier : Len(n) = depth /\ nodeState[n] = "complete"
          /\ \A c \in children :
                Len(c) = depth + 1 /\ nodeState[Parent(c)] = "complete" /\ Parent(c) \notin frontier

(* What the tracker holds of the nodes, and what the budget has left for   *)
(* the nodes in flight as long as no node used more than it had reserved.  *)
TreeSums ==
    /\ \A n \in Nodes : nodeState[n] \in {"none", "pending", "expanding"} => tokens[n] = 0
    /\ used = SumOver(tokens, Nodes)
    /\ reserved >= SumOver(reservedFor, InFlight)
    /\ (\A n \in Nodes : tokens[n] <= reservedFor[n]) =>
          used + SumOver(reservedFor, InFlight) <= TokenBudget
TreeInv == TreeTypes /\ TreeLevels /\ TreeSums

(* Run starts with the root pending and nothing reserved (tree.go).        *)
LEMMA TreeInitInv == TreeInit => TreeInv
<1> SUFFICES ASSUME TreeInit PROVE TreeInv
  OBVIOUS
<1>1. TreeTypes
  BY RootPath, TreeAssumption DEF TreeInit, TreeTypes, NodeStates
<1>2. \A n \in Nodes : Len(n) \in Nat
  BY NodeIsPath
<1>3. TreeLevels
  <2>1. \A n \in Nodes : Len(n) > 0 => nodeState[n] = "none"
    BY RootPath DEF TreeInit
  <2> QED
    BY <1>2, <2>1, RootPath DEF TreeInit, TreeLevels, Level, Unsettled
<1>4. TreeSums
  <2>1. SumOver(tokens, Nodes) = 0
    BY ZeroSum, NodesFinite DEF TreeInit
  <2>2. InFlight \subseteq Nodes /\ IsFiniteSet(InFlight)
    BY NodesFinite, FS_Subset DEF InFlight
  <2>3. \A n \in InFlight : reservedFor[n] = 0
    BY <2>2 DEF TreeInit
  <2>4. SumOver(reservedFor, InFlight) = 0
    BY <2>2, <2>3, ZeroSum
  <2> QED
    BY <2>1, <2>4, TreeAssumption DEF TreeInit, TreeSums
<1> QED
  BY <1>1, <1>3, <1>4 DEF TreeInv

(* A step that changes neither the tracker nor what nodes in flight hold.  *)
LEMMA SumsKept ==
    ASSUME TreeInv, UNCHANGED <<used, reserved, tokens, reservedFor>>,
           InFlight' = InFlight,
           \A n \in Nodes : nodeState'[n] \in {"none", "pending", "expanding"} => tokens[n] = 0
    PROVE  TreeSums'
<1>1. InFlight' = InFlight
  OBVIOUS
<1> HIDE DEF InFlight
<1> QED
  BY <1>1 DEF TreeInv, TreeSums

(* Nothing else is known or needed of the levels in an expansion's step.   *)
LEMMA LevelsKept ==
    ASSUME TreeTypes, TreeLevels, NEW n \in children, Unsettled(n), NEW s \in NodeStates,
           nodeState' = [nodeState EXCEPT ![n] = s], s # "none",
           UNCHANGED <<depth, frontier, children>>,
           visited' = visited \/ visited' = visited \cup {n},
           pc' = pc \/ (pc' = "failed" /\ n = Root /\ s \in Settled)
    PROVE  TreeLevels' /\ \A m \in Nodes : m # n => nodeState'[m] = nodeState[m]
<1>1. n \in Nodes /\ pc \in {"root", "level"} /\ Len(n) = Level /\ Level \in Nat
  BY RootPath DEF TreeTypes, TreeLevels, Level
<1>2. pc' = "failed" => pc = "root" /\ children = {Root} /\ depth = 0
  BY <1>1, RootPath DEF TreeLevels, TreeTypes, Level
<1>3. Level' = Level
  BY <1>1, <1>2 DEF Level
<1>4. \A m \in Nodes : m # n => nodeState'[m] = nodeState[m]
  BY DEF TreeTypes
<1>5. \A m \in Nodes : Len(m) > Level => m # n
  BY <1>1
<1>6. pc = "level" => \A m \in children : Parent(m) # n /\ Parent(m) \in Nodes
  BY <1>1, ParentPath, RootPath DEF TreeLevels, TreeTypes, Level
<1>7. pc' = "failed" => \A m \in Nodes : ~Unsettled(m)'
  BY <1>1, <1>2, <1>4 DEF TreeLevels, Unsettled, Settled, TreeTypes
<1> QED
  BY <1>1, <1>2, <1>3, <1>4, <1>5, <1>6, <1>7 DEF TreeLevels, Unsettled

(* What a node reserves is a number of tokens.                             *)
LEMMA EstimateNat == ASSUME TreeTypes, NEW n \in Nodes PROVE Estimate(n) \in Nat
<1>1. ASSUME n # Root PROVE (5 * tokens[Parent(n)] * Breadth) \div 4 \in Nat
  <2>1. tokens[Parent(n)] \in Nat /\ Breadth \in Nat
    BY <1>1, ParentPath, TreeAssumption DEF TreeTypes
  <2>2. 5 * tokens[Parent(n)] * Breadth \in Nat
    BY <2>1
  <2> QED
    BY <2>2
<1> QED
  BY <1>1, TreeAssumption DEF Estimate

(* A step that puts n among the nodes in flight, or takes it away.         *)
LEMMA InFlightFinite == IsFiniteSet(InFlight) /\ InFlight \subseteq Nodes
BY NodesFinite, FS_Subset DEF InFlight

(* ReserveForChild, of a node that fits the budget.                        *)
LEMMA StartSums ==
    ASSUME TreeInv, NEW n \in children, StartExpansion(n),
           \A m \in Nodes : m # n => nodeState'[m] = nodeState[m]
    PROVE  TreeSums'
<1> DEFINE e == Estimate(n)
           F == InFlight
<1>1. n \in Nodes /\ e \in Nat /\ nodeState[n] = "pending" /\ nodeState'[n] = "expanding"
  BY EstimateNat DEF TreeInv, TreeTypes, StartExpansion
<1>2. InFlight' = F \cup {n} /\ n \notin F /\ F \subseteq Nodes
  BY <1>1 DEF InFlight
<1>3. reservedFor'[n] = e /\ (\A m \in Nodes \ {n} : reservedFor'[m] = reservedFor[m])
      /\ reservedFor' \in [Nodes -> Nat] /\ reserved' = reserved + e
  BY <1>1 DEF TreeInv, TreeTypes, StartExpansion
<1>4. tokens' = tokens /\ used' = used /\ tokens[n] = 0
  BY <1>1 DEF TreeInv, TreeSums, StartExpansion
<1>5. e <= TokenBudget - used - reserved
  BY DEF StartExpansion, Affordable
<1>6. IsFiniteSet(F) /\ IsFiniteSet(F \cup {n})
  BY InFlightFinite, FS_AddElement
<1> HIDE DEF e, F
<1>7. SumOver(reservedFor', F \cup {n}) = e + SumOver(reservedFor, F)
  <2>1. SumOver(reservedFor', F \cup {n}) = reservedFor'[n] + SumOver(reservedFor', (F \cup {n}) \ {n})
    <3>1. \A x \in F \cup {n} : reservedFor'[x] \in Nat
      BY <1>1, <1>2, <1>3
    <3> QED
      BY <1>6, <3>1, SumSplit
  <2>2. (F \cup {n}) \ {n} = F
    BY <1>2
  <2>3. SumOver(reservedFor', F) = SumOver(reservedFor, F)
    <3>1. \A x \in F : reservedFor'[x] = reservedFor[x]
      BY <1>2, <1>3
    <3> QED
      BY <1>6, <3>1, SumSame
  <2> QED
    BY <1>3, <2>1, <2>2, <2>3
<1>8. SumOver(reservedFor, F) \in Nat
  <2>1. \A x \in F : reservedFor[x] \in Nat
    BY <1>2 DEF TreeInv, TreeTypes
  <2> QED
    BY <1>6, <2>1, SumSplit
<1>9. reserved >= SumOver(reservedFor, F)
  BY DEF TreeInv, TreeSums, F
<1>a. reserved' >= SumOver(reservedFor', InFlight')
  BY <1>1, <1>2, <1>3, <1>7, <1>8, <1>9 DEF TreeInv, TreeTypes
<1>b. used' + SumOver(reservedFor', InFlight') <= TokenBudget
  BY <1>1, <1>2, <1>4, <1>5, <1>7, <1>8, <1>9, TreeAssumption DEF TreeInv, TreeTypes
<1>c. \A m \in Nodes : nodeState'[m] \in {"none", "pending", "expanding"} => tokens'[m] = 0
  BY <1>1, <1>4 DEF TreeInv, TreeSums
<1>d. used' = SumOver(tokens', Nodes)
  BY <1>4 DEF TreeInv, TreeSums
<1> QED
  BY <1>a, <1>b, <1>c, <1>d DEF TreeSums

(* ReleaseOnComplete, of a success or with no tokens of a failure.         *)
LEMMA ReleaseSums ==
    ASSUME TreeInv, NEW n \in children, nodeState[n] = "expanding", NEW t \in Nat, Release(n, t),
           nodeState' \in [Nodes -> NodeStates], nodeState'[n] \in Settled,
           \A m \in Nodes : m # n => nodeState'[m] = nodeState[m],
           tokens' = [tokens EXCEPT ![n] = t], reservedFor' = reservedFor
    PROVE  TreeSums' /\ used' \in Nat /\ reserved' \in Int /\ count' \in Nat
<1> DEFINE F == InFlight
           r == reservedFor[n]
<1>1. n \in Nodes /\ r \in Nat /\ tokens[n] = 0 /\ tokens' \in [Nodes -> Nat] /\ tokens'[n] = t
  BY DEF TreeInv, TreeTypes, TreeSums
<1>2. InFlight' = F \ {n} /\ n \in F /\ F \subseteq Nodes
  BY <1>1 DEF InFlight, Settled
<1>3. used' = used + t /\ reserved' = (IF r > t THEN reserved - (r - t) ELSE reserved)
      /\ used \in Nat /\ reserved \in Int /\ count' \in Nat
  BY DEF TreeInv, TreeTypes, Release
<1>4. IsFiniteSet(F) /\ IsFiniteSet(F \ {n})
  BY InFlightFinite, FS_RemoveElement
<1> HIDE DEF F, r
<1>5. SumOver(reservedFor, F) = r + SumOver(reservedFor, F \ {n}) /\ SumOver(reservedFor, F \ {n}) \in Nat
  <2>1. \A x \in F : reservedFor[x] \in Nat
    BY <1>2 DEF TreeInv, TreeTypes
  <2> QED
    BY <1>2, <1>4, <2>1, SumSplit DEF r
<1>6. SumOver(tokens', Nodes) = t + SumOver(tokens, Nodes)
  <2>1. (\A x \in Nodes : tokens[x] \in Nat) /\ \A x \in Nodes : tokens'[x] \in Nat
    BY <1>1 DEF TreeInv, TreeTypes
  <2>2. SumOver(tokens', Nodes) = t + SumOver(tokens', Nodes \ {n})
    BY <1>1, <2>1, NodesFinite, SumSplit
  <2>3. SumOver(tokens, Nodes) = 0 + SumOver(tokens, Nodes \ {n}) /\ SumOver(tokens, Nodes) \in Nat
    BY <1>1, <2>1, NodesFinite, SumSplit
  <2>4. SumOver(tokens, Nodes \ {n}) \in Nat
    BY <2>1, NodesFinite, FS_RemoveElement, SumSplit
  <2>5. SumOver(tokens', Nodes \ {n}) = SumOver(tokens, Nodes \ {n})
    <3>1. \A x \in Nodes \ {n} : tokens'[x] = tokens[x]
      BY DEF TreeInv, TreeTypes
    <3>2. IsFiniteSet(Nodes \ {n})
      BY NodesFinite, FS_RemoveElement
    <3> QED
      BY <3>1, <3>2, SumSame
  <2> QED
    BY <2>2, <2>3, <2>4, <2>5
<1>7. reserved >= SumOver(reservedFor, F) /\ used = SumOver(tokens, Nodes)
  BY DEF TreeInv, TreeSums, F
<1>a. reserved' >= SumOver(reservedFor', InFlight') /\ reserved' \in Int
  BY <1>1, <1>2, <1>3, <1>5, <1>7
<1>b. used' = SumOver(tokens', Nodes) /\ used' \in Nat
  BY <1>3, <1>6, <1>7
<1>c. ASSUME \A m \in Nodes : tokens'[m] <= reservedFor'[m]
      PROVE  used' + SumOver(reservedFor', InFlight') <= TokenBudget
  <2>1. t <= r
    BY <1>1, <1>c DEF r
  <2>2. \A m \in Nodes : tokens[m] <= reservedFor[m]
    <3>1. \A m \in Nodes : m # n => tokens'[m] = tokens[m]
      BY DEF TreeInv, TreeTypes
    <3> QED
      BY <1>1, <1>c, <3>1 DEF TreeInv, TreeTypes
  <2>3. used + SumOver(reservedFor, F) <= TokenBudget
    BY <2>2 DEF TreeInv, TreeSums, F
  <2> QED
    BY <1>1, <1>2, <1>3, <1>5, <2>1, <2>3, TreeAssumption
<1>d. \A m \in Nodes : nodeState'[m] \in {"none", "pending", "expanding"} => tokens'[m] = 0
  <2>1. \A m \in Nodes : m # n => tokens'[m] = tokens[m]
    BY DEF TreeInv, TreeTypes
  <2> QED
    BY <2>1 DEF TreeInv, TreeSums, Settled
<1> QED
  BY <1>3, <1>a, <1>b, <1>c, <1>d DEF TreeSums

(* One node of the level: it starts, or its agent has ended.               *)
LEMMA ExpandInv ==
    ASSUME TreeInv, NEW n \in children, Expand(n)
    PROVE  TreeInv'
<1>0. n \in Nodes
  BY DEF TreeInv, TreeTypes
<1>1. CASE StartExpansion(n)
  <2>1. TreeLevels' /\ \A m \in Nodes : m # n => nodeState'[m] = nodeState[m]
    <3>1. "expanding" \in NodeStates /\ "expanding" # "none" /\ Unsettled(n)
      BY <1>1 DEF NodeStates, StartExpansion, Unsettled
    <3> QED
      BY <1>1, <3>1, LevelsKept DEF TreeInv, StartExpansion
  <2>2. TreeSums'
    BY <1>1, <2>1, StartSums
  <2>3. TreeTypes'
    BY <1>0, <1>1, EstimateNat DEF TreeInv, TreeTypes, StartExpansion, NodeStates
  <2> QED
    BY <2>1, <2>2, <2>3 DEF TreeInv
<1>2. CASE ExceedBudget(n)
  <2>1. TreeLevels' /\ \A m \in Nodes : m # n => nodeState'[m] = nodeState[m]
    <3>1. "budget_exceeded" \in NodeStates /\ "budget_exceeded" # "none" /\ Unsettled(n)
      BY <1>2 DEF NodeStates, Settled, ExceedBudget, Unsettled
    <3> QED
      BY <1>2, <3>1, LevelsKept DEF TreeInv, ExceedBudget
  <2>2. nodeState'[n] = "budget_exceeded" /\ nodeState[n] = "pending"
    BY <1>0, <1>2 DEF TreeInv, TreeTypes, ExceedBudget
  <2>3. InFlight' = InFlight
    BY <2>1, <2>2 DEF InFlight
  <2>4. TreeSums'
    <3>1. \A m \in Nodes : nodeState'[m] \in {"none", "pending", "expanding"} => tokens[m] = 0
      BY <2>1, <2>2 DEF TreeInv, TreeSums
    <3> QED
      BY <1>2, <2>3, <3>1, SumsKept DEF ExceedBudget, tracker
  <2>5. TreeTypes'
    BY <1>0, <1>2 DEF TreeInv, TreeTypes, ExceedBudget, NodeStates, Settled, tracker
  <2> QED
    BY <2>1, <2>4, <2>5 DEF TreeInv
<1>3. CASE Fail(n)
  <2>0. nodeState' = [nodeState EXCEPT ![n] = "failed"] /\ nodeState[n] = "expanding"
        /\ "failed" \in Settled /\ "failed" \in NodeStates
    BY <1>3 DEF Fail, Settled, NodeStates
  <2>1. TreeLevels' /\ \A m \in Nodes : m # n => nodeState'[m] = nodeState[m]
    <3>1. Unsettled(n) /\ (pc' = pc \/ (pc' = "failed" /\ n = Root))
      BY <1>3, <2>0 DEF Unsettled, Fail
    <3>2. visited' = visited \cup {n} /\ UNCHANGED <<depth, frontier, children>>
      BY <1>3 DEF Fail
    <3> QED
      BY <2>0, <3>1, <3>2, LevelsKept DEF TreeInv
  <2>2. TreeSums' /\ used' \in Nat /\ reserved' \in Int /\ count' \in Nat
    <3>1. tokens' = [tokens EXCEPT ![n] = 0]
      BY <1>0, <1>3, <2>0 DEF Fail, TreeInv, TreeTypes, TreeSums
    <3>2. nodeState' \in [Nodes -> NodeStates] /\ nodeState'[n] \in Settled
      BY <1>0, <2>0 DEF TreeInv, TreeTypes
    <3>3. Release(n, 0) /\ reservedFor' = reservedFor
      BY <1>3 DEF Fail
    <3> QED
      BY <2>0, <2>1, <3>1, <3>2, <3>3, ReleaseSums
  <2>3. TreeTypes'
    BY <1>0, <1>3, <2>0, <2>2 DEF TreeInv, TreeTypes, Fail
  <2> QED
    BY <2>1, <2>2, <2>3 DEF TreeInv
<1>4. ASSUME NEW t \in Tokens, Complete(n, t) PROVE TreeInv'
  <2>0. /\ nodeState' = [nodeState EXCEPT ![n] = "complete"] /\ nodeState[n] = "expanding"
        /\ "complete" \in Settled /\ "complete" \in NodeStates /\ t \in Nat
    BY <1>4, TreeAssumption DEF Complete, Settled, NodeStates
  <2>1. TreeLevels' /\ \A m \in Nodes : m # n => nodeState'[m] = nodeState[m]
    <3>1. Unsettled(n)
      BY <2>0 DEF Unsettled
    <3>2. visited' = visited \cup {n} /\ UNCHANGED <<pc, depth, frontier, children>>
      BY <1>4 DEF Complete
    <3> QED
      BY <2>0, <3>1, <3>2, LevelsKept DEF TreeInv
  <2>2. TreeSums' /\ used' \in Nat /\ reserved' \in Int /\ count' \in Nat
    <3>1. tokens' = [tokens EXCEPT ![n] = t]
      BY <1>4 DEF Complete
    <3>2. nodeState' \in [Nodes -> NodeStates] /\ nodeState'[n] \in Settled
      BY <1>0, <2>0 DEF TreeInv, TreeTypes
    <3>3. Release(n, t) /\ reservedFor' = reservedFor
      BY <1>4 DEF Complete
    <3> QED
      BY <2>0, <2>1, <3>1, <3>2, <3>3, ReleaseSums
  <2>3. TreeTypes'
    BY <1>0, <1>4, <2>0, <2>2 DEF TreeInv, TreeTypes, Complete
  <2> QED
    BY <2>1, <2>2, <2>3 DEF TreeInv
<1> QED
  BY <1>1, <1>2, <1>3, <1>4 DEF Expand

(* The decomposer names the children of a completed node ...               *)
LEMMA DecomposeInv ==
    ASSUME TreeInv, NEW n \in frontier, NEW k \in 0..MaxChildren, Decompose(n, k)
    PROVE  TreeInv'
<1>1. /\ n \in Nodes /\ Len(n) = depth /\ depth < Depth /\ nodeState[n] = "complete"
      /\ pc = "decompose" /\ pc' = pc
  BY DEF Decompose, TreeInv, TreeTypes, TreeLevels
<1>2. \A c \in Children(n, k) : c \in Nodes /\ Len(c) = depth + 1 /\ Parent(c) = n
  BY <1>1, ChildPath
<1>3. TreeTypes'
  BY <1>1, <1>2 DEF Decompose, TreeInv, TreeTypes, node, tracker
<1>4. TreeLevels'
  <2>1. frontier' = frontier \ {n} /\ children' = children \cup Children(n, k)
        /\ UNCHANGED <<pc, depth, nodeState, visited>>
    BY DEF Decompose, node
  <2>2. \A c \in children' :
          Len(c) = depth + 1 /\ nodeState[Parent(c)] = "complete" /\ Parent(c) \notin frontier'
    BY <1>1, <1>2, <2>1 DEF TreeInv, TreeLevels
  <2> QED
    BY <1>1, <2>1, <2>2 DEF TreeInv, TreeLevels, Level, Unsettled
<1>5. TreeSums'
  <2>1. InFlight' = InFlight
    BY DEF Decompose, node, InFlight
  <2> QED
    BY <2>1, SumsKept DEF Decompose, node, tracker, TreeInv, TreeSums
<1> QED
  BY <1>3, <1>4, <1>5 DEF TreeInv

(* ... or fails, and the node with it.                                     *)
LEMMA DecomposeFailsInv ==
    ASSUME TreeInv, NEW n \in frontier, DecomposeFails(n)
    PROVE  TreeInv'
<1>1. /\ n \in Nodes /\ Len(n) = depth /\ nodeState[n] = "complete" /\ depth \in Nat
      /\ pc = "decompose" /\ frontier' = frontier \ {n}
      /\ nodeState' = [nodeState EXCEPT ![n] = "failed"]
      /\ UNCHANGED <<pc, depth, children, visited, tokens, reservedFor, used, reserved, count>>
  BY DEF DecomposeFails, TreeInv, TreeTypes, TreeLevels, tracker
<1>2. nodeState'[n] = "failed" /\ \A m \in Nodes : m # n => nodeState'[m] = nodeState[m]
  BY <1>1 DEF TreeInv, TreeTypes
<1>3. TreeTypes'
  BY <1>1 DEF TreeInv, TreeTypes, NodeStates, Settled
<1>4. TreeLevels'
  <2>1. \A c \in children : Parent(c) # n /\ Parent(c) \in Nodes
    BY <1>1, ParentPath, RootPath DEF TreeInv, TreeTypes, TreeLevels
  <2>2. Level' = Level /\ Level = depth
    BY <1>1 DEF Level
  <2>3. \A m \in Nodes : Unsettled(m)' => Unsettled(m)
    BY <1>2 DEF Unsettled
  <2>4. \A m \in frontier' : nodeState'[m] = "complete"
    BY <1>1, <1>2 DEF TreeInv, TreeTypes, TreeLevels
  <2>5. \A m \in Nodes : Len(m) > Level' => nodeState'[m] = "none"
    BY <1>1, <1>2, <2>2 DEF TreeInv, TreeLevels
  <2> QED
    BY <1>1, <1>2, <2>1, <2>2, <2>3, <2>4, <2>5 DEF TreeInv, TreeLevels
<1>5. TreeSums'
  <2>1. InFlight' = InFlight
    BY <1>1, <1>2 DEF InFlight
  <2>2. \A m \in Nodes : nodeState'[m] \in {"none", "pending", "expanding"} => tokens[m] = 0
    BY <1>2 DEF TreeInv, TreeSums
  <2> QED
    BY <1>1, <2>1, <2>2, SumsKept
<1> QED
  BY <1>3, <1>4, <1>5 DEF TreeInv

(* The next level begins with every child pending.                         *)
LEMMA LaunchInv ==
    ASSUME TreeInv, LaunchLevel
    PROVE  TreeInv'
<1>1. /\ pc = "decompose" /\ depth \in Nat /\ depth < Depth
      /\ pc' = (IF children = {} THEN "done" ELSE "level")
      /\ nodeState' = [n \in Nodes |-> IF n \in children THEN "pending" ELSE nodeState[n]]
      /\ UNCHANGED <<depth, frontier, children, visited, tokens, reservedFor, used, reserved, count>>
  BY DEF LaunchLevel, TreeInv, TreeTypes, TreeLevels, tracker
<1>2. \A n \in children : n \in Nodes /\ Len(n) = depth + 1 /\ nodeState[n] = "none"
                           /\ Parent(n) \in Nodes /\ Parent(n) \notin children
                           /\ nodeState[Parent(n)] = "complete"
  <2>1. \A n \in children : n \in Nodes /\ Len(n) = depth + 1 /\ n # Root /\ nodeState[Parent(n)] = "complete"
    BY <1>1, RootPath DEF TreeInv, TreeTypes, TreeLevels
  <2>2. \A n \in children : Parent(n) \in Nodes /\ Len(Parent(n)) = depth
    BY <1>1, <2>1, ParentPath
  <2>3. \A n \in children : nodeState[n] = "none"
    BY <1>1, <2>1 DEF TreeInv, TreeLevels, Level
  <2>4. \A n \in children : Parent(n) \notin children
    BY <1>1, <2>1, <2>2
  <2> QED
    BY <2>1, <2>2, <2>3, <2>4
<1>3. TreeTypes'
  BY <1>1 DEF TreeInv, TreeTypes, NodeStates
<1>4. TreeLevels'
  <2>1. \A n \in Nodes : ~Unsettled(n)
    BY <1>1 DEF TreeInv, TreeLevels
  <2>2. \A n \in Nodes : Unsettled(n)' => n \in children /\ pc' = "level"
    BY <1>1, <2>1 DEF Unsettled
  <2>3. \A n \in Nodes : Len(n) > Level' => nodeState'[n] = "none"
    <3>1. \A n \in Nodes : Len(n) \in Nat
      BY NodeIsPath
    <3>2. CASE children = {}
      BY <1>1, <3>2 DEF TreeInv, TreeLevels, Level
    <3>3. CASE children # {}
      BY <1>1, <1>2, <3>1, <3>3 DEF TreeInv, TreeLevels, Level
    <3> QED
      BY <3>2, <3>3
  <2>4. \A n \in visited' : Len(n) <= Level'
    <3>1. \A n \in visited : Len(n) \in Nat /\ Len(n) <= depth
      BY <1>1, NodeIsPath DEF TreeInv, TreeTypes, TreeLevels, Level
    <3> QED
      BY <1>1, <3>1 DEF Level
  <2>5. \A n \in children' : Len(n) = depth' + 1 /\ nodeState'[Parent(n)] = "complete"
    BY <1>1, <1>2
  <2> QED
    BY <1>1, <2>2, <2>3, <2>4, <2>5 DEF TreeLevels
<1>5. TreeSums'
  <2>1. InFlight = {} /\ InFlight' = {}
    BY <1>1, <1>2 DEF InFlight, TreeInv, TreeLevels, Unsettled
  <2>2. \A m \in Nodes : nodeState'[m] \in {"none", "pending", "expanding"} => tokens[m] = 0
    BY <1>1, <1>2 DEF TreeInv, TreeSums
  <2> QED
    BY <1>1, <2>1, <2>2, SumsKept
<1> QED
  BY <1>3, <1>4, <1>5 DEF TreeInv

(* The level has joined: its completed nodes are the next to decompose.    *)
LEMMA JoinInv ==
    ASSUME TreeInv, JoinLevel
    PROVE  TreeInv'
<1> DEFINE d == IF pc = "root" THEN 0 ELSE depth + 1
<1>1. /\ pc \in {"root", "level"} /\ (\A n \in children : nodeState[n] \in Settled) /\ Advance(d)
      /\ UNCHANGED <<nodeState, visited, tokens, reservedFor, used, reserved, count>>
  BY DEF JoinLevel, Joined, node, tracker
<1>2. d = Level /\ depth \in Nat
  BY <1>1 DEF Level, TreeInv, TreeTypes, TreeLevels
<1>3. d \in 0..Depth
  <2>1. CASE pc = "root"
    BY <2>1, TreeAssumption
  <2>2. CASE pc = "level"
    BY <2>2, TreeAssumption DEF TreeInv, TreeTypes, TreeLevels
  <2> QED
    BY <1>1, <2>1, <2>2
<1> HIDE DEF d
<1>4. /\ depth' = d /\ children' = {} /\ frontier' = {n \in visited : Len(n) = d /\ nodeState[n] = "complete"}
      /\ pc' = (IF d < Depth /\ frontier' # {} THEN "decompose" ELSE "done")
  BY <1>1 DEF Advance
<1>5. TreeTypes'
  BY <1>1, <1>3, <1>4 DEF TreeInv, TreeTypes
<1>6. TreeLevels'
  <2>1. \A n \in Nodes : ~Unsettled(n)
    BY <1>1 DEF TreeInv, TreeLevels, Unsettled, Settled
  <2>2. Level' = Level
    BY <1>2, <1>4 DEF Level
  <2> QED
    BY <1>1, <1>4, <2>1, <2>2 DEF TreeInv, TreeLevels, Unsettled
<1>7. TreeSums'
  <2>1. InFlight' = InFlight
    BY <1>1 DEF InFlight
  <2> QED
    BY <1>1, <2>1, SumsKept DEF TreeInv, TreeSums
<1> QED
  BY <1>5, <1>6, <1>7 DEF TreeInv

(* Every step of the tree keeps the invariant.                             *)
LEMMA TreeStep == TreeInv /\ [TreeNext]_treeVars => TreeInv'
<1> SUFFICES ASSUME TreeInv, [TreeNext]_treeVars PROVE TreeInv'
  OBVIOUS
<1>1. ASSUME NEW n \in children, Expand(n) PROVE TreeInv'
  BY <1>1, ExpandInv
<1>2. CASE DecomposeAny
  BY <1>2, DecomposeInv, DecomposeFailsInv DEF DecomposeAny
<1>3. CASE LaunchLevel
  BY <1>3, LaunchInv
<1>4. CASE JoinLevel
  BY <1>4, JoinInv
<1>5. CASE UNCHANGED treeVars
  <2>1. UNCHANGED <<pc, depth, frontier, children, nodeState, visited, tokens, reservedFor, used, reserved, count>>
    BY <1>5 DEF treeVars, node, tracker
  <2>2. InFlight' = InFlight
    BY <2>1 DEF InFlight
  <2>3. TreeSums'
    BY <2>1, <2>2, SumsKept DEF TreeInv, TreeSums
  <2>4. TreeTypes' /\ TreeLevels'
    BY <2>1 DEF TreeInv, TreeTypes, TreeLevels, Level, Unsettled
  <2> QED
    BY <2>3, <2>4 DEF TreeInv
<1> QED
  BY <1>1, <1>2, <1>3, <1>4, <1>5 DEF TreeNext

(* The invariant says what the budget promises.                            *)
LEMMA TreeInvBudget == TreeInv => TreeBudget
<1> SUFFICES ASSUME TreeInv PROVE TreeBudget
  OBVIOUS
<1>1. UsedWithinBudget
  <2> SUFFICES ASSUME \A n \in Completed : tokens[n] <= reservedFor[n] PROVE used <= TokenBudget
    BY DEF UsedWithinBudget
  <2>1. \A n \in Nodes : tokens[n] <= reservedFor[n]
    BY DEF TreeInv, TreeTypes, Completed
  <2>2. SumOver(reservedFor, InFlight) \in Nat
    <3>1. \A n \in InFlight : reservedFor[n] \in Nat
      BY InFlightFinite DEF TreeInv, TreeTypes
    <3> QED
      BY <3>1, InFlightFinite, SumSplit
  <2> QED
    BY <2>1, <2>2, TreeAssumption DEF TreeInv, TreeTypes, TreeSums
<1>2. TrackerCovers
  BY DEF TreeInv, TreeSums, TrackerCovers
<1>3. LevelByLevel
  <2>1. ASSUME NEW n \in Nodes, nodeState[n] \in {"pending", "expanding"}
        PROVE  (n = Root \/ nodeState[Parent(n)] = "complete") /\ \A m \in visited : Len(m) <= Len(n)
    <3>1. n \in children /\ pc \in {"root", "level"}
      BY <2>1 DEF TreeInv, TreeLevels, Unsettled
    <3>2. Len(n) = Level
      BY <3>1, RootPath DEF TreeInv, TreeLevels, Level
    <3> QED
      BY <3>1, <3>2 DEF TreeInv, TreeLevels
  <2>2. pc \in {"done", "failed"} => \A n \in Nodes : nodeState[n] \in Settled \cup {"none"}
    BY DEF TreeInv, TreeTypes, TreeLevels, Unsettled, NodeStates
  <2> QED
    BY <2>1, <2>2 DEF LevelByLevel
<1> QED
  BY <1>1, <1>2, <1>3 DEF TreeBudget

(* TreeBudget, NFR-DEEP3-003 (tree.go, budget.go): as long as no node uses *)
(* more than it reserved, the tokens used stay within the budget; what the *)
(* tracker holds reserved covers the nodes in flight, and what it counts   *)
(* as used is what the nodes used; a level starts when its parents have    *)
(* completed and ends with every node of it settled.                       *)
THEOREM BudgetHeld == TreeSpec => []TreeBudget
BY TreeInitInv, TreeStep, TreeInvBudget, PTL DEF TreeSpec

-----------------------------------------------------------------------------

(* evaluate_cap, REQ-DEEP4-009: what is charged are keys of the request,   *)
(* and an admitted request is charged to all of them.                      *)
LEMMA ChargedKeys ==
    ASSUME NEW r \in Requests
    PROVE  /\ Charged(r) \subseteq KeysOf(r)
           /\ KeysOf(r) \subseteq Keys
           /\ Admits(r) => Charged(r) = KeysOf(r)
BY CostGuardAssumption DEF CostGuardAssumption, Charged, KeysOf, Keys, Admits, UserCapped

(* A key is charged only below its limits (cap_check.lua:23 and :34).      *)
LEMMA ChargedBelow ==
    ASSUME NEW r \in Requests, NEW k \in Charged(r)
    PROVE  /\ k \in Tenants => ~Exceeds(k, TenantLimit)
           /\ k \in Users => ~Exceeds(k, UserLimit)
BY CostGuardAssumption
   DEF CostGuardAssumption, Charged, Keys, TenantExceeded, UserExceeded, UserCapped

(* More requests cost more.                                                *)
LEMMA MultMonotone ==
    ASSUME NEW m \in Nat, NEW n \in Nat, NEW c \in Nat, m <= n
    PROVE  m * c <= n * c
OBVIOUS

(* At first nothing is counted and nobody is admitted.                     *)
LEMMA InitInv == Init => IInv
<1> SUFFICES ASSUME Init PROVE IInv
    OBVIOUS
<1>1. TypeOK
    BY CostGuardAssumption DEF Init, TypeOK, Zero, CostGuardAssumption
<1>2. CountersExact
    BY CostGuardAssumption, FS_EmptySet DEF Init, CountersExact, Zero, CostGuardAssumption
<1>3. RecentCounted /\ CountedEvaluated
    BY DEF Init, RecentCounted, CountedEvaluated, Recent, Admitted
<1>4. CountersBounded
    BY CostGuardAssumption
       DEF Init, CountersBounded, Bounded, Zero, CostGuardAssumption, Limits, Keys
<1> QED BY <1>1, <1>2, <1>3, <1>4 DEF IInv

(* An evaluation, the only step that charges.                              *)
LEMMA EvaluateInv ==
    ASSUME IInv, NEW r \in Requests, Evaluate(r)
    PROVE  IInv'
<1> DEFINE C == Charged(r)
<1> HIDE DEF C
<1>0. /\ TypeOK /\ CountersExact /\ RecentCounted /\ CountedEvaluated /\ CountersBounded
      /\ status[r] = "new" /\ reply[r] = "none" /\ status' = status
      /\ age' = [age EXCEPT ![r] = 0]
      /\ counter' = [k \in Keys |->
            IF k \in C
            THEN [calls |-> counter[k].calls + 1, usd |-> counter[k].usd + Cost]
            ELSE counter[k]]
      /\ idle' = [k \in Keys |-> IF k \in C THEN 0 ELSE idle[k]]
      /\ counted' = [k \in Keys |-> IF k \in C THEN counted[k] \cup {r} ELSE counted[k]]
    BY DEF IInv, Evaluate, RunScript, Charge, C
<1>1. \E v \in {"error", "allowed", "exceeded"} :
         /\ reply' = [reply EXCEPT ![r] = v]
         /\ v = "allowed" => Admits(r)
    BY DEF Evaluate
<1>2. PICK v \in {"error", "allowed", "exceeded"} :
         /\ reply' = [reply EXCEPT ![r] = v]
         /\ v = "allowed" => Admits(r)
    BY <1>1
<1>3. C \subseteq Keys /\ (Admits(r) => C = KeysOf(r))
    BY ChargedKeys DEF C
<1>4. \A k \in Keys : r \notin counted[k]
    BY <1>0 DEF CountedEvaluated
<1>5. TypeOK'
  <2>1. counter' \in [Keys -> [calls : Nat, usd : Nat]]
      BY <1>0, CostGuardAssumption DEF TypeOK, CostGuardAssumption
  <2>2. /\ idle' \in [Keys -> 0..(TTL - 1)] /\ age' \in [Requests -> 0..TTL]
        /\ counted' \in [Keys -> SUBSET Requests]
      BY <1>0, CostGuardAssumption DEF TypeOK, CostGuardAssumption
  <2>3. reply' \in [Requests -> {"none", "allowed", "exceeded", "error"}]
      BY <1>0, <1>2 DEF TypeOK
  <2> QED BY <1>0, <2>1, <2>2, <2>3 DEF TypeOK
<1>6. CountersExact'
  <2> SUFFICES ASSUME NEW k \in Keys
               PROVE /\ IsFiniteSet(counted'[k])
                     /\ counter'[k].calls = Cardinality(counted'[k])
                     /\ counter'[k].usd = Cost * Cardinality(counted'[k])
      BY DEF CountersExact
  <2>1. /\ IsFiniteSet(counted[k]) /\ Cardinality(counted[k]) \in Nat
        /\ counter[k].calls = Cardinality(counted[k])
        /\ counter[k].usd = Cost * Cardinality(counted[k])
      BY <1>0, FS_CardinalityType DEF CountersExact
  <2>2. CASE k \in C
    <3>1. /\ IsFiniteSet(counted'[k])
          /\ Cardinality(counted'[k]) = Cardinality(counted[k]) + 1
        BY <1>0, <1>4, <2>1, <2>2, FS_AddElement
    <3>2. /\ counter'[k].calls = counter[k].calls + 1
          /\ counter'[k].usd = counter[k].usd + Cost
        BY <1>0, <2>2
    <3> QED BY <2>1, <3>1, <3>2, CostGuardAssumption DEF CostGuardAssumption
  <2>3. CASE k \notin C
      BY <1>0, <2>1, <2>3
  <2> QED BY <2>2, <2>3
<1>7. RecentCounted'
  <2> SUFFICES ASSUME ~FailOpen, NEW k \in Keys, NEW q \in Recent(k)'
               PROVE q \in counted'[k]
      BY DEF RecentCounted
  <2>1. q \in Requests /\ k \in KeysOf(q) /\ Admitted(q)' /\ age'[q] < TTL
      BY DEF Recent, KeysOf, UserCapped
  <2>2. CASE q = r
    <3>1. Admits(r)
        BY <1>0, <1>2, <2>1, <2>2 DEF Admitted, TypeOK
    <3> QED BY <1>0, <1>3, <2>1, <2>2, <3>1
  <2>3. CASE q # r
    <3>1. q \in Recent(k)
        BY <1>0, <1>2, <2>1, <2>3 DEF Recent, Admitted, TypeOK
    <3> QED BY <1>0, <3>1 DEF RecentCounted
  <2> QED BY <2>2, <2>3
<1>8. CountedEvaluated'
  <2> SUFFICES ASSUME NEW k \in Keys, NEW q \in counted'[k]
               PROVE reply'[q] # "none" /\ idle'[k] <= age'[q]
      BY DEF CountedEvaluated
  <2>1. CASE k \in C
      BY <1>0, <1>2, <2>1 DEF TypeOK, CountedEvaluated
  <2>2. CASE k \notin C
      BY <1>0, <1>2, <1>4, <2>2 DEF TypeOK, CountedEvaluated
  <2> QED BY <2>1, <2>2
<1>9. CountersBounded'
  <2>1. ASSUME NEW t \in Tenants PROVE Bounded(counter'[t], TenantLimit)
    <3>1. CASE t \in C
        BY <1>0, <3>1, ChargedBelow, CostGuardAssumption
           DEF C, Bounded, Exceeds, TypeOK, CostGuardAssumption, Limits, Keys
    <3>2. CASE t \notin C
        BY <1>0, <3>2 DEF CountersBounded, Keys
    <3> QED BY <3>1, <3>2
  <2>2. ASSUME NEW u \in Users PROVE Bounded(counter'[u], UserLimit)
    <3>1. CASE u \in C
        BY <1>0, <3>1, ChargedBelow, CostGuardAssumption
           DEF C, Bounded, Exceeds, TypeOK, CostGuardAssumption, Limits, Keys
    <3>2. CASE u \notin C
        BY <1>0, <3>2 DEF CountersBounded, Keys
    <3> QED BY <3>1, <3>2
  <2> QED BY <2>1, <2>2 DEF CountersBounded
<1> QED BY <1>5, <1>6, <1>7, <1>8, <1>9 DEF IInv

(* The expiry: a counter that vanishes stands for nothing recent.          *)
LEMMA TickInv ==
    ASSUME IInv, Tick
    PROVE  IInv'
<1>0. /\ TypeOK /\ CountersExact /\ RecentCounted /\ CountedEvaluated /\ CountersBounded
      /\ reply' = reply /\ status' = status
    BY DEF IInv, Tick
<1>a. \A k \in Keys : /\ idle'[k] = IF Expires(k) THEN 0 ELSE idle[k] + 1
                      /\ counter'[k] = IF Expires(k) THEN Zero ELSE counter[k]
                      /\ counted'[k] = IF Expires(k) THEN {} ELSE counted[k]
    BY DEF Tick
<1>b. \A r \in Requests : age'[r] = IF age[r] < TTL THEN age[r] + 1 ELSE TTL
    BY DEF Tick
<1>1. TypeOK'
  <2>1. counter' \in [Keys -> [calls : Nat, usd : Nat]]
      BY <1>0 DEF TypeOK, Tick, Zero
  <2>2. idle' \in [Keys -> 0..(TTL - 1)]
      BY <1>0, CostGuardAssumption DEF TypeOK, Tick, Expires, CostGuardAssumption
  <2>3. age' \in [Requests -> 0..TTL]
      BY <1>0, CostGuardAssumption DEF TypeOK, Tick, CostGuardAssumption
  <2>4. counted' \in [Keys -> SUBSET Requests]
      BY <1>0 DEF TypeOK, Tick
  <2> QED BY <1>0, <2>1, <2>2, <2>3, <2>4 DEF TypeOK
<1>2. CountersExact'
    BY <1>0, <1>a, FS_EmptySet, CostGuardAssumption DEF CountersExact, Zero, CostGuardAssumption
<1>3. RecentCounted'
  <2> SUFFICES ASSUME ~FailOpen, NEW k \in Keys, NEW q \in Recent(k)'
               PROVE q \in counted'[k]
      BY DEF RecentCounted
  <2>1. q \in Requests /\ k \in KeysOf(q) /\ Admitted(q) /\ age'[q] < TTL
      BY <1>0 DEF Recent, KeysOf, UserCapped, Admitted
  <2>2. age[q] \in Nat /\ age[q] + 1 < TTL
      BY <1>0, <1>b, <2>1, CostGuardAssumption DEF TypeOK, CostGuardAssumption
  <2>3. q \in counted[k]
      BY <1>0, <2>1, <2>2, CostGuardAssumption DEF RecentCounted, Recent, CostGuardAssumption
  <2>4. ~Expires(k)
      BY <1>0, <2>2, <2>3, CostGuardAssumption
         DEF CountedEvaluated, Expires, TypeOK, CostGuardAssumption
  <2> QED BY <1>a, <2>3, <2>4
<1>4. CountedEvaluated'
  <2> SUFFICES ASSUME NEW k \in Keys, NEW q \in counted'[k]
               PROVE reply'[q] # "none" /\ idle'[k] <= age'[q]
      BY DEF CountedEvaluated
  <2>1. ~Expires(k) /\ q \in counted[k] /\ idle'[k] = idle[k] + 1
      BY <1>a
  <2>2. q \in Requests /\ reply[q] # "none" /\ idle[k] <= age[q]
      BY <1>0, <2>1 DEF CountedEvaluated, TypeOK
  <2> QED BY <1>0, <1>b, <2>1, <2>2, CostGuardAssumption DEF Expires, TypeOK, CostGuardAssumption
<1>5. CountersBounded'
    BY <1>0, <1>a, CostGuardAssumption
       DEF CountersBounded, Bounded, Zero, Keys, Limits, CostGuardAssumption
<1> QED BY <1>1, <1>2, <1>3, <1>4, <1>5 DEF IInv

(* The steps that leave the counters alone.                                *)
LEMMA OtherInv ==
    ASSUME IInv, NEW r \in Requests, EvaluateFails(r) \/ Respond(r) \/ TryAgain(r)
    PROVE  IInv'
<1>0. /\ TypeOK /\ CountersExact /\ RecentCounted /\ CountedEvaluated /\ CountersBounded
      /\ counter' = counter /\ idle' = idle /\ age' = age /\ counted' = counted
    BY DEF IInv, EvaluateFails, Respond, TryAgain
<1>1. TypeOK'
    BY <1>0 DEF TypeOK, EvaluateFails, Respond, TryAgain, Verdict
<1>2. CountersExact' /\ CountersBounded'
    BY <1>0 DEF CountersExact, CountersBounded, Bounded
<1>3. ~FailOpen => \A q \in Requests : Admitted(q)' => Admitted(q)
    BY <1>0 DEF TypeOK, Admitted, EvaluateFails, Respond, TryAgain, Verdict
<1>4. RecentCounted'
  <2> SUFFICES ASSUME ~FailOpen, NEW k \in Keys, NEW q \in Recent(k)'
               PROVE q \in counted'[k]
      BY DEF RecentCounted
  <2>1. q \in Recent(k)
      BY <1>0, <1>3 DEF Recent, KeysOf, UserCapped
  <2> QED BY <1>0, <2>1 DEF RecentCounted
<1>5. CountedEvaluated'
    BY <1>0 DEF TypeOK, CountedEvaluated, EvaluateFails, Respond, TryAgain
<1> QED BY <1>1, <1>2, <1>4, <1>5 DEF IInv

(* Every step of the guard keeps the invariant.                            *)
LEMMA CapsStep == IInv /\ [Next]_vars => IInv'
<1> SUFFICES ASSUME IInv, [Next]_vars PROVE IInv'
    OBVIOUS
<1>1. CASE Tick
    BY <1>1, TickInv
<1>2. ASSUME NEW r \in Requests, Evaluate(r) PROVE IInv'
    BY <1>2, EvaluateInv
<1>3. ASSUME NEW r \in Requests, EvaluateFails(r) \/ Respond(r) \/ TryAgain(r) PROVE IInv'
    BY <1>3, OtherInv
<1>4. CASE UNCHANGED vars
    BY <1>4 DEF vars, IInv, TypeOK, CountersExact, RecentCounted, Recent, KeysOf, UserCapped,
                Admitted, CountedEvaluated, CountersBounded, Bounded
<1> QED BY <1>1, <1>2, <1>3, <1>4 DEF Next

(* The guard's counters cover the last window in every state.              *)
LEMMA Invariance == Spec => []IInv
BY InitInv, CapsStep, PTL DEF Spec

(* The guard's state keeps its types: counters are never negative and no   *)
(* counter outlives its time to live.                                      *)
THEOREM TypeCorrect == Spec => []TypeOK
<1>1. IInv => TypeOK
    BY DEF IInv
<1> QED BY <1>1, Invariance, PTL

(* Expiry forgets no request that is still in the window.                  *)
THEOREM NothingForgotten == Spec => []RecentCounted
<1>1. IInv => RecentCounted
    BY DEF IInv
<1> QED BY <1>1, Invariance, PTL

(* A key's recent requests are no more than its counters say.              *)
LEMMA RecentBounded ==
    ASSUME IInv, ~FailOpen, NEW k \in Keys, NEW limit \in Limits, Bounded(counter[k], limit)
    PROVE  Within(Cardinality(Recent(k)), limit)
<1> DEFINE n == Cardinality(Recent(k))
           m == Cardinality(counted[k])
<1>1. IsFiniteSet(counted[k]) /\ counter[k].calls = m /\ counter[k].usd = Cost * m
    BY DEF IInv, CountersExact
<1>2. n \in Nat /\ m \in Nat /\ n <= m
  <2>1. Recent(k) \subseteq counted[k]
      BY DEF IInv, RecentCounted
  <2>2. IsFiniteSet(Recent(k)) /\ n <= m
      BY <1>1, <2>1, FS_Subset
  <2> QED BY <1>1, <2>2, FS_CardinalityType
<1> HIDE DEF n, m
<1>3. Cost \in Nat /\ limit.calls \in Nat /\ limit.usd \in Nat
    BY CostGuardAssumption DEF CostGuardAssumption, Limits
<1>4. n * Cost <= m * Cost
    BY <1>2, <1>3, MultMonotone
<1>5. m * Cost = Cost * m /\ m * Cost \in Nat /\ n * Cost \in Nat
    BY <1>2, <1>3
<1>6. limit.calls > 0 => n <= limit.calls
    BY <1>1, <1>2, <1>3 DEF Bounded
<1>7. limit.usd > 0 => n * Cost <= limit.usd
    BY <1>1, <1>3, <1>4, <1>5 DEF Bounded
<1> QED BY <1>6, <1>7 DEF Within, n

(* The caps hold for every tenant and user in every window.                *)
THEOREM CapsHold == Spec => []CapHolds
<1>1. IInv => CapHolds
  <2> SUFFICES ASSUME IInv, ~FailOpen PROVE CapHolds
      BY DEF CapHolds
  <2>1. TenantLimit \in Limits /\ UserLimit \in Limits
      BY CostGuardAssumption DEF CostGuardAssumption
  <2>2. CountersBounded
      BY DEF IInv
  <2>3. \A t \in Tenants : Within(Cardinality(Recent(t)), TenantLimit)
      BY <2>1, <2>2, RecentBounded DEF CountersBounded, Keys
  <2>4. \A u \in Users : Within(Cardinality(Recent(u)), UserLimit)
      BY <2>1, <2>2, RecentBounded DEF CountersBounded, Keys
  <2> QED BY <2>3, <2>4 DEF CapHolds
<1> QED BY <1>1, Invariance, PTL
-----------------------------------------------------------------------------
(* BreakerOpens is inductive once the breaker's count is typed and known   *)
(* to be what BreakerOpens forgets: at least MaxFails once it has opened,  *)
(* at least the fresh failures while it is closed.                         *)
BreakerInv ==
    /\ circuit \in [state : {"closed", "open", "half_open"}, fails : Nat, left : Nat]
    /\ fresh \in Nat
    /\ circuit.state = "closed" => fresh <= circuit.fails /\ circuit.fails < MaxFails
    /\ circuit.state # "closed" => circuit.fails >= MaxFails
    /\ circuit.state = "half_open" => fresh = 0

(* Answers and failures, late ones included, keep the count.               *)
LEMMA BreakerStep == BreakerInv /\ [ScreenNext]_screenVars => BreakerInv'
<1> SUFFICES ASSUME BreakerInv, [ScreenNext]_screenVars PROVE BreakerInv'
  OBVIOUS
<1> USE ScreenAssumption DEF BreakerInv
<1>1. ASSUME NEW s \in Screened, StartScreen(s) PROVE BreakerInv'
  BY <1>1 DEF StartScreen
<1>2. ASSUME NEW s \in Screened, ScreenAnswers(s) PROVE BreakerInv'
  BY <1>2 DEF ScreenAnswers
<1>3. ASSUME NEW s \in Screened, ScreenFails(s) PROVE BreakerInv'
  BY <1>3 DEF ScreenFails, OnFailure
<1>4. CASE ScreenTick
  BY <1>4 DEF ScreenTick
<1>5. CASE UNCHANGED screenVars
  BY <1>5 DEF screenVars
<1> QED
  BY <1>1, <1>2, <1>3, <1>4, <1>5 DEF ScreenNext

(* The pre-screen's breaker opens after MaxFails failures without an       *)
(* answer, reopens on one while it tests, and is closed by answers only.   *)
THEOREM Opens == ScreenSpec => []BreakerOpens
<1>1. ScreenInit => BreakerInv
  BY ScreenAssumption DEF ScreenInit, BreakerInv
<1>2. BreakerInv => BreakerOpens
  BY ScreenAssumption DEF BreakerInv, BreakerOpens
<1> QED
  BY <1>1, <1>2, BreakerStep, PTL DEF ScreenSpec
-----------------------------------------------------------------------------
Agents == {"researcher", "reviewer", "writer", "verifier"}
LogEntries == [agent : Agents, outcome : {"error", "success", "empty_corpus"}]
Drafts == [attempt : Int, hint : Int, verdict : {"none", "pass", "rejected"}, sections : BOOLEAN]
Results == [draft : Drafts, empty : BOOLEAN,
            err : {"none", "cancelled", "researcher", "reviewer", "writer", "verifier", "exhausted"}]

(* The Writer's calls in entries; one at i > 3 follows a rejection.        *)
Calls(entries) == Cardinality({i \in DOMAIN entries : entries[i].agent = "writer"})
AfterRejection(entries) == \A i \in DOMAIN entries :
    entries[i].agent = "writer" /\ i > 3 => entries[i - 1] = Entry("verifier", "error")

PipelineTyped ==
    /\ maxRetries \in Int /\ checked \in BOOLEAN /\ stage \in Agents \cup {"done"}
    /\ attempt \in Nat /\ hint = attempt - 1 /\ draft \in Drafts /\ result \in Results
    /\ agentLog \in Seq(LogEntries)
    /\ draft # NoDraft => draft.hint = draft.attempt - 1
AtResearcher == agentLog = <<>> /\ attempt = 0
AtReviewer == Len(agentLog) = 1 /\ Calls(agentLog) = 0 /\ attempt = 0
AtWriter ==
    /\ Calls(agentLog) = attempt
    /\ IF maxRetries < 0 THEN attempt = 0 ELSE attempt < MaxAttempts
    /\ Len(agentLog) = 2 \/ (Len(agentLog) > 2 /\ agentLog[Len(agentLog)] = Entry("verifier", "error"))
AtVerifier ==
    /\ Calls(agentLog) = attempt + 1 /\ attempt < MaxAttempts
    /\ draft.attempt = attempt /\ draft.verdict = "none" /\ Len(agentLog) > 2
AtEnd ==
    /\ Calls(agentLog) <= (IF maxRetries < 0 THEN 0 ELSE maxRetries + 1)
    /\ result.draft # NoDraft =>
          /\ result.err = "none" /\ ~result.empty
          /\ result.draft.attempt = Calls(agentLog) - 1
          /\ checked => result.draft.verdict = "pass" /\ agentLog[Len(agentLog)] = Entry("verifier", "success")
    /\ result.err = "none" /\ maxRetries >= 0 => (result.draft # NoDraft) = ~result.empty
PipelineInv ==
    /\ PipelineTyped /\ AfterRejection(agentLog)
    /\ stage # "done" => result = NoResult
    /\ stage = "researcher" => AtResearcher
    /\ stage = "reviewer" => AtReviewer
    /\ stage = "writer" => AtWriter
    /\ stage = "verifier" => AtVerifier
    /\ stage = "done" => AtEnd

(* One more entry is one more call of the Writer or none.                  *)
LEMMA CallsAppend ==
    ASSUME NEW entries \in Seq(LogEntries), NEW e \in LogEntries
    PROVE  /\ Calls(entries) \in Nat
           /\ Calls(Append(entries, e)) = IF e.agent = "writer" THEN Calls(entries) + 1 ELSE Calls(entries)
<1> DEFINE Of(s) == {i \in DOMAIN s : s[i].agent = "writer"}
<1>1. IsFiniteSet(Of(entries))
  <2>1. Of(entries) \subseteq 1..Len(entries) /\ IsFiniteSet(1..Len(entries))
    <3>1. Len(entries) \in Nat /\ DOMAIN entries = 1..Len(entries)
      OBVIOUS
    <3> QED
      BY <3>1, FS_Interval
  <2> QED
    BY <2>1, FS_Subset
<1>2. Len(entries) + 1 \notin Of(entries)
  OBVIOUS
<1>3. Of(Append(entries, e)) = IF e.agent = "writer" THEN Of(entries) \cup {Len(entries) + 1} ELSE Of(entries)
  <2>1. DOMAIN Append(entries, e) = 1..(Len(entries) + 1)
    OBVIOUS
  <2>2. Append(entries, e)[Len(entries) + 1] = e
    OBVIOUS
  <2>3. \A i \in 1..Len(entries) : Append(entries, e)[i] = entries[i]
    OBVIOUS
  <2>4. DOMAIN entries = 1..Len(entries) /\ Len(entries) \in Nat
    OBVIOUS
  <2> HIDE DEF LogEntries
  <2> QED
    BY <2>1, <2>2, <2>3, <2>4
<1>4. Cardinality(Of(entries)) \in Nat
  BY <1>1, FS_CardinalityType
<1>5. Cardinality(Of(entries) \cup {Len(entries) + 1}) = Cardinality(Of(entries)) + 1
  BY <1>1, <1>2, FS_AddElement
<1> QED
  BY <1>3, <1>4, <1>5 DEF Calls

(* One more entry keeps every rewrite behind a rejection.                  *)
LEMMA RejectionAppend ==
    ASSUME NEW entries \in Seq(LogEntries), NEW e \in LogEntries, AfterRejection(entries),
           e.agent = "writer" => Len(entries) < 3 \/ entries[Len(entries)] = Entry("verifier", "error")
    PROVE  AfterRejection(Append(entries, e))
<1>1. DOMAIN Append(entries, e) = 1..(Len(entries) + 1) /\ Append(entries, e)[Len(entries) + 1] = e
  OBVIOUS
<1>2. \A i \in 1..Len(entries) : Append(entries, e)[i] = entries[i]
  OBVIOUS
<1>3. DOMAIN entries = 1..Len(entries) /\ Len(entries) \in Nat
  OBVIOUS
<1> HIDE DEF LogEntries
<1> QED
  BY <1>1, <1>2, <1>3 DEF AfterRejection

(* What every step that logs an answer keeps.                              *)
LEMMA LogStep ==
    ASSUME PipelineInv, NEW e \in LogEntries, agentLog' = Append(agentLog, e),
           e.agent = "writer" => stage = "writer"
    PROVE  /\ agentLog' \in Seq(LogEntries) /\ AfterRejection(agentLog)'
           /\ Len(agentLog') = Len(agentLog) + 1 /\ agentLog'[Len(agentLog')] = e
           /\ Len(agentLog) \in Nat /\ Calls(agentLog) \in Nat
           /\ Calls(agentLog') = IF e.agent = "writer" THEN Calls(agentLog) + 1 ELSE Calls(agentLog)
<1>1. agentLog \in Seq(LogEntries) /\ AfterRejection(agentLog)
  BY DEF PipelineInv, PipelineTyped
<1>2. e.agent = "writer" => Len(agentLog) < 3 \/ agentLog[Len(agentLog)] = Entry("verifier", "error")
  BY DEF PipelineInv, AtWriter
<1>3. AfterRejection(Append(agentLog, e))
  BY <1>1, <1>2, RejectionAppend
<1> HIDE DEF LogEntries
<1>4. Append(agentLog, e) \in Seq(LogEntries) /\ Len(Append(agentLog, e)) = Len(agentLog) + 1
      /\ Append(agentLog, e)[Len(agentLog) + 1] = e /\ Len(agentLog) \in Nat
  BY <1>1
<1> QED
  BY <1>1, <1>3, <1>4, CallsAppend

(* Each call of an agent leaves the next one what it needs.                *)
LEMMA PipelineStep == PipelineInv /\ [AgentNext]_agentVars => PipelineInv'
<1> SUFFICES ASSUME PipelineInv, [AgentNext]_agentVars PROVE PipelineInv'
  OBVIOUS
<1> USE DEF PipelineInv, PipelineTyped
<1>0. \A agent \in Agents, outcome \in {"error", "success", "empty_corpus"} :
         Entry(agent, outcome) \in LogEntries /\ Entry(agent, outcome).agent = agent
  BY DEF Entry, LogEntries
<1>l. \A agent \in Agents, outcome \in {"error", "success", "empty_corpus"} :
         Logged(agent, outcome) /\ (agent = "writer" => stage = "writer") =>
           /\ agentLog' \in Seq(LogEntries) /\ AfterRejection(agentLog)'
           /\ Len(agentLog') = Len(agentLog) + 1 /\ agentLog'[Len(agentLog')] = Entry(agent, outcome)
           /\ Len(agentLog) \in Nat /\ Calls(agentLog) \in Nat
           /\ Calls(agentLog') = IF agent = "writer" THEN Calls(agentLog) + 1 ELSE Calls(agentLog)
  BY <1>0, LogStep DEF Logged
<1>e. NoResult \in Results /\ NoDraft \in Drafts /\ NoResult.draft = NoDraft /\ ~NoResult.empty
  BY DEF NoResult, NoDraft, Results, Drafts
<1>f. ASSUME NEW err \in {"cancelled", "researcher", "reviewer", "writer", "verifier", "exhausted"},
             Fails(err), stage # "done"
      PROVE  /\ stage' = "done" /\ result' \in Results /\ result'.err # "none"
             /\ result'.draft = NoDraft
  BY <1>f, <1>e DEF Fails, NoResult, Results
<1>c. Calls(<<>>) = 0
  BY FS_EmptySet DEF Calls
<1>1. CASE ContextEnds
  BY <1>1 DEF ContextEnds, AtResearcher, AtReviewer, AtWriter, AtVerifier, AtEnd, MaxAttempts
<1>2. CASE Cancelled
  <2>1. stage' = "done" /\ result' \in Results /\ result'.err # "none" /\ result'.draft = NoDraft
    BY <1>2, <1>f DEF Cancelled
  <2>2. Calls(agentLog) <= (IF maxRetries < 0 THEN 0 ELSE maxRetries + 1)
    BY <1>2, <1>c DEF Cancelled, AtResearcher, AtReviewer, AtWriter, AtVerifier, MaxAttempts
  <2> QED
    BY <1>2, <2>1, <2>2 DEF Cancelled, AtEnd, Agents
<1>3. CASE Researcher
  <2> USE <1>3
  <2>1. CASE Logged("researcher", "error") /\ Fails("researcher")
    <3>1. stage' = "done" /\ result' \in Results /\ result'.err # "none" /\ result'.draft = NoDraft
      BY <2>1, <1>f DEF Researcher
    <3>2. agentLog' \in Seq(LogEntries) /\ AfterRejection(agentLog)' /\ Calls(agentLog') = 0
      BY <2>1, <1>l, <1>c DEF Researcher, AtResearcher, Agents
    <3> QED
      BY <3>1, <3>2 DEF Researcher, AtEnd, Agents
  <2>2. CASE Logged("researcher", "empty_corpus") /\ result' = [result EXCEPT !.empty = TRUE] /\ stage' = "done"
    <3>1. result = NoResult
      BY DEF Researcher
    <3>2. result' \in Results /\ result'.empty /\ result'.draft = NoDraft
      BY <2>2, <3>1, <1>e DEF Researcher, Results, NoResult
    <3>3. agentLog' \in Seq(LogEntries) /\ AfterRejection(agentLog)' /\ Calls(agentLog') = 0
      BY <2>2, <1>l, <1>c DEF Researcher, AtResearcher, Agents
    <3> QED
      BY <2>2, <3>2, <3>3 DEF Researcher, AtEnd, Agents
  <2>3. CASE Logged("researcher", "success") /\ stage' = "reviewer" /\ UNCHANGED result
    <3>1. agentLog' \in Seq(LogEntries) /\ AfterRejection(agentLog)' /\ Calls(agentLog') = 0
          /\ Len(agentLog') = 1
      <4>1. agentLog = <<>>
        BY DEF Researcher, AtResearcher
      <4>2. Len(agentLog) = 0
        BY <4>1
      <4> QED
        BY <2>3, <4>1, <4>2, <1>l, <1>c DEF Agents
    <3> QED
      BY <2>3, <3>1 DEF Researcher, AtResearcher, AtReviewer, Agents
  <2> QED
    BY <2>1, <2>2, <2>3 DEF Researcher
<1>4. CASE Reviewer
  <2> USE <1>4
  <2>1. CASE Logged("reviewer", "error") /\ Fails("reviewer")
    <3>1. stage' = "done" /\ result' \in Results /\ result'.err # "none" /\ result'.draft = NoDraft
      BY <2>1, <1>f DEF Reviewer
    <3>2. agentLog' \in Seq(LogEntries) /\ AfterRejection(agentLog)' /\ Calls(agentLog') = 0
      BY <2>1, <1>l DEF Reviewer, AtReviewer, Agents
    <3> QED
      BY <3>1, <3>2 DEF Reviewer, AtEnd, Agents
  <2>2. CASE Logged("reviewer", "success") /\ stage' = "writer" /\ UNCHANGED result
    <3>1. agentLog' \in Seq(LogEntries) /\ AfterRejection(agentLog)' /\ Calls(agentLog') = 0
          /\ Len(agentLog') = 2
      <4>1. AtReviewer
        BY DEF Reviewer
      <4> QED
        BY <2>2, <4>1, <1>l DEF AtReviewer, Agents
    <3>2. stage' = "writer" /\ attempt = 0 /\ UNCHANGED <<attempt, hint, draft, maxRetries, checked, result>>
          /\ result = NoResult
      BY <2>2 DEF Reviewer, AtReviewer
    <3>3. AtWriter'
      <4>1. maxRetries \in Int /\ attempt' = 0 /\ maxRetries' = maxRetries
        BY <3>2
      <4> HIDE DEF PipelineInv, PipelineTyped
      <4> QED
        BY <3>1, <4>1 DEF AtWriter, MaxAttempts
    <3>4. PipelineTyped'
      BY <3>1, <3>2 DEF Agents
    <3> QED
      BY <3>1, <3>2, <3>3, <3>4
  <2> QED
    BY <2>1, <2>2 DEF Reviewer
<1>5. CASE Writer
  <2> USE <1>5
  <2>0. Calls(agentLog) = attempt /\ attempt < MaxAttempts /\ maxRetries >= 0
    BY DEF Writer, AtWriter, MaxAttempts
  <2>1. CASE Logged("writer", "error") /\ Fails("writer") /\ UNCHANGED draft
    <3>1. stage' = "done" /\ result' \in Results /\ result'.err # "none" /\ result'.draft = NoDraft
      BY <2>1, <1>f DEF Writer
    <3>2. agentLog' \in Seq(LogEntries) /\ AfterRejection(agentLog)' /\ Calls(agentLog') = attempt + 1
      BY <2>0, <2>1, <1>l DEF Writer, Agents
    <3> QED
      BY <2>0, <2>1, <3>1, <3>2 DEF Writer, AtEnd, Agents, MaxAttempts
  <2>2. CASE /\ Logged("writer", "success")
             /\ \E sections \in BOOLEAN : draft' =
                   [attempt |-> attempt, hint |-> hint, verdict |-> "none", sections |-> sections]
             /\ IF checked THEN stage' = "verifier" /\ UNCHANGED result
                ELSE stage' = "done" /\ result' = [result EXCEPT !.draft = draft']
    <3>1. /\ agentLog' \in Seq(LogEntries) /\ AfterRejection(agentLog)' /\ Calls(agentLog') = attempt + 1
          /\ Len(agentLog') = Len(agentLog) + 1 /\ Len(agentLog) \in Nat
      BY <2>0, <2>2, <1>l DEF Writer, Agents
    <3>2. /\ draft' \in Drafts /\ draft'.attempt = attempt /\ draft'.hint = attempt - 1
          /\ draft'.verdict = "none"
      BY <2>2 DEF Drafts
    <3>3. draft' # NoDraft
      BY <3>2 DEF NoDraft
    <3>4. CASE checked
      <4>1. /\ stage' = "verifier" /\ UNCHANGED <<attempt, hint, maxRetries, checked, result>>
            /\ stage = "writer"
        BY <2>2, <3>4 DEF Writer
      <4>2. Len(agentLog') > 2
        BY <3>1, <4>1 DEF AtWriter
      <4>3. AtVerifier'
        BY <2>0, <3>1, <3>2, <4>1, <4>2 DEF AtVerifier, MaxAttempts
      <4>4. PipelineTyped'
        BY <3>1, <3>2, <4>1 DEF Agents
      <4> QED
        BY <3>1, <4>1, <4>3, <4>4
    <3>5. CASE ~checked
      <4>1. result' = [NoResult EXCEPT !.draft = draft']
        BY <2>2, <3>5 DEF Writer
      <4>2. result' \in Results /\ result'.draft = draft' /\ result'.err = "none" /\ ~result'.empty
        BY <4>1, <3>2 DEF Results, NoResult
      <4> QED
        <5>1. stage' = "done" /\ UNCHANGED <<attempt, hint, maxRetries, checked>>
          BY <2>2, <3>5 DEF Writer
        <5>2. AtEnd'
          BY <2>0, <3>1, <3>2, <3>3, <3>5, <4>2, <5>1 DEF AtEnd, MaxAttempts
        <5>3. PipelineTyped'
          BY <3>1, <3>2, <4>2, <5>1
        <5> QED
          BY <3>1, <5>1, <5>2, <5>3
    <3> QED
      BY <3>4, <3>5
  <2> QED
    BY <2>1, <2>2 DEF Writer
<1>6. CASE Verifier
  <2> USE <1>6
  <2>0. /\ Calls(agentLog) = attempt + 1 /\ attempt < MaxAttempts /\ maxRetries >= 0
        /\ draft.attempt = attempt /\ draft \in Drafts /\ draft # NoDraft /\ draft.hint = attempt - 1
    BY DEF Verifier, AtVerifier, MaxAttempts, NoDraft
  <2>1. CASE Logged("verifier", "error") /\ Fails("verifier") /\ UNCHANGED <<draft, attempt, hint>>
    <3>1. stage' = "done" /\ result' \in Results /\ result'.err # "none" /\ result'.draft = NoDraft
      BY <2>1, <1>f DEF Verifier
    <3>2. agentLog' \in Seq(LogEntries) /\ AfterRejection(agentLog)' /\ Calls(agentLog') = attempt + 1
      BY <2>0, <2>1, <1>l DEF Agents
    <3> QED
      BY <2>0, <2>1, <3>1, <3>2 DEF Verifier, AtEnd, Agents, MaxAttempts
  <2>2. CASE /\ draft' = [draft EXCEPT !.verdict = "pass"]
             /\ Logged("verifier", "success")
             /\ result' = [result EXCEPT !.draft = draft'] /\ stage' = "done"
             /\ UNCHANGED <<attempt, hint>>
    <3>1. /\ agentLog' \in Seq(LogEntries) /\ AfterRejection(agentLog)' /\ Calls(agentLog') = attempt + 1
          /\ agentLog'[Len(agentLog')] = Entry("verifier", "success")
      BY <2>0, <2>2, <1>l DEF Agents
    <3>2. /\ draft' \in Drafts /\ draft'.attempt = attempt /\ draft'.hint = attempt - 1
          /\ draft'.verdict = "pass"
      BY <2>0, <2>2 DEF Drafts
    <3>3. draft' # NoDraft
      BY <3>2 DEF NoDraft
    <3>4. result' = [NoResult EXCEPT !.draft = draft']
      BY <2>2 DEF Verifier
    <3>5. result' \in Results /\ result'.draft = draft' /\ result'.err = "none" /\ ~result'.empty
      BY <3>4, <3>2 DEF Results, NoResult
    <3> QED
      <4>1. stage' = "done" /\ UNCHANGED <<attempt, hint, maxRetries, checked>>
        BY <2>2 DEF Verifier
      <4>2. AtEnd'
        BY <2>0, <3>1, <3>2, <3>3, <3>5, <4>1 DEF AtEnd, MaxAttempts
      <4>3. PipelineTyped'
        BY <3>1, <3>2, <3>5, <4>1
      <4> QED
        BY <3>1, <4>1, <4>2, <4>3
  <2>3. CASE /\ draft' = [draft EXCEPT !.verdict = "rejected"]
             /\ Logged("verifier", "error")
             /\ hint' = attempt /\ attempt' = attempt + 1
             /\ IF LastDraft THEN Fails("exhausted") ELSE stage' = "writer" /\ UNCHANGED result
    <3>1. /\ agentLog' \in Seq(LogEntries) /\ AfterRejection(agentLog)' /\ Calls(agentLog') = attempt + 1
          /\ agentLog'[Len(agentLog')] = Entry("verifier", "error")
          /\ Len(agentLog') = Len(agentLog) + 1 /\ Len(agentLog) \in Nat
      BY <2>0, <2>3, <1>l DEF Agents
    <3>2. draft' \in Drafts /\ draft'.attempt = attempt /\ draft'.hint = attempt - 1
      BY <2>0, <2>3 DEF Drafts
    <3>3. CASE LastDraft
      <4>1. stage' = "done" /\ result' \in Results /\ result'.err # "none" /\ result'.draft = NoDraft
        BY <2>3, <3>3, <1>f DEF Verifier
      <4>2. UNCHANGED <<maxRetries, checked>> /\ attempt' = attempt + 1 /\ hint' = attempt
        BY <2>3 DEF Verifier
      <4>3. AtEnd'
        BY <2>0, <3>1, <4>1, <4>2 DEF AtEnd, MaxAttempts
      <4>4. PipelineTyped'
        BY <2>0, <2>3, <3>1, <3>2, <4>1, <4>2 DEF Verifier, Agents
      <4> QED
        BY <3>1, <4>1, <4>3, <4>4
    <3>4. CASE ~LastDraft
      <4>1. Len(agentLog) > 2
        BY DEF Verifier, AtVerifier
      <4> QED
        BY <2>0, <2>3, <3>1, <3>2, <3>4, <4>1 DEF Verifier, AtWriter, Agents, MaxAttempts, LastDraft
    <3> QED
      BY <3>3, <3>4
  <2> QED
    BY <2>1, <2>2, <2>3 DEF Verifier
<1>7. CASE NoAttempt
  <2>1. maxRetries < 0 /\ Calls(agentLog) = 0 /\ result = NoResult
    BY <1>7 DEF NoAttempt, AtWriter, MaxAttempts
  <2> QED
    BY <1>7, <2>1, <1>e DEF NoAttempt, AtEnd, Agents
<1>8. CASE UNCHANGED agentVars
  BY <1>8 DEF agentVars, AtResearcher, AtReviewer, AtWriter, AtVerifier, AtEnd, MaxAttempts
<1> QED
  BY <1>1, <1>2, <1>3, <1>4, <1>5, <1>6, <1>7, <1>8 DEF AgentNext

(* At first no agent has run.                                              *)
LEMMA PipelineInit == AgentInit => PipelineInv
<1> SUFFICES ASSUME AgentInit PROVE PipelineInv
  OBVIOUS
<1>1. draft \in Drafts /\ result \in Results /\ result = NoResult /\ draft = NoDraft
  BY DEF AgentInit, NoDraft, NoResult, Drafts, Results
<1>2. agentLog \in Seq(LogEntries) /\ AfterRejection(agentLog) /\ agentLog = <<>>
  BY DEF AgentInit, AfterRejection
<1> QED
  BY <1>1, <1>2, PipelineAssumption DEF AgentInit, PipelineInv, PipelineTyped, AtResearcher, Agents

(* What is known at the end is what is promised.                           *)
LEMMA PipelineAccepts == PipelineInv => DraftAccepted
<1> SUFFICES ASSUME PipelineInv PROVE DraftAccepted
  OBVIOUS
<1>c. Calls(<<>>) = 0
  BY FS_EmptySet DEF Calls
<1>1. Times("writer") = Calls(agentLog)
  BY DEF Times, Calls
<1>2. stage # "done" => result.draft = NoDraft
  BY DEF PipelineInv, NoResult
<1>3. Calls(agentLog) <= IF maxRetries < 0 THEN 0 ELSE maxRetries + 1
  BY <1>c DEF PipelineInv, PipelineTyped, AtResearcher, AtReviewer, AtWriter, AtVerifier, AtEnd, MaxAttempts, Agents
<1>4. \A i \in DOMAIN agentLog : agentLog[i].agent = "writer" /\ i > 3 =>
        agentLog[i - 1] = Entry("verifier", "error")
  BY DEF PipelineInv, AfterRejection
<1> QED
  BY <1>1, <1>2, <1>3, <1>4 DEF PipelineInv, PipelineTyped, AtEnd, DraftAccepted

(* The agents' pipeline, whatever Config.MaxRetries is: no draft reaches   *)
(* the caller but the last one written, and with a check only one that     *)
(* passed; the Writer is not called more often than the setting allows,    *)
(* again only after a rejection (orchestrator.go).                         *)
THEOREM Accepted == AgentSpec => []DraftAccepted
BY PipelineInit, PipelineStep, PipelineAccepts, PTL DEF AgentSpec

-----------------------------------------------------------------------------
(* A file is absent, partial, or holds statuses; one that is not open any  *)
(* more is the status the node has now.                                    *)
Agrees(nodes, now) == \A n \in DOMAIN nodes :
    /\ n \in TreeNodes /\ nodes[n] \in Statuses
    /\ nodes[n] \notin Open => nodes[n] = now[n]
IsFile(x, now) == x = NoFile \/ x = Partial \/ \E nodes : x = Whole(nodes) /\ Agrees(nodes, now)
NoneOpen(nodes) == \A n \in DOMAIN nodes : nodes[n] \notin Open
IsReload(x) == x = NoFile \/ x = Partial \/ \E nodes : x = Whole(nodes) /\ NoneOpen(nodes)

(* As long as flushes do not overlap, the temporary file is partial only   *)
(* while the one flush in flight writes it.                                *)
OneFlush ==
    /\ \A f, g \in Flushers : flusher[f].at # "idle" /\ flusher[g].at # "idle" => f = g
    /\ tmp = Partial => \E f \in Flushers : flusher[f].at = "writing"
    /\ final # Partial /\ reloaded # Partial
FlushersTyped(now) ==
    /\ flusher = [f \in Flushers |-> flusher[f]]
    /\ \A f \in Flushers :
          /\ flusher[f] = [at |-> flusher[f].at, data |-> flusher[f].data]
          /\ flusher[f].at \in {"idle", "write", "writing", "rename"}
          /\ flusher[f].at # "idle" => Agrees(flusher[f].data, now)
TreeFileInv ==
    /\ nodeStatus \in [TreeNodes -> Statuses]
    /\ FlushersTyped(nodeStatus)
    /\ IsFile(tmp, nodeStatus) /\ IsFile(final, nodeStatus) /\ IsReload(reloaded)
    /\ overlapped \in BOOLEAN
    /\ ~overlapped => OneFlush

(* A file that agreed with the ended nodes still does when nodes only end. *)
LEMMA AgreesStays ==
    ASSUME NEW s \in [TreeNodes -> Statuses], NEW t,
           \A n \in TreeNodes : s[n] \notin Open => t[n] = s[n]
    PROVE  /\ \A nodes : Agrees(nodes, s) => Agrees(nodes, t)
           /\ \A x : IsFile(x, s) => IsFile(x, t)
<1>1. \A nodes : Agrees(nodes, s) => Agrees(nodes, t)
  BY DEF Agrees
<1> QED
  BY <1>1 DEF IsFile

(* A whole file is neither torn nor missing.                               *)
LEMMA KindsDiffer == \A nodes : Whole(nodes) # Partial /\ Whole(nodes) # NoFile /\ Partial # NoFile
BY DEF Whole, Partial, NoFile

(* What EXCEPT makes of a flusher's record.                                *)
LEMMA AtChanges ==
    ASSUME NEW x, NEW v, x = [at |-> x.at, data |-> x.data]
    PROVE  [x EXCEPT !.at = v] = [at |-> v, data |-> x.data]
<1>1. DOMAIN x = {"at", "data"}
  OBVIOUS
<1> QED
  BY <1>1

(* A flush begins; it overlaps if another is under way.                    *)
LEMMA BeginStep ==
    ASSUME TreeFileInv, NEW f \in Flushers, NEW data, Begin(f, data),
           UNCHANGED <<tmp, final, reloaded>>,
           nodeStatus' \in [TreeNodes -> Statuses],
           \A n \in TreeNodes : nodeStatus[n] \notin Open => nodeStatus'[n] = nodeStatus[n],
           Agrees(data, nodeStatus')
    PROVE  TreeFileInv'
<1>1. FlushersTyped(nodeStatus)'
  <2>1. \A g \in Flushers \ {f} : flusher'[g] = flusher[g]
    BY DEF Begin, TreeFileInv, FlushersTyped
  <2>2. flusher'[f] = [at |-> "write", data |-> data]
    BY DEF Begin, TreeFileInv, FlushersTyped
  <2>3. flusher' = [g \in Flushers |-> flusher'[g]]
    BY DEF Begin, TreeFileInv, FlushersTyped
  <2>4. \A nodes : Agrees(nodes, nodeStatus) => Agrees(nodes, nodeStatus')
    BY AgreesStays DEF TreeFileInv
  <2>5. \A g \in Flushers \ {f} : flusher[g].at # "idle" => Agrees(flusher[g].data, nodeStatus')
    BY <2>4 DEF TreeFileInv, FlushersTyped
  <2> QED
    BY <2>1, <2>2, <2>3, <2>5 DEF FlushersTyped, TreeFileInv
<1>2. ~overlapped' => OneFlush'
  <2> SUFFICES ASSUME ~overlapped' PROVE OneFlush'
    OBVIOUS
  <2>1. ~overlapped /\ \A g \in Flushers : flusher[g].at = "idle"
    BY DEF Begin, TreeFileInv, FlushInFlight
  <2>2. tmp # Partial
    BY <2>1 DEF OneFlush, TreeFileInv
  <2>3. \A g \in Flushers \ {f} : flusher'[g].at = "idle"
    BY <2>1 DEF Begin, TreeFileInv, FlushersTyped
  <2> QED
    BY <2>1, <2>2, <2>3 DEF OneFlush, TreeFileInv
<1>3. IsFile(tmp, nodeStatus)' /\ IsFile(final, nodeStatus)'
  BY AgreesStays DEF TreeFileInv
<1> QED
  BY <1>1, <1>2, <1>3 DEF TreeFileInv, Begin

(* A step of a flush that leaves whole files whole.                        *)
LEMMA FlusherStep ==
    ASSUME TreeFileInv, NEW f \in Flushers, flusher[f].at # "idle",
           UNCHANGED <<nodeStatus, overlapped, reloaded>>,
           NEW place \in {"idle", "writing", "rename"}, NEW data,
           place # "idle" => data = flusher[f].data,
           flusher' = [flusher EXCEPT ![f] = [at |-> place, data |-> data]],
           IsFile(tmp, nodeStatus)', IsFile(final, nodeStatus)',
           ~overlapped /\ tmp' = Partial => place = "writing",
           ~overlapped => final' # Partial
    PROVE  TreeFileInv'
<1>1. \A g \in Flushers \ {f} : flusher'[g] = flusher[g]
  BY DEF TreeFileInv, FlushersTyped
<1>2. flusher'[f] = [at |-> place, data |-> data]
  BY DEF TreeFileInv, FlushersTyped
<1>3. flusher' = [g \in Flushers |-> flusher'[g]]
  BY DEF TreeFileInv, FlushersTyped
<1>4. FlushersTyped(nodeStatus)'
  BY <1>1, <1>2, <1>3 DEF FlushersTyped, TreeFileInv
<1>5. ~overlapped' => OneFlush'
  BY <1>1, <1>2 DEF OneFlush, TreeFileInv
<1> QED
  BY <1>4, <1>5 DEF TreeFileInv

(* Nodes end, flushes step, a crash loses those under way, and a reload    *)
(* closes what was open.                                                   *)
LEMMA TreeFileStep == TreeFileInv /\ [TreeFileNext]_treeFileVars => TreeFileInv'
<1> SUFFICES ASSUME TreeFileInv, [TreeFileNext]_treeFileVars PROVE TreeFileInv'
  OBVIOUS
<1>1. ASSUME NEW f \in Flushers, NEW n \in TreeNodes, NodeTransition(f, n) PROVE TreeFileInv'
  <2>1. PICK s \in Statuses : /\ nodeStatus' = [nodeStatus EXCEPT ![n] = s]
                              /\ Begin(f, [m \in {n} |-> s])
    BY <1>1 DEF NodeTransition, Statuses, Open
  <2>2. nodeStatus' \in [TreeNodes -> Statuses] /\ nodeStatus'[n] = s
    BY <2>1 DEF TreeFileInv
  <2>3. \A m \in TreeNodes : nodeStatus[m] \notin Open => nodeStatus'[m] = nodeStatus[m]
    BY <1>1, <2>1 DEF NodeTransition, TreeFileInv
  <2>4. Agrees([m \in {n} |-> s], nodeStatus')
    BY <2>2 DEF Agrees
  <2> QED
    BY <1>1, <2>1, <2>2, <2>3, <2>4, BeginStep DEF NodeTransition
<1>2. ASSUME NEW f \in Flushers, LevelJoins(f) PROVE TreeFileInv'
  <2>1. nodeStatus' = nodeStatus /\ UNCHANGED <<tmp, final, reloaded>> /\ Begin(f, nodeStatus)
    BY <1>2 DEF LevelJoins
  <2>2. nodeStatus \in [TreeNodes -> Statuses]
    BY DEF TreeFileInv
  <2>3. Agrees(nodeStatus, nodeStatus)
    BY <2>2 DEF Agrees
  <2>4. Agrees(nodeStatus, nodeStatus') /\ nodeStatus' \in [TreeNodes -> Statuses]
    BY <2>1, <2>2, <2>3
  <2>5. \A n \in TreeNodes : nodeStatus[n] \notin Open => nodeStatus'[n] = nodeStatus[n]
    BY <2>1
  <2> QED
    BY <2>1, <2>4, <2>5, BeginStep
<1>3. ASSUME NEW f \in Flushers, WriteTmp(f) PROVE TreeFileInv'
  <2>1. flusher' = [flusher EXCEPT ![f] = [at |-> "writing", data |-> flusher[f].data]]
    BY <1>3, AtChanges DEF WriteTmp, TreeFileInv, FlushersTyped
  <2>2. IsFile(tmp, nodeStatus)' /\ IsFile(final, nodeStatus)'
    BY <1>3 DEF WriteTmp, TreeFileInv, IsFile
  <2>3. ~overlapped => final' # Partial
    BY <1>3 DEF WriteTmp, TreeFileInv, OneFlush
  <2>4. UNCHANGED <<nodeStatus, overlapped, reloaded>> /\ flusher[f].at # "idle"
    BY <1>3 DEF WriteTmp
  <2> HIDE DEF TreeFileInv
  <2> QED
    BY <2>1, <2>2, <2>3, <2>4, FlusherStep
<1>4. ASSUME NEW f \in Flushers, TmpWritten(f) PROVE TreeFileInv'
  <2>1. flusher' = [flusher EXCEPT ![f] = [at |-> "rename", data |-> flusher[f].data]]
    BY <1>4, AtChanges DEF TmpWritten, TreeFileInv, FlushersTyped
  <2>2. Agrees(flusher[f].data, nodeStatus)
    BY <1>4 DEF TmpWritten, TreeFileInv, FlushersTyped
  <2>3. IsFile(tmp, nodeStatus)' /\ IsFile(final, nodeStatus)'
    BY <1>4, <2>2 DEF TmpWritten, TreeFileInv, IsFile
  <2>4. tmp' # Partial
    BY <1>4, KindsDiffer DEF TmpWritten
  <2>5. ~overlapped => final' # Partial
    BY <1>4, KindsDiffer DEF TmpWritten, TreeFileInv, OneFlush
  <2> QED
    BY <1>4, <2>1, <2>3, <2>4, <2>5, FlusherStep DEF TmpWritten
<1>5. ASSUME NEW f \in Flushers, RenameTmp(f) PROVE TreeFileInv'
  <2>1. flusher' = [flusher EXCEPT ![f] = [at |-> "idle", data |-> <<>>]]
    BY <1>5 DEF RenameTmp, Idle
  <2>2. IsFile(tmp, nodeStatus)' /\ IsFile(final, nodeStatus)'
    BY <1>5 DEF RenameTmp, TreeFileInv, IsFile
  <2>3. tmp' # Partial
    BY <1>5, KindsDiffer DEF RenameTmp
  <2>4. ~overlapped => final' # Partial
    <3> SUFFICES ASSUME ~overlapped PROVE final' # Partial
      OBVIOUS
    <3>1. tmp # Partial
      BY <1>5 DEF RenameTmp, RenameTmp_At, TreeFileInv, OneFlush
    <3> QED
      BY <1>5, <3>1 DEF RenameTmp, TreeFileInv, OneFlush
  <2> QED
    BY <1>5, <2>1, <2>2, <2>3, <2>4, FlusherStep DEF RenameTmp, RenameTmp_At
<1>6. CASE Crash
  BY <1>6 DEF Crash, TreeFileInv, FlushersTyped, OneFlush
<1>7. CASE Reload
  <2>1. IsReload(reloaded)'
    <3>1. CASE final = Partial
      BY <1>7, <3>1 DEF Reload, IsReload
    <3>2. CASE final # Partial
      <4>1. reloaded' = Whole(Reclassify(final.nodes))
        BY <1>7, <3>2 DEF Reload
      <4>2. NoneOpen(Reclassify(final.nodes))
        BY DEF NoneOpen, Reclassify, Open
      <4> QED
        BY <4>1, <4>2 DEF IsReload
    <3> QED
      BY <3>1, <3>2
  <2>2. ~overlapped => reloaded' # Partial
    BY <1>7, KindsDiffer DEF Reload, TreeFileInv, OneFlush
  <2> QED
    BY <1>7, <2>1, <2>2 DEF Reload, TreeFileInv, FlushersTyped, OneFlush
<1>8. CASE UNCHANGED treeFileVars
  BY <1>8 DEF treeFileVars, TreeFileInv, FlushersTyped, OneFlush
<1> QED
  BY <1>1, <1>2, <1>3, <1>4, <1>5, <1>6, <1>7, <1>8 DEF TreeFileNext

(* At first there is no file.                                              *)
LEMMA TreeFileStarts == TreeFileInit => TreeFileInv
<1> SUFFICES ASSUME TreeFileInit PROVE TreeFileInv
  OBVIOUS
<1>1. nodeStatus \in [TreeNodes -> Statuses]
  BY DEF TreeFileInit, Statuses, Open
<1>2. \A f \in Flushers : flusher[f] = [at |-> "idle", data |-> <<>>]
  BY DEF TreeFileInit, Idle
<1>3. FlushersTyped(nodeStatus)
  BY <1>2 DEF TreeFileInit, FlushersTyped
<1>4. OneFlush
  BY <1>2 DEF TreeFileInit, OneFlush, NoFile, Partial
<1> QED
  BY <1>1, <1>3, <1>4 DEF TreeFileInit, TreeFileInv, IsFile, IsReload

(* A file of one flush at a time is whole and reads back.                  *)
LEMMA TreeFileReads == TreeFileInv => TreeReadableSerial
<1> SUFFICES ASSUME TreeFileInv PROVE TreeReadableSerial
  OBVIOUS
<1>1. \A n \in DOMAIN reloaded.nodes : reloaded.nodes[n] \notin Open
  BY DEF TreeFileInv, IsReload, NoFile, Partial, Whole, NoneOpen
<1>2. \A n \in DOMAIN final.nodes : final.nodes[n] \notin Open => final.nodes[n] = nodeStatus[n]
  BY DEF TreeFileInv, IsFile, NoFile, Partial, Whole, Agrees
<1> QED
  BY <1>1, <1>2 DEF TreeReadableSerial, TreeFileInv, OneFlush

(* tree.json after a crash at any moment (persistence.go), for any number  *)
(* of nodes, flushes and goroutines: as long as flushes did not overlap it *)
(* can be read, and what it says of an ended node is so.                   *)
THEOREM Readable == TreeFileSpec => []TreeReadableSerial
BY TreeFileStarts, TreeFileStep, TreeFileReads, PTL DEF TreeFileSpec

-----------------------------------------------------------------------------
(* The stream of a report. Frames one after the other: what is counted of  *)
(* them, and what is asked of each.                                        *)
IsWire(w) == \E V : w \in Seq(V)
SentencesOf(w) == {i \in DOMAIN w : w[i].event = "sentence"}
SectionOf(w, n) == {i \in SentencesOf(w) : w[i].section = n}
EachKept(w) ==
    \A i \in DOMAIN w :
       /\ w[i].event = "sentence" => w[i].refs # {} /\ w[i].refs \subseteq Citations
       /\ w[i].event = "section_done" => w[i].count = Cardinality(SectionOf(w, w[i].section))
       /\ w[i].event = "done" => i = Len(w) /\ w[i].count = Cardinality(SentencesOf(w))
NotDone(w) == \A i \in DOMAIN w : w[i].event # "done"

(* The sentences of a wire, and those of a section, can be counted.        *)
LEMMA WireCounts ==
    ASSUME NEW w, IsWire(w)
    PROVE  /\ Len(w) \in Nat /\ DOMAIN w = 1..Len(w)
           /\ IsFiniteSet(SentencesOf(w)) /\ Cardinality(SentencesOf(w)) \in Nat
           /\ \A n : IsFiniteSet(SectionOf(w, n)) /\ Cardinality(SectionOf(w, n)) \in Nat
<1>1. Len(w) \in Nat /\ DOMAIN w = 1..Len(w)
  BY DEF IsWire
<1>2. IsFiniteSet(1..Len(w))
  BY <1>1, FirstNumbers
<1>3. SentencesOf(w) \subseteq 1..Len(w) /\ \A n : SectionOf(w, n) \subseteq 1..Len(w)
  BY <1>1 DEF SentencesOf, SectionOf
<1> QED
  BY <1>1, <1>2, <1>3, FS_Subset, FS_CardinalityType

(* A frame more.                                                           *)
OneFrameMore(w, f, z) ==
    /\ IsWire(z) /\ Len(z) = Len(w) + 1 /\ z[Len(z)] = f
    /\ DOMAIN z = (DOMAIN w) \cup {Len(z)} /\ Len(z) \notin DOMAIN w
    /\ \A i \in DOMAIN w : z[i] = w[i]
    /\ SentencesOf(z) = IF f.event = "sentence" THEN SentencesOf(w) \cup {Len(z)} ELSE SentencesOf(w)
    /\ \A n : SectionOf(z, n) = IF f.event = "sentence" /\ f.section = n
                                THEN SectionOf(w, n) \cup {Len(z)} ELSE SectionOf(w, n)
OneMoreCounted(w, f, z) ==
    /\ Cardinality(SentencesOf(z)) = Cardinality(SentencesOf(w)) + (IF f.event = "sentence" THEN 1 ELSE 0)
    /\ \A n : Cardinality(SectionOf(z, n)) = Cardinality(SectionOf(w, n))
                 + (IF f.event = "sentence" /\ f.section = n THEN 1 ELSE 0)

(* Appending a frame changes nothing else, and adds it to what it is       *)
(* counted in.                                                             *)
LEMMA WireGrows ==
    ASSUME NEW w, IsWire(w), NEW f, NEW z, z = Append(w, f)
    PROVE  OneFrameMore(w, f, z)
<1>1. PICK V : w \in Seq(V)
  BY DEF IsWire
<1>2. PICK U : U = V \cup {f}
  OBVIOUS
<1>3. w \in Seq(U) /\ f \in U
  BY <1>1, <1>2
<1>4. /\ z \in Seq(U) /\ Len(z) = Len(w) + 1
      /\ DOMAIN z = (DOMAIN w) \cup {Len(w) + 1} /\ z[Len(w) + 1] = f
      /\ \A i \in DOMAIN w : z[i] = w[i] /\ i # Len(w) + 1
  BY <1>3, OneMore
<1>5. IsWire(z) /\ Len(z) = Len(w) + 1 /\ z[Len(z)] = f
      /\ DOMAIN z = (DOMAIN w) \cup {Len(z)} /\ Len(z) \notin DOMAIN w
      /\ \A i \in DOMAIN w : z[i] = w[i]
  BY <1>4 DEF IsWire
<1>6. SentencesOf(z) = IF f.event = "sentence" THEN SentencesOf(w) \cup {Len(z)} ELSE SentencesOf(w)
  BY <1>5 DEF SentencesOf
<1>7. ASSUME NEW n
      PROVE  SectionOf(z, n) = IF f.event = "sentence" /\ f.section = n
                               THEN SectionOf(w, n) \cup {Len(z)} ELSE SectionOf(w, n)
  <2>1. \A i \in SentencesOf(w) : i \in DOMAIN w
    BY DEF SentencesOf
  <2> QED
    BY <1>5, <1>6, <2>1 DEF SectionOf
<1> QED
  BY <1>5, <1>6, <1>7 DEF OneFrameMore

(* So the counts go up by one for a sentence and stay for any other frame. *)
LEMMA WireCounted ==
    ASSUME NEW w, IsWire(w), NEW f, NEW z, z = Append(w, f)
    PROVE  OneMoreCounted(w, f, z)
<1>1. OneFrameMore(w, f, z)
  BY WireGrows
<1>5. Len(z) \notin DOMAIN w
  BY <1>1 DEF OneFrameMore
<1>6. SentencesOf(z) = IF f.event = "sentence" THEN SentencesOf(w) \cup {Len(z)} ELSE SentencesOf(w)
  BY <1>1 DEF OneFrameMore
<1>7. \A n : SectionOf(z, n) = IF f.event = "sentence" /\ f.section = n
                               THEN SectionOf(w, n) \cup {Len(z)} ELSE SectionOf(w, n)
  BY <1>1 DEF OneFrameMore
<1>8. Len(z) \notin SentencesOf(w) /\ \A n : Len(z) \notin SectionOf(w, n)
  BY <1>5 DEF SentencesOf, SectionOf
<1>9. /\ IsFiniteSet(SentencesOf(w)) /\ Cardinality(SentencesOf(w)) \in Nat
      /\ \A n : IsFiniteSet(SectionOf(w, n)) /\ Cardinality(SectionOf(w, n)) \in Nat
  BY WireCounts
<1>10. \A S, x : IsFiniteSet(S) /\ x \notin S => Cardinality(S \cup {x}) = Cardinality(S) + 1
  BY FS_AddElement
<1>11. Cardinality(SentencesOf(z)) = Cardinality(SentencesOf(w)) + (IF f.event = "sentence" THEN 1 ELSE 0)
  <2>1. CASE f.event = "sentence"
    BY <1>6, <1>8, <1>9, <1>10, <2>1
  <2>2. CASE f.event # "sentence"
    BY <1>6, <1>9, <2>2
  <2> QED
    BY <2>1, <2>2
<1>12. ASSUME NEW n
       PROVE  Cardinality(SectionOf(z, n)) = Cardinality(SectionOf(w, n))
                 + (IF f.event = "sentence" /\ f.section = n THEN 1 ELSE 0)
  <2>1. CASE f.event = "sentence" /\ f.section = n
    BY <1>7, <1>8, <1>9, <1>10, <2>1
  <2>2. CASE ~(f.event = "sentence" /\ f.section = n)
    BY <1>7, <1>9, <2>2
  <2> QED
    BY <2>1, <2>2
<1> QED
  BY <1>11, <1>12 DEF OneMoreCounted

(* One more frame keeps what is asked of each, if it is asked of it too    *)
(* and the sections that were closed stay closed.                          *)
FrameKept(w, f) ==
    /\ f.event = "sentence" => /\ f.refs # {} /\ f.refs \subseteq Citations
                               /\ \A i \in DOMAIN w : w[i].event = "section_done" => w[i].section # f.section
    /\ f.event = "section_done" => f.count = Cardinality(SectionOf(w, f.section))
    /\ f.event = "done" => f.count = Cardinality(SentencesOf(w))

(* A frame of which that is asked keeps the wire as it is to be.           *)
LEMMA FrameSent ==
    ASSUME NEW w, IsWire(w), EachKept(w), NotDone(w), NEW f, FrameKept(w, f), NEW z, z = Append(w, f)
    PROVE  EachKept(z) /\ (f.event # "done" => NotDone(z))
<1>0. OneFrameMore(w, f, z)
  BY WireGrows
<1>1. /\ DOMAIN z = (DOMAIN w) \cup {Len(z)} /\ z[Len(z)] = f
      /\ \A i \in DOMAIN w : z[i] = w[i]
      /\ SentencesOf(z) = IF f.event = "sentence" THEN SentencesOf(w) \cup {Len(z)} ELSE SentencesOf(w)
      /\ \A n : SectionOf(z, n) = IF f.event = "sentence" /\ f.section = n
                                  THEN SectionOf(w, n) \cup {Len(z)} ELSE SectionOf(w, n)
  BY <1>0 DEF OneFrameMore
<1>2. ASSUME NEW i \in DOMAIN w
      PROVE  /\ z[i].event = "sentence" => z[i].refs # {} /\ z[i].refs \subseteq Citations
             /\ z[i].event = "section_done" => z[i].count = Cardinality(SectionOf(z, z[i].section))
             /\ z[i].event # "done"
  <2>1. z[i] = w[i] /\ w[i].event # "done"
    BY <1>1 DEF NotDone
  <2>2. w[i].event = "section_done" => SectionOf(z, w[i].section) = SectionOf(w, w[i].section)
    <3>1. w[i].event = "section_done" => ~(f.event = "sentence" /\ f.section = w[i].section)
      BY DEF FrameKept
    <3> QED
      BY <1>1, <3>1
  <2> QED
    BY <2>1, <2>2 DEF EachKept
<1>3. /\ f.event = "sentence" => f.refs # {} /\ f.refs \subseteq Citations
      /\ f.event = "section_done" => f.count = Cardinality(SectionOf(z, f.section))
      /\ f.event = "done" => f.count = Cardinality(SentencesOf(z))
  BY <1>1 DEF FrameKept
<1> QED
  BY <1>1, <1>2, <1>3 DEF EachKept, NotDone

(* Where the handler is, and what it has sent: nothing before it begins,   *)
(* then section by section, its counts those of the frames.                *)
HandlerAts == {"start", "log", "section", "sentence", "ended"}
HandlerStatuses == {0, 200, 400, 500, 503}
Handlers ==
    [at : HandlerAts, section : Nat, sentence : Nat, emitted : Nat, total : Nat,
     status : HandlerStatuses, returned : Nat]
Before(w, n) ==
    \A i \in DOMAIN w : w[i].event \in {"sentence", "section_done"} => w[i].section \in Nat /\ w[i].section < n
Inside(w, n) ==
    \A i \in DOMAIN w : /\ w[i].event = "sentence" => w[i].section \in Nat /\ w[i].section <= n
                        /\ w[i].event = "section_done" => w[i].section \in Nat /\ w[i].section < n
Progress(h, w) ==
    /\ h.at \in {"start", "log"} => w = <<>> /\ h.total = 0
    /\ h.at # "ended" => h.returned = 0 /\ NotDone(w)
    /\ h.at = "section" => Before(w, h.section)
    /\ h.at = "sentence" => Inside(w, h.section) /\ h.emitted = Cardinality(SectionOf(w, h.section))
    /\ h.at \in {"section", "sentence"} => h.total = Cardinality(SentencesOf(w))
    /\ h.returned = 0 \/ h.returned = Cardinality(SentencesOf(w))
AgentEntries == [agent : {"researcher", "writer", "verifier"}, outcome : {"ok", "error"}]
ReportInv ==
    /\ report \in Reports /\ handler \in Handlers /\ log \in Seq(AgentEntries)
    /\ handler.section \in 1..(Len(report) + 1)
    /\ handler.at = "sentence" => handler.section <= Len(report)
    /\ IsWire(wire) /\ EachKept(wire) /\ Progress(handler, wire)

(* The values the handler's steps use.                                     *)
LEMMA HandlerSets ==
    /\ "start" \in HandlerAts /\ "log" \in HandlerAts /\ "section" \in HandlerAts
    /\ "sentence" \in HandlerAts /\ "ended" \in HandlerAts
    /\ 0 \in HandlerStatuses /\ 200 \in HandlerStatuses /\ 400 \in HandlerStatuses
    /\ 500 \in HandlerStatuses /\ 503 \in HandlerStatuses
BY DEF HandlerAts, HandlerStatuses

(* The end, at any moment of the stream, with nothing more written.        *)
LEMMA StopStep ==
    ASSUME ReportInv, handler.at \in {"section", "sentence"}, Stop
    PROVE  /\ handler' \in Handlers /\ handler'.section = handler.section /\ handler'.at = "ended"
           /\ Progress(handler', wire)
<1>1. handler \in Handlers /\ handler' = [handler EXCEPT !.at = "ended", !.status = 200, !.returned = handler.total]
  BY DEF ReportInv, Stop
<1>2. handler' \in Handlers /\ handler'.section = handler.section /\ handler'.at = "ended"
      /\ handler'.returned = handler.total
  BY <1>1, HandlerSets DEF Handlers
<1>3. handler.total = Cardinality(SentencesOf(wire))
  BY DEF ReportInv, Progress
<1> QED
  BY <1>2, <1>3 DEF Progress

(* A frame is sent and the handler goes on, or it stops.                   *)
LEMMA SendStep ==
    ASSUME ReportInv, handler.at \in {"section", "sentence"}, UNCHANGED <<report, log>>,
           NEW f, FrameKept(wire, f), NEW h \in Handlers, Send(f, h),
           \A z : IsWire(z) /\ EachKept(z) /\ z = Append(wire, f) => Progress(h, z),
           h.section \in 1..(Len(report) + 1), h.at = "sentence" => h.section <= Len(report)
    PROVE  ReportInv'
<1>1. IsWire(wire) /\ EachKept(wire) /\ NotDone(wire)
  BY DEF ReportInv, Progress
<1>2. CASE wire' = Append(wire, f) /\ handler' = h
  <2>1. OneFrameMore(wire, f, Append(wire, f)) /\ EachKept(Append(wire, f))
    BY <1>1, WireGrows, FrameSent
  <2>2. IsWire(wire') /\ EachKept(wire')
    BY <1>2, <2>1 DEF OneFrameMore
  <2>3. Progress(handler', wire')
    BY <1>2, <2>2
  <2> QED
    BY <1>2, <2>2, <2>3 DEF ReportInv
<1>3. CASE UNCHANGED wire /\ Stop
  <2>1. /\ handler' \in Handlers /\ handler'.section = handler.section /\ handler'.at = "ended"
        /\ Progress(handler', wire)
    BY <1>3, StopStep
  <2> QED
    BY <1>3, <2>1 DEF ReportInv
<1> QED
  BY <1>2, <1>3 DEF Send, Written, WriteFails

(* A section begins with nothing sent of it, because all that was sent is  *)
(* of sections before.                                                     *)
LEMMA SectionStartStep == ReportInv /\ SectionStart => ReportInv'
<1> SUFFICES ASSUME ReportInv, SectionStart PROVE ReportInv'
  OBVIOUS
<1>1. PICK n : n = handler.section
  OBVIOUS
<1>2. PICK f : f = Frame("section_start", n, 0, {})
  OBVIOUS
<1>3. PICK h : h = [handler EXCEPT !.at = "sentence", !.sentence = 1, !.emitted = 0]
  OBVIOUS
<1>4. /\ handler.at = "section" /\ n <= Len(report) /\ Send(f, h) /\ UNCHANGED <<report, log>>
      /\ handler \in Handlers /\ n \in 1..(Len(report) + 1) /\ n \in Nat
      /\ handler.returned = 0 /\ NotDone(wire) /\ Before(wire, n) /\ IsWire(wire)
      /\ handler.total = Cardinality(SentencesOf(wire))
  BY <1>1, <1>2, <1>3 DEF SectionStart, ReportInv, Progress, Handlers
<1>5. h \in Handlers /\ h.at = "sentence" /\ h.section = n /\ h.emitted = 0 /\ h.returned = 0
      /\ h.total = handler.total
  <2>1. handler \in Handlers /\ handler.returned = 0
    BY <1>4
  <2>4. handler \in Handlers /\ "sentence" \in HandlerAts
    BY <2>1, HandlerSets
  <2>2. h \in Handlers
    BY ONLY <1>3, <2>4 DEF Handlers
  <2>3. h.at = "sentence" /\ h.section = n /\ h.emitted = 0 /\ h.returned = 0 /\ h.total = handler.total
    BY ONLY <1>1, <1>3, <2>1 DEF Handlers
  <2> QED
    BY <2>2, <2>3
<1>6. f.event = "section_start"
  BY <1>2 DEF Frame
<1>7. ASSUME NEW z, IsWire(z), EachKept(z), z = Append(wire, f) PROVE Progress(h, z)
  <2>1. OneFrameMore(wire, f, z) /\ OneMoreCounted(wire, f, z)
    BY <1>4, <1>7, WireGrows, WireCounted
  <2>2. SectionOf(wire, n) = {}
    BY <1>4 DEF Before, SectionOf, SentencesOf
  <2>3. SectionOf(z, n) = {}
    BY <1>6, <2>1, <2>2 DEF OneFrameMore
  <2>4. Inside(z, n) /\ NotDone(z)
    BY <1>4, <1>6, <2>1 DEF OneFrameMore, Before, Inside, NotDone
  <2>5. Cardinality(SentencesOf(z)) = Cardinality(SentencesOf(wire))
    <3>1. Cardinality(SentencesOf(wire)) \in Nat
      BY <1>4, WireCounts
    <3> QED
      BY <1>6, <2>1, <3>1 DEF OneMoreCounted
  <2> QED
    BY <1>4, <1>5, <2>3, <2>4, <2>5, FS_EmptySet DEF Progress
<1>8. FrameKept(wire, f)
  BY <1>6 DEF FrameKept
<1> QED
  BY <1>1, <1>4, <1>5, <1>7, <1>8, SendStep

(* A sentence counts for its section and for the report, or is left out    *)
(* when nothing it cites is known.                                         *)
LEMMA SentenceStep == ReportInv /\ StreamSentence => ReportInv'
<1> SUFFICES ASSUME ReportInv, StreamSentence PROVE ReportInv'
  OBVIOUS
<1>1. PICK n : n = handler.section
  OBVIOUS
<1>2. PICK j : j = handler.sentence
  OBVIOUS
<1>r. PICK refs : refs = Resolve(report[n][j])
  OBVIOUS
<1>3. /\ handler.at = "sentence" /\ n <= Len(report) /\ UNCHANGED <<report, log>>
      /\ handler \in Handlers /\ n \in 1..(Len(report) + 1) /\ n \in Nat
      /\ handler.returned = 0 /\ NotDone(wire) /\ Inside(wire, n) /\ IsWire(wire)
      /\ handler.total = Cardinality(SentencesOf(wire))
      /\ handler.emitted = Cardinality(SectionOf(wire, n))
      /\ handler.emitted \in Nat /\ handler.total \in Nat /\ j \in Nat
  BY <1>1, <1>2 DEF StreamSentence, ReportInv, Progress, Handlers
<1>4. CASE refs = {}
  <2>1. handler' = [handler EXCEPT !.sentence = j + 1] /\ wire' = wire
    BY <1>1, <1>2, <1>r, <1>4 DEF StreamSentence
  <2>2. handler' \in Handlers /\ handler'.at = "sentence" /\ handler'.section = n
        /\ handler'.emitted = handler.emitted /\ handler'.total = handler.total /\ handler'.returned = 0
    BY <1>1, <1>3, <2>1, HandlerSets DEF Handlers
  <2>3. Progress(handler', wire')
    BY <1>3, <2>1, <2>2 DEF Progress
  <2> QED
    BY <1>3, <2>1, <2>2, <2>3 DEF ReportInv
<1>5. CASE refs # {}
  <2>1. PICK f : f = Frame("sentence", n, j, refs)
    OBVIOUS
  <2>2. PICK h : h = [handler EXCEPT !.sentence = @ + 1, !.emitted = @ + 1, !.total = @ + 1]
    OBVIOUS
  <2>3. Send(f, h)
    BY <1>1, <1>2, <1>r, <1>5, <2>1, <2>2 DEF StreamSentence
  <2>9. handler.sentence + 1 \in Nat /\ handler.emitted + 1 \in Nat /\ handler.total + 1 \in Nat
    BY <1>2, <1>3
  <2>4. h \in Handlers /\ h.at = "sentence" /\ h.section = n /\ h.emitted = handler.emitted + 1
        /\ h.total = handler.total + 1 /\ h.returned = 0
    <3>1. handler \in Handlers /\ handler.returned = 0 /\ handler.at = "sentence"
      BY <1>3
    <3>2. h \in Handlers
      BY ONLY <2>2, <2>9, <3>1 DEF Handlers
    <3>3. h.at = "sentence" /\ h.section = n /\ h.emitted = handler.emitted + 1
          /\ h.total = handler.total + 1 /\ h.returned = 0
      BY ONLY <1>1, <2>2, <3>1 DEF Handlers
    <3> QED
      BY <3>2, <3>3
  <2>5. f.event = "sentence" /\ f.section = n /\ f.refs = refs
    BY <2>1 DEF Frame
  <2>6. refs \subseteq Citations
    BY <1>r DEF Resolve
  <2>7. FrameKept(wire, f)
    BY <1>3, <1>5, <2>5, <2>6 DEF FrameKept, Inside
  <2>8. ASSUME NEW z, IsWire(z), EachKept(z), z = Append(wire, f) PROVE Progress(h, z)
    <3>1. OneFrameMore(wire, f, z) /\ OneMoreCounted(wire, f, z)
      BY <1>3, <2>8, WireGrows, WireCounted
    <3>2. Inside(z, n) /\ NotDone(z)
      BY <1>3, <2>5, <3>1 DEF OneFrameMore, Inside, NotDone
    <3>3. Cardinality(SentencesOf(z)) = h.total /\ Cardinality(SectionOf(z, n)) = h.emitted
      BY <1>3, <2>4, <2>5, <3>1 DEF OneMoreCounted
    <3> QED
      BY <2>4, <3>2, <3>3 DEF Progress
  <2> QED
    BY <1>3, <2>3, <2>4, <2>7, <2>8, SendStep
<1> QED
  BY <1>4, <1>5

(* A section ends with its count, and the next is numbered after it.       *)
LEMMA SectionDoneStep == ReportInv /\ SectionDone => ReportInv'
<1> SUFFICES ASSUME ReportInv, SectionDone PROVE ReportInv'
  OBVIOUS
<1>1. PICK n : n = handler.section
  OBVIOUS
<1>2. PICK f : f = Frame("section_done", n, handler.emitted, {})
  OBVIOUS
<1>3. PICK h : h = [handler EXCEPT !.at = "section", !.section = @ + 1]
  OBVIOUS
<1>4. /\ handler.at = "sentence" /\ n <= Len(report) /\ Send(f, h) /\ UNCHANGED <<report, log>>
      /\ handler \in Handlers /\ n \in 1..(Len(report) + 1) /\ n \in Nat
      /\ handler.returned = 0 /\ NotDone(wire) /\ Inside(wire, n) /\ IsWire(wire)
      /\ handler.total = Cardinality(SentencesOf(wire))
      /\ handler.emitted = Cardinality(SectionOf(wire, n))
  BY <1>1, <1>2, <1>3 DEF SectionDone, ReportInv, Progress, Handlers
<1>5. h \in Handlers /\ h.at = "section" /\ h.section = n + 1 /\ h.returned = 0 /\ h.total = handler.total
  <2>1. handler \in Handlers /\ handler.returned = 0
    BY <1>4
  <2>2. handler.section + 1 \in Nat
    BY <1>1, <1>4
  <2>5. handler \in Handlers /\ "section" \in HandlerAts
    BY <2>1, HandlerSets
  <2>3. h \in Handlers
    BY ONLY <1>3, <2>2, <2>5 DEF Handlers
  <2>4. h.at = "section" /\ h.section = n + 1 /\ h.returned = 0 /\ h.total = handler.total
    BY ONLY <1>1, <1>3, <2>1 DEF Handlers
  <2> QED
    BY <2>3, <2>4
<1>6. f.event = "section_done" /\ f.section = n /\ f.count = handler.emitted
  BY <1>2 DEF Frame
<1>7. ASSUME NEW z, IsWire(z), EachKept(z), z = Append(wire, f) PROVE Progress(h, z)
  <2>1. OneFrameMore(wire, f, z) /\ OneMoreCounted(wire, f, z)
    BY <1>4, <1>7, WireGrows, WireCounted
  <2>2. Before(z, n + 1) /\ NotDone(z)
    <3>1. ASSUME NEW i \in DOMAIN z PROVE z[i].event # "done" /\ (z[i].event \in {"sentence", "section_done"}
             => z[i].section \in Nat /\ z[i].section < n + 1)
      <4>1. CASE i \in DOMAIN wire
        BY <1>4, <2>1, <4>1 DEF OneFrameMore, Inside, NotDone
      <4>2. CASE i = Len(z)
        BY <1>4, <1>6, <2>1, <4>2 DEF OneFrameMore
      <4> QED
        BY <2>1, <4>1, <4>2 DEF OneFrameMore
    <3> QED
      BY <3>1 DEF Before, NotDone
  <2>5. Cardinality(SentencesOf(z)) = Cardinality(SentencesOf(wire))
    <3>1. Cardinality(SentencesOf(wire)) \in Nat
      BY <1>4, WireCounts
    <3> QED
      BY <1>6, <2>1, <3>1 DEF OneMoreCounted
  <2> QED
    BY <1>4, <1>5, <2>2, <2>5 DEF Progress
<1>8. FrameKept(wire, f)
  BY <1>4, <1>6 DEF FrameKept
<1>9. n + 1 \in 1..(Len(report) + 1)
  BY <1>4
<1> QED
  BY <1>4, <1>5, <1>7, <1>8, <1>9, SendStep

(* The report ends with the count of all of them.                          *)
LEMMA StreamDoneStep == ReportInv /\ StreamDone => ReportInv'
<1> SUFFICES ASSUME ReportInv, StreamDone PROVE ReportInv'
  OBVIOUS
<1>1. PICK f : f = Frame("done", Len(report), handler.total, {})
  OBVIOUS
<1>2. PICK h : h = [handler EXCEPT !.at = "ended", !.status = 200, !.returned = handler.total]
  OBVIOUS
<1>3. /\ handler.at = "section" /\ Send(f, h) /\ UNCHANGED <<report, log>>
      /\ handler \in Handlers /\ handler.section \in 1..(Len(report) + 1) /\ IsWire(wire)
      /\ handler.total = Cardinality(SentencesOf(wire))
  BY <1>1, <1>2 DEF StreamDone, ReportInv, Progress
<1>4. h \in Handlers /\ h.at = "ended" /\ h.section = handler.section /\ h.returned = handler.total
  <2>1. handler \in Handlers /\ "ended" \in HandlerAts /\ 200 \in HandlerStatuses
    BY <1>3, HandlerSets
  <2>2. h \in Handlers
    BY ONLY <1>2, <2>1 DEF Handlers
  <2>3. h.at = "ended" /\ h.section = handler.section /\ h.returned = handler.total
    BY ONLY <1>2, <2>1 DEF Handlers
  <2> QED
    BY <2>2, <2>3
<1>5. f.event = "done" /\ f.count = handler.total
  BY <1>1 DEF Frame
<1>6. ASSUME NEW z, IsWire(z), EachKept(z), z = Append(wire, f) PROVE Progress(h, z)
  <2>1. OneMoreCounted(wire, f, z) /\ Cardinality(SentencesOf(wire)) \in Nat
    BY <1>3, <1>6, WireCounted, WireCounts
  <2>2. Cardinality(SentencesOf(z)) = Cardinality(SentencesOf(wire))
    BY <1>5, <2>1 DEF OneMoreCounted
  <2> QED
    BY <1>3, <1>4, <2>2 DEF Progress
<1>7. FrameKept(wire, f)
  BY <1>3, <1>5 DEF FrameKept
<1> QED
  BY <1>3, <1>4, <1>6, <1>7, SendStep

(* The steps from the start that end it: a frame that is none of the       *)
(* stream's is written, or nothing.                                        *)
LEMMA EndedStep ==
    ASSUME ReportInv, handler.at = "start", NEW code \in {200, 400, 500, 503}, Ended(code),
           UNCHANGED <<report, log>>,
           wire' = wire \/ \E f : wire' = Append(wire, f) /\ f.event \in {"pipeline_failed", "agent_completed"}
    PROVE  ReportInv'
<1>1. /\ handler \in Handlers /\ handler.section \in 1..(Len(report) + 1) /\ handler.returned = 0
      /\ IsWire(wire) /\ EachKept(wire) /\ NotDone(wire)
      /\ handler' = [handler EXCEPT !.at = "ended", !.status = code]
  BY DEF ReportInv, Progress, Ended
<1>2. handler' \in Handlers /\ handler'.section = handler.section /\ handler'.at = "ended" /\ handler'.returned = 0
  <2>1. code \in HandlerStatuses
    BY HandlerSets
  <2>4. handler \in Handlers /\ "ended" \in HandlerAts
        /\ handler' = [handler EXCEPT !.at = "ended", !.status = code]
    BY <1>1, HandlerSets
  <2>2. handler' \in Handlers
    BY ONLY <2>1, <2>4 DEF Handlers
  <2>3. handler'.section = handler.section /\ handler'.at = "ended" /\ handler'.returned = 0
    BY <1>1 DEF Handlers
  <2> QED
    BY <2>2, <2>3
<1>3. Progress(handler', wire')
  BY <1>2 DEF Progress
<1>4. IsWire(wire') /\ EachKept(wire')
  <2>1. CASE wire' = wire
    BY <1>1, <2>1
  <2>2. ASSUME NEW f, wire' = Append(wire, f), f.event \in {"pipeline_failed", "agent_completed"}
        PROVE  IsWire(wire') /\ EachKept(wire')
    <3>1. FrameKept(wire, f)
      BY <2>2 DEF FrameKept
    <3>2. PICK z : z = wire'
      OBVIOUS
    <3>3. OneFrameMore(wire, f, z) /\ EachKept(z)
      <4>1. z = Append(wire, f)
        BY <2>2, <3>2
      <4>2. IsWire(wire) /\ EachKept(wire) /\ NotDone(wire)
        BY <1>1
      <4>3. PICK w : w = wire
        OBVIOUS
      <4>4. IsWire(w) /\ EachKept(w) /\ NotDone(w) /\ FrameKept(w, f) /\ z = Append(w, f)
        BY <3>1, <4>1, <4>2, <4>3
      <4>5. OneFrameMore(w, f, z)
        BY ONLY <4>4, WireGrows
      <4>6. EachKept(z)
        BY ONLY <4>4, FrameSent
      <4> QED
        BY <4>3, <4>5, <4>6
    <3> QED
      BY <3>2, <3>3 DEF OneFrameMore
  <2> QED
    BY <2>1, <2>2
<1> QED
  BY <1>2, <1>3, <1>4 DEF ReportInv

(* The agents' log goes out before anything is counted.                    *)
LEMMA EmitStep == ReportInv /\ EmitAgentLog => ReportInv'
<1> SUFFICES ASSUME ReportInv, EmitAgentLog PROVE ReportInv'
  OBVIOUS
<1>1. /\ handler \in Handlers /\ handler.section \in 1..(Len(report) + 1) /\ handler.returned = 0
      /\ wire = <<>> /\ handler.total = 0 /\ UNCHANGED <<report, log>> /\ log \in Seq(AgentEntries)
  BY DEF ReportInv, Progress, EmitAgentLog
<1>2. /\ handler' \in Handlers /\ handler'.section = handler.section /\ handler'.at \in {"section", "ended"}
      /\ handler'.total = 0 /\ handler'.returned = 0
  <2>1. CASE handler' = [handler EXCEPT !.at = "section"]
    BY <1>1, <2>1, HandlerSets DEF Handlers
  <2>2. CASE handler' = [handler EXCEPT !.at = "ended", !.status = 200]
    <3>1. handler' \in Handlers
      BY <1>1, <2>2, HandlerSets DEF Handlers
    <3>2. /\ handler'.section = handler.section /\ handler'.at = "ended"
          /\ handler'.total = 0 /\ handler'.returned = 0
      BY <1>1, <2>2 DEF Handlers
    <3> QED
      BY <3>1, <3>2
  <2> QED
    BY <2>1, <2>2 DEF EmitAgentLog
<1>3. PICK z : z = wire'
  OBVIOUS
<1>4. IsWire(z) /\ \A i \in DOMAIN z : z[i].event = "agent_completed"
  <2>1. CASE wire' = wire
    <3>1. z \in Seq({}) /\ DOMAIN z = {}
      BY <1>1, <1>3, <2>1
    <3> QED
      BY <3>1 DEF IsWire
  <2>2. CASE wire' = wire \o [i \in DOMAIN log |-> Frame("agent_completed", 0, 0, {log[i].agent})]
    <3>1. PICK y : y = [i \in DOMAIN log |-> Frame("agent_completed", 0, 0, {log[i].agent})]
      OBVIOUS
    <3>2. PICK V : V = {Frame("agent_completed", 0, 0, {log[i].agent}) : i \in DOMAIN log}
      OBVIOUS
    <3>3. DOMAIN log = 1..Len(log) /\ Len(log) \in Nat
      BY <1>1
    <3>4. y \in Seq(V)
      <4>1. y = [i \in 1..Len(log) |-> y[i]] /\ \A i \in 1..Len(log) : y[i] \in V
        BY <3>1, <3>2, <3>3
      <4> QED
        BY <3>3, <4>1
    <3>5. z = y
      BY <1>1, <1>3, <2>2, <3>1, <3>4
    <3>6. \A i \in DOMAIN y : y[i].event = "agent_completed"
      BY <3>1 DEF Frame
    <3> QED
      BY <3>4, <3>5, <3>6 DEF IsWire
  <2> QED
    BY <2>1, <2>2 DEF EmitAgentLog, WriteFails
<1>5. EachKept(z) /\ NotDone(z) /\ (\A n : Before(z, n)) /\ SentencesOf(z) = {}
  BY <1>4 DEF EachKept, NotDone, Before, SentencesOf
<1>6. Progress(handler', z)
  BY <1>2, <1>5, FS_EmptySet DEF Progress
<1> QED
  BY <1>1, <1>2, <1>3, <1>4, <1>5, <1>6 DEF ReportInv

(* Every step keeps the account; those of the caller and of the client do  *)
(* not touch it.                                                           *)
LEMMA ReportStep == ReportInv /\ [ReportNext]_reportVars => ReportInv'
<1> SUFFICES ASSUME ReportInv, [ReportNext]_reportVars PROVE ReportInv'
  OBVIOUS
<1>1. CASE AgentRuns
  <2>1. log' \in Seq(AgentEntries)
    BY <1>1 DEF AgentRuns, ReportInv, AgentEntries
  <2> QED
    BY <1>1, <2>1 DEF AgentRuns, ReportInv
<1>2. CASE SourceFails
  <2>1. PICK f : f = Frame("pipeline_failed", 0, Attempts, {FailedAgent})
    OBVIOUS
  <2>2. f.event = "pipeline_failed"
    BY <2>1 DEF Frame
  <2>3. handler.at = "start" /\ UNCHANGED <<report, log>>
    BY <1>2 DEF SourceFails
  <2>4. /\ \E code \in {200, 400, 500, 503} : Ended(code)
        /\ wire' = wire \/ wire' = Append(wire, f)
    BY <1>2, <2>1 DEF SourceFails, Written, WriteFails
  <2> QED
    BY <2>2, <2>3, <2>4, EndedStep
<1>3. CASE EmptyCorpus
  <2>1. PICK f : f = Frame("agent_completed", 0, 0, {"researcher"})
    OBVIOUS
  <2>2. f.event = "agent_completed"
    BY <2>1 DEF Frame
  <2>3. handler.at = "start" /\ UNCHANGED <<report, log>> /\ Ended(200)
        /\ (wire' = wire \/ wire' = Append(wire, f))
    BY <1>3, <2>1 DEF EmptyCorpus, Written, WriteFails
  <2> QED
    BY <2>2, <2>3, EndedStep
<1>4. CASE Buffered
  BY <1>4, EndedStep DEF Buffered
<1>5. CASE StartStream
  <2>1. handler.at = "start" /\ UNCHANGED <<report, log, wire>>
        /\ handler' = [handler EXCEPT !.at = IF ask.mode = "agents" THEN "log" ELSE "section"]
    BY <1>5 DEF StartStream
  <2>2. handler \in Handlers /\ handler.returned = 0 /\ wire = <<>> /\ handler.total = 0
        /\ handler.section \in 1..(Len(report) + 1)
    BY <2>1 DEF ReportInv, Progress
  <2>3. /\ handler' \in Handlers /\ handler'.at \in {"log", "section"} /\ handler'.section = handler.section
        /\ handler'.total = 0 /\ handler'.returned = 0
    BY <2>1, <2>2, HandlerSets DEF Handlers
  <2>4. NotDone(wire) /\ (\A n : Before(wire, n)) /\ SentencesOf(wire) = {}
    BY <2>2 DEF NotDone, Before, SentencesOf
  <2>5. Progress(handler', wire)
    BY <2>2, <2>3, <2>4, FS_EmptySet DEF Progress
  <2> QED
    BY <2>1, <2>2, <2>3, <2>5 DEF ReportInv
<1>6. CASE EmitAgentLog
  BY <1>6, EmitStep
<1>7. CASE StreamAbandoned
  <2>1. handler.at \in {"section", "sentence"} /\ Stop /\ UNCHANGED <<report, log, wire>>
    BY <1>7 DEF StreamAbandoned
  <2>2. /\ handler' \in Handlers /\ handler'.section = handler.section /\ handler'.at = "ended"
        /\ Progress(handler', wire)
    BY <2>1, StopStep
  <2> QED
    BY <2>1, <2>2 DEF ReportInv
<1>8. CASE SectionStart
  BY <1>8, SectionStartStep
<1>9. CASE StreamSentence
  BY <1>9, SentenceStep
<1>10. CASE SectionDone
  BY <1>10, SectionDoneStep
<1>11. CASE StreamDone
  BY <1>11, StreamDoneStep
<1>12. ASSUME UNCHANGED <<report, log, handler, wire>> PROVE ReportInv'
  BY <1>12 DEF ReportInv
<1> QED
  BY <1>1, <1>2, <1>3, <1>4, <1>5, <1>6, <1>7, <1>8, <1>9, <1>10, <1>11, <1>12
     DEF ReportNext, reportVars, CallerLeaves, ReadFrame, ReadEnd

(* Nothing has been sent when a request comes.                             *)
LEMMA ReportStarts == ReportInit => ReportInv
<1> SUFFICES ASSUME ReportInit PROVE ReportInv
  OBVIOUS
<1>1. wire = <<>> /\ IsWire(wire) /\ DOMAIN wire = {}
  <2>1. <<>> \in Seq({})
    OBVIOUS
  <2> QED
    BY <2>1 DEF ReportInit, IsWire
<1>2. EachKept(wire) /\ NotDone(wire)
  BY <1>1 DEF EachKept, NotDone
<1>3. Len(report) \in Nat
  BY ReportAssumption DEF ReportInit
<1> QED
  BY <1>1, <1>2, <1>3, HandlerSets DEF ReportInit, ReportInv, Handlers, Progress

(* What was sent of the report: the places of its sentences are those that *)
(* are due before the place the handler has come to, in their order.       *)
SentPlaces(w) == {Place(w[i]) : i \in SentencesOf(w)}
OrderedIn(w) == \A i, j \in SentencesOf(w) : i < j => Precedes(Place(w[i]), Place(w[j]))
Reached(h) == <<h.section, IF h.at = "sentence" THEN h.sentence ELSE 1>>
DueBefore(h) == {p \in Due : Precedes(p, Reached(h))}
Covers(h, w) ==
    /\ OrderedIn(w)
    /\ h.at # "ended" => h.sentence >= 1 /\ SentPlaces(w) = DueBefore(h)
    /\ h.at \in {"start", "log"} => h.section = 1
    /\ NotDone(w) \/ SentPlaces(w) = Due
CoverInv == ReportInv /\ Covers(handler, wire)

(* The places that are due: those of the sentences whose citations resolve.*)
LEMMA DueAre ==
    ASSUME report \in Reports
    PROVE  /\ DOMAIN report = 1..Len(report) /\ Len(report) \in Nat
           /\ \A n \in DOMAIN report : DOMAIN report[n] = 1..Len(report[n]) /\ Len(report[n]) \in Nat
           /\ \A p \in Due : /\ p = <<p[1], p[2]>> /\ p[1] \in 1..Len(report) /\ p[2] \in 1..Len(report[p[1]])
                             /\ Resolve(report[p[1]][p[2]]) # {}
           /\ \A n \in 1..Len(report) : \A k \in 1..Len(report[n]) :
                 Resolve(report[n][k]) # {} => <<n, k>> \in Due
<1>1. report \in Seq(Seq(SUBSET Nat))
  BY ReportAssumption
<1>2. DOMAIN report = 1..Len(report) /\ Len(report) \in Nat
  BY <1>1
<1>3. \A n \in DOMAIN report : report[n] \in Seq(SUBSET Nat)
  BY <1>1, <1>2
<1>4. \A n \in DOMAIN report : DOMAIN report[n] = 1..Len(report[n]) /\ Len(report[n]) \in Nat
  BY <1>3
<1>5. \A p \in Due : \E n \in DOMAIN report : \E k \in DOMAIN report[n] :
         Resolve(report[n][k]) # {} /\ p = <<n, k>>
  BY DEF Due
<1>6. ASSUME NEW p \in Due
      PROVE  /\ p = <<p[1], p[2]>> /\ p[1] \in 1..Len(report) /\ p[2] \in 1..Len(report[p[1]])
             /\ Resolve(report[p[1]][p[2]]) # {}
  <2>1. PICK n \in DOMAIN report : \E k \in DOMAIN report[n] : Resolve(report[n][k]) # {} /\ p = <<n, k>>
    BY <1>5
  <2>2. PICK k \in DOMAIN report[n] : Resolve(report[n][k]) # {} /\ p = <<n, k>>
    BY <2>1
  <2>3. p[1] = n /\ p[2] = k
    BY <2>2
  <2> QED
    BY <1>2, <1>4, <2>2, <2>3
<1>7. ASSUME NEW n \in 1..Len(report), NEW k \in 1..Len(report[n]), Resolve(report[n][k]) # {}
      PROVE  <<n, k>> \in Due
  <2>1. n \in DOMAIN report /\ k \in {j \in DOMAIN report[n] : Resolve(report[n][j]) # {}}
    BY <1>2, <1>4, <1>7
  <2> QED
    BY <2>1 DEF Due
<1> QED
  BY <1>2, <1>4, <1>6, <1>7

(* A frame that is no sentence sends none.                                 *)
LEMMA OtherFrame ==
    ASSUME NEW w, IsWire(w), NEW f, f.event # "sentence", OrderedIn(w), NEW z, z = Append(w, f)
    PROVE  OrderedIn(z) /\ SentPlaces(z) = SentPlaces(w)
<1>1. OneFrameMore(w, f, z)
  BY WireGrows
<1>2. SentencesOf(z) = SentencesOf(w) /\ \A i \in SentencesOf(w) : z[i] = w[i]
  BY <1>1 DEF OneFrameMore, SentencesOf
<1> QED
  BY <1>2 DEF OrderedIn, SentPlaces

(* A sentence after all that were sent keeps them in order.                *)
LEMMA SentenceFrame ==
    ASSUME NEW w, IsWire(w), NEW f, f.event = "sentence", OrderedIn(w), NEW z, z = Append(w, f),
           \A p \in SentPlaces(w) : Precedes(p, Place(f))
    PROVE  OrderedIn(z) /\ SentPlaces(z) = SentPlaces(w) \cup {Place(f)}
<1>1. OneFrameMore(w, f, z)
  BY WireGrows
<1>2. /\ SentencesOf(z) = SentencesOf(w) \cup {Len(z)} /\ z[Len(z)] = f
      /\ \A i \in SentencesOf(w) : z[i] = w[i] /\ i \in 1..Len(w)
      /\ Len(z) = Len(w) + 1 /\ Len(w) \in Nat
  BY <1>1, WireCounts DEF OneFrameMore, SentencesOf
<1>3. ASSUME NEW i \in SentencesOf(z), NEW j \in SentencesOf(z), i < j
      PROVE  Precedes(Place(z[i]), Place(z[j]))
  <2>1. i \in SentencesOf(w)
    BY <1>2, <1>3
  <2>2. CASE j \in SentencesOf(w)
    BY <1>2, <1>3, <2>1, <2>2 DEF OrderedIn
  <2>3. CASE j = Len(z)
    BY <1>2, <2>1, <2>3 DEF SentPlaces
  <2> QED
    BY <1>2, <2>2, <2>3
<1>4. SentPlaces(z) = SentPlaces(w) \cup {Place(f)}
  BY <1>2 DEF SentPlaces
<1> QED
  BY <1>3, <1>4 DEF OrderedIn

(* What is due hangs on the report alone.                                  *)
LEMMA DueStays == ASSUME UNCHANGED report PROVE Due' = Due
BY DEF Due, Resolve

(* The end of the stream, at any moment, or any step that sends nothing    *)
(* and leaves the handler at its place.                                    *)
LEMMA CoverQuiet ==
    ASSUME CoverInv, ReportInv', UNCHANGED <<report, wire>>,
           handler'.at # "ended" =>
              /\ handler.at # "ended" /\ handler'.sentence >= 1
              /\ handler'.at \in {"start", "log"} => handler'.section = 1
              /\ DueBefore(handler') = DueBefore(handler)
    PROVE  CoverInv'
<1>1. Due' = Due
  BY DueStays
<1>2. DueBefore(handler)' = DueBefore(handler')
  BY <1>1 DEF DueBefore
<1>3. wire' = wire /\ OrderedIn(wire) /\ (NotDone(wire) \/ SentPlaces(wire) = Due)
  BY DEF CoverInv, Covers
<1>4. handler'.at # "ended" => SentPlaces(wire') = DueBefore(handler)'
  BY <1>2, <1>3 DEF CoverInv, Covers
<1> QED
  BY <1>1, <1>3, <1>4 DEF CoverInv, Covers

(* A frame that is no sentence, or a failed write, keeps the cover when    *)
(* what is due before the handler's next place is what was due before.     *)
LEMMA CoverSend ==
    ASSUME CoverInv, ReportInv', handler.at \in {"section", "sentence"}, UNCHANGED report,
           NEW f, f.event # "sentence", NEW h, Send(f, h),
           h.at # "ended" => /\ h.sentence >= 1 /\ h.at \notin {"start", "log"}
                             /\ DueBefore(h) = DueBefore(handler),
           f.event = "done" => DueBefore(handler) = Due
    PROVE  CoverInv'
<1>1. Due' = Due
  BY DueStays
<1>2. CASE UNCHANGED wire /\ Stop
  <2>1. handler'.at = "ended"
    BY <1>2 DEF Stop, CoverInv, ReportInv, Handlers
  <2> QED
    BY <1>2, <2>1, CoverQuiet
<1>3. CASE wire' = Append(wire, f) /\ handler' = h
  <2>1. IsWire(wire) /\ OrderedIn(wire) /\ SentPlaces(wire) = DueBefore(handler) /\ NotDone(wire)
    BY DEF CoverInv, Covers, ReportInv, Progress
  <2>2. OrderedIn(wire') /\ SentPlaces(wire') = SentPlaces(wire)
    BY <1>3, <2>1, OtherFrame
  <2>3. f.event # "done" => NotDone(wire')
    <3>1. OneFrameMore(wire, f, wire')
      BY <1>3, <2>1, WireGrows
    <3> QED
      BY <2>1, <3>1 DEF OneFrameMore, NotDone
  <2>4. DueBefore(handler)' = DueBefore(handler')
    BY <1>1 DEF DueBefore
  <2>5. Covers(handler, wire)'
    BY <1>1, <1>3, <2>1, <2>2, <2>3, <2>4 DEF Covers
  <2> QED
    BY <2>5 DEF CoverInv
<1> QED
  BY <1>2, <1>3 DEF Send, Written, WriteFails

(* A section's frames send no sentence, and none is due between its last   *)
(* sentence and the section after it.                                      *)
LEMMA CoverSection == CoverInv /\ ReportInv' /\ (SectionStart \/ SectionDone \/ StreamDone) => CoverInv'
<1> SUFFICES ASSUME CoverInv, ReportInv', SectionStart \/ SectionDone \/ StreamDone PROVE CoverInv'
  OBVIOUS
<1>1. handler \in Handlers /\ report \in Reports /\ handler.section \in 1..Len(report) + 1
      /\ (handler.at # "ended" => handler.sentence >= 1) /\ handler.sentence \in Nat
  BY DEF CoverInv, Covers, ReportInv, Handlers
<1>2. Len(report) \in Nat /\ \A p \in Due : p[1] \in 1..Len(report) /\ p[2] \in 1..Len(report[p[1]])
  BY <1>1, DueAre
<1>3. CASE SectionStart
  <2>1. PICK f : f = Frame("section_start", handler.section, 0, {})
    OBVIOUS
  <2>2. PICK h : h = [handler EXCEPT !.at = "sentence", !.sentence = 1, !.emitted = 0]
    OBVIOUS
  <2>3. handler.at = "section" /\ UNCHANGED report /\ Send(f, h) /\ f.event = "section_start"
    BY <1>3, <2>1, <2>2 DEF SectionStart, Frame
  <2>4. h.at = "sentence" /\ h.sentence = 1 /\ h.section = handler.section
    BY <1>1, <2>2 DEF Handlers
  <2>5. DueBefore(h) = DueBefore(handler)
    BY <2>3, <2>4 DEF DueBefore, Reached
  <2> QED
    BY <2>3, <2>4, <2>5, CoverSend
<1>4. CASE SectionDone
  <2>1. PICK f : f = Frame("section_done", handler.section, handler.emitted, {})
    OBVIOUS
  <2>2. PICK h : h = [handler EXCEPT !.at = "section", !.section = @ + 1]
    OBVIOUS
  <2>3. handler.at = "sentence" /\ UNCHANGED report /\ Send(f, h) /\ f.event = "section_done"
        /\ handler.sentence > Len(report[handler.section])
    BY <1>4, <2>1, <2>2 DEF SectionDone, Frame
  <2>4. h.at = "section" /\ h.sentence = handler.sentence /\ h.section = handler.section + 1
    BY <1>1, <2>2 DEF Handlers
  <2>5. ASSUME NEW p \in Due PROVE Precedes(p, Reached(h)) <=> Precedes(p, Reached(handler))
    <3>1. Reached(h) = <<handler.section + 1, 1>> /\ Reached(handler) = <<handler.section, handler.sentence>>
      BY <2>3, <2>4 DEF Reached
    <3>2. p[1] \in 1..Len(report) /\ p[2] \in 1..Len(report[p[1]]) /\ Len(report[p[1]]) \in Nat
      BY <1>1, <1>2, DueAre
    <3>3. p[1] = handler.section => p[2] < handler.sentence /\ p[2] >= 1
      <4>1. handler.section \in 1..Len(report) => Len(report[handler.section]) \in Nat
        BY <1>1, DueAre
      <4> QED
        BY <1>1, <2>3, <3>2, <4>1
    <3>4. Reached(h)[1] = handler.section + 1 /\ Reached(h)[2] = 1
          /\ Reached(handler)[1] = handler.section /\ Reached(handler)[2] = handler.sentence
      BY <3>1
    <3>5. p[1] \in Nat /\ p[2] \in Nat /\ p[2] >= 1 /\ handler.section \in Nat /\ handler.sentence \in Nat
      BY <1>1, <1>2, <3>2
    <3> QED
      BY ONLY <3>3, <3>4, <3>5 DEF Precedes
  <2>6. DueBefore(h) = DueBefore(handler)
    BY <2>5 DEF DueBefore
  <2> QED
    BY <1>1, <2>3, <2>4, <2>6, CoverSend
<1>5. CASE StreamDone
  <2>1. PICK f : f = Frame("done", Len(report), handler.total, {})
    OBVIOUS
  <2>2. PICK h : h = [handler EXCEPT !.at = "ended", !.status = 200, !.returned = handler.total]
    OBVIOUS
  <2>3. handler.at = "section" /\ UNCHANGED report /\ Send(f, h) /\ f.event = "done"
        /\ handler.section > Len(report)
    BY <1>5, <2>1, <2>2 DEF StreamDone, Frame
  <2>4. h.at = "ended"
    BY <1>1, <2>2 DEF Handlers
  <2>5. ASSUME NEW p \in Due PROVE Precedes(p, Reached(handler))
    <3>1. p[1] \in 1..Len(report) /\ Reached(handler) = <<handler.section, 1>>
      BY <1>2, <2>3 DEF Reached
    <3> QED
      BY <1>1, <1>2, <2>3, <3>1 DEF Precedes
  <2>6. DueBefore(handler) = Due
    BY <2>5 DEF DueBefore
  <2> QED
    BY <2>3, <2>4, <2>6, CoverSend
<1> QED
  BY <1>3, <1>4, <1>5

(* A sentence is sent when it is due, and the next place comes after it.   *)
LEMMA CoverSentence == CoverInv /\ ReportInv' /\ StreamSentence => CoverInv'
<1> SUFFICES ASSUME CoverInv, ReportInv', StreamSentence PROVE CoverInv'
  OBVIOUS
<1>1. PICK n : n = handler.section
  OBVIOUS
<1>2. PICK j : j = handler.sentence
  OBVIOUS
<1>r. PICK refs : refs = Resolve(report[n][j])
  OBVIOUS
<1>3. /\ handler \in Handlers /\ report \in Reports /\ n \in Nat /\ n \in 1..Len(report)
      /\ j \in Nat /\ j >= 1 /\ handler.at = "sentence" /\ j <= Len(report[n])
      /\ IsWire(wire) /\ OrderedIn(wire) /\ NotDone(wire) /\ SentPlaces(wire) = DueBefore(handler)
      /\ UNCHANGED report
  BY <1>1, <1>2 DEF CoverInv, Covers, ReportInv, Progress, Handlers, StreamSentence
<1>4. Due' = Due
  BY <1>3, DueStays
<1>5. Reached(handler) = <<n, j>>
  BY <1>1, <1>2, <1>3 DEF Reached
<1>6. j \in 1..Len(report[n])
  <2>1. Len(report[n]) \in Nat
    BY <1>3, DueAre
  <2> QED
    BY <1>3, <2>1
<1>7. ASSUME NEW h, h.at = "sentence", h.section = n, h.sentence = j + 1
      PROVE  DueBefore(h) = DueBefore(handler) \cup (IF refs = {} THEN {} ELSE {<<n, j>>})
  <2>1. Reached(h) = <<n, j + 1>>
    BY <1>7 DEF Reached
  <2>2. \A p \in Due : p = <<p[1], p[2]>> /\ p[1] \in 1..Len(report) /\ p[2] \in 1..Len(report[p[1]])
                       /\ Resolve(report[p[1]][p[2]]) # {}
    BY <1>3, DueAre
  <2>3. ASSUME NEW p \in Due
        PROVE  Precedes(p, Reached(h)) <=> Precedes(p, Reached(handler)) \/ p = <<n, j>>
    <3>1. p[1] \in Nat /\ p[2] \in Nat
      <4>1. p[1] \in 1..Len(report) /\ Len(report) \in Nat
        BY <1>3, <2>2, DueAre
      <4>2. p[2] \in 1..Len(report[p[1]]) /\ Len(report[p[1]]) \in Nat
        BY <1>3, <2>2, DueAre
      <4> QED
        BY <4>1, <4>2
    <3>2. p = <<n, j>> <=> p[1] = n /\ p[2] = j
      BY <2>2
    <3> QED
      BY <1>3, <1>5, <2>1, <3>1, <3>2 DEF Precedes
  <2>4. <<n, j>> \in Due <=> refs # {}
    <3>1. refs # {} => <<n, j>> \in Due
      BY <1>r, <1>3, <1>6, DueAre
    <3>2. <<n, j>> \in Due => Resolve(report[n][j]) # {}
      BY <2>2
    <3> QED
      BY <1>r, <3>1, <3>2
  <2> QED
    BY <2>3, <2>4 DEF DueBefore
<1>8. CASE refs = {}
  <2>1. handler' = [handler EXCEPT !.sentence = j + 1] /\ wire' = wire
    BY <1>1, <1>2, <1>r, <1>8 DEF StreamSentence
  <2>2. handler'.at = "sentence" /\ handler'.section = n /\ handler'.sentence = j + 1
    BY <1>1, <1>3, <2>1 DEF Handlers
  <2>3. DueBefore(handler') = DueBefore(handler)
    BY <1>7, <1>8, <2>2
  <2> QED
    BY <1>3, <2>1, <2>2, <2>3, CoverQuiet
<1>9. CASE refs # {}
  <2>1. PICK f : f = Frame("sentence", n, j, refs)
    OBVIOUS
  <2>2. PICK h : h = [handler EXCEPT !.sentence = @ + 1, !.emitted = @ + 1, !.total = @ + 1]
    OBVIOUS
  <2>3. Send(f, h)
    BY <1>1, <1>2, <1>r, <1>9, <2>1, <2>2 DEF StreamSentence
  <2>4. h.at = "sentence" /\ h.section = n /\ h.sentence = j + 1
    BY ONLY <1>1, <1>2, <1>3, <2>2 DEF Handlers
  <2>5. f.event = "sentence" /\ Place(f) = <<n, j>>
    BY <2>1 DEF Frame, Place
  <2>6. CASE UNCHANGED wire /\ Stop
    <3>1. handler'.at = "ended"
      BY <1>3, <2>6 DEF Stop, Handlers
    <3> QED
      BY <1>3, <2>6, <3>1, CoverQuiet
  <2>7. CASE wire' = Append(wire, f) /\ handler' = h
    <3>1. \A p \in SentPlaces(wire) : Precedes(p, Place(f))
      BY <1>3, <1>5, <2>5 DEF DueBefore
    <3>2. OrderedIn(wire') /\ SentPlaces(wire') = SentPlaces(wire) \cup {<<n, j>>}
      BY <1>3, <2>5, <2>7, <3>1, SentenceFrame
    <3>3. SentPlaces(wire') = DueBefore(h)
      BY <1>3, <1>7, <1>9, <2>4, <3>2
    <3>4. NotDone(wire')
      <4>1. OneFrameMore(wire, f, wire')
        BY <1>3, <2>7, WireGrows
      <4> QED
        BY <1>3, <2>5, <4>1 DEF OneFrameMore, NotDone
    <3>5. DueBefore(handler)' = DueBefore(h)
      BY <1>4, <2>7 DEF DueBefore
    <3>6. Covers(handler, wire)'
      BY <1>3, <2>4, <2>7, <3>2, <3>3, <3>4, <3>5 DEF Covers
    <3> QED
      BY <3>6 DEF CoverInv
  <2> QED
    BY <2>3, <2>6, <2>7 DEF Send, Written, WriteFails
<1> QED
  BY <1>8, <1>9

(* The first frames of a stream are no sentences.                          *)
LEMMA CoverStart ==
    CoverInv /\ ReportInv' /\ (SourceFails \/ EmptyCorpus \/ Buffered \/ StartStream \/ EmitAgentLog) => CoverInv'
<1> SUFFICES ASSUME CoverInv, ReportInv',
                    SourceFails \/ EmptyCorpus \/ Buffered \/ StartStream \/ EmitAgentLog
             PROVE  CoverInv'
  OBVIOUS
<1>1. /\ handler \in Handlers /\ handler.at \in {"start", "log"} /\ wire = <<>> /\ handler.section = 1
      /\ handler.sentence >= 1 /\ UNCHANGED report /\ report \in Reports
  BY DEF CoverInv, Covers, ReportInv, Progress, SourceFails, EmptyCorpus, Buffered, StartStream, EmitAgentLog
<1>2. Due' = Due
  BY <1>1, DueStays
<1>3. Reached(handler) = <<1, 1>>
  BY <1>1 DEF Reached
<1>4. \A p \in Due : ~Precedes(p, <<1, 1>>)
  <2>1. Len(report) \in Nat /\ (\A n \in 1..Len(report) : Len(report[n]) \in Nat)
        /\ \A p \in Due : p[1] \in 1..Len(report) /\ p[2] \in 1..Len(report[p[1]])
    BY <1>1, DueAre
  <2> QED
    BY <2>1 DEF Precedes
<1>5. (\A i \in DOMAIN wire' : wire'[i].event \in {"pipeline_failed", "agent_completed"})
      /\ \/ handler'.at = "ended"
         \/ handler'.at \in {"log", "section"} /\ handler'.section = 1 /\ handler'.sentence = handler.sentence
  <2>1. CASE SourceFails
    <3>0. \E code \in {200, 400, 500, 503} : Ended(code)
      BY <2>1 DEF SourceFails
    <3>1. handler'.at = "ended"
      BY <1>1, <3>0 DEF Ended, Handlers
    <3>2. wire' = wire \/ \E f : wire' = Append(wire, f) /\ f.event = "pipeline_failed"
      BY <2>1 DEF SourceFails, Written, WriteFails, Frame
    <3> QED
      BY <1>1, <3>1, <3>2
  <2>2. CASE EmptyCorpus
    <3>1. handler'.at = "ended"
      BY <1>1, <2>2 DEF EmptyCorpus, Ended, Handlers
    <3>2. wire' = wire \/ \E f : wire' = Append(wire, f) /\ f.event = "agent_completed"
      BY <2>2 DEF EmptyCorpus, Written, WriteFails, Frame
    <3> QED
      BY <1>1, <3>1, <3>2
  <2>3. CASE Buffered
    BY <1>1, <2>3 DEF Buffered, Ended, Handlers
  <2>4. CASE StartStream
    <3>1. handler' = [handler EXCEPT !.at = "log"] \/ handler' = [handler EXCEPT !.at = "section"]
      BY <2>4 DEF StartStream
    <3>2. handler'.at \in {"log", "section"} /\ handler'.section = 1 /\ handler'.sentence = handler.sentence
      BY <1>1, <3>1 DEF Handlers
    <3> QED
      BY <1>1, <2>4, <3>2 DEF StartStream
  <2>5. CASE EmitAgentLog
    <3>1. handler' = [handler EXCEPT !.at = "section"] \/ handler' = [handler EXCEPT !.at = "ended", !.status = 200]
      BY <2>5 DEF EmitAgentLog
    <3>2. \/ handler'.at = "ended"
          \/ handler'.at = "section" /\ handler'.section = 1 /\ handler'.sentence = handler.sentence
      BY <1>1, <3>1 DEF Handlers
    <3>3. \/ wire' = wire
          \/ wire' = wire \o [i \in DOMAIN log |-> Frame("agent_completed", 0, 0, {log[i].agent})]
      BY <2>5 DEF EmitAgentLog, WriteFails
    <3>4. \A i \in DOMAIN wire' : wire'[i].event = "agent_completed"
      <4>1. PICK y : y = [i \in DOMAIN log |-> Frame("agent_completed", 0, 0, {log[i].agent})]
        OBVIOUS
      <4>2. log \in Seq(AgentEntries)
        BY DEF CoverInv, ReportInv
      <4>3. DOMAIN y = 1..Len(log) /\ Len(log) \in Nat /\ \A i \in DOMAIN y : y[i].event = "agent_completed"
        BY <4>1, <4>2 DEF Frame
      <4>4. PICK V : V = {Frame("agent_completed", 0, 0, {log[i].agent}) : i \in DOMAIN log}
        OBVIOUS
      <4>5. y \in Seq(V)
        <5>1. y = [i \in 1..Len(log) |-> y[i]] /\ \A i \in 1..Len(log) : y[i] \in V
          BY <4>1, <4>3, <4>4
        <5> QED
          BY <4>3, <5>1
      <4>6. wire' = <<>> \/ wire' = y
        BY <1>1, <3>3, <4>1, <4>5
      <4> QED
        BY <4>3, <4>6
    <3> QED
      BY <3>2, <3>4
  <2> QED
    BY <2>1, <2>2, <2>3, <2>4, <2>5
<1>6. OrderedIn(wire') /\ SentPlaces(wire') = {} /\ NotDone(wire')
  BY <1>5 DEF OrderedIn, SentPlaces, SentencesOf, NotDone
<1>7. handler'.at # "ended" => DueBefore(handler)' = {}
  BY <1>2, <1>4, <1>5 DEF DueBefore, Reached
<1> QED
  BY <1>1, <1>5, <1>6, <1>7 DEF CoverInv, Covers

(* Every step keeps the order and the cover.                               *)
LEMMA CoverStep == CoverInv /\ [ReportNext]_reportVars => CoverInv'
<1> SUFFICES ASSUME CoverInv, [ReportNext]_reportVars PROVE CoverInv'
  OBVIOUS
<1>1. ReportInv'
  BY ReportStep DEF CoverInv
<1>2. CASE StreamAbandoned
  <2>1. UNCHANGED <<report, wire>> /\ handler'.at = "ended"
    BY <1>2 DEF StreamAbandoned, Stop, CoverInv, ReportInv, Handlers
  <2> QED
    BY <1>1, <2>1, CoverQuiet
<1>3. CASE UNCHANGED <<report, handler, wire>>
  BY <1>1, <1>3, CoverQuiet DEF CoverInv, Covers
<1>4. CASE AgentRuns \/ CallerLeaves \/ ReadFrame \/ ReadEnd \/ UNCHANGED reportVars
  <2>1. UNCHANGED <<report, handler, wire>>
    <3>1. CASE AgentRuns \/ CallerLeaves \/ UNCHANGED reportVars
      BY <3>1 DEF reportVars, AgentRuns, CallerLeaves
    <3>2. CASE ReadFrame
      BY <3>2 DEF ReadFrame
    <3>3. CASE ReadEnd
      BY <3>3 DEF ReadEnd
    <3> QED
      BY <1>4, <3>1, <3>2, <3>3
  <2> QED
    BY <1>3, <2>1
<1>5. CASE SourceFails \/ EmptyCorpus \/ Buffered \/ StartStream \/ EmitAgentLog
  BY <1>1, <1>5, CoverStart
<1>6. CASE SectionStart \/ SectionDone \/ StreamDone
  BY <1>1, <1>6, CoverSection
<1>7. CASE StreamSentence
  BY <1>1, <1>7, CoverSentence
<1> QED
  BY <1>2, <1>4, <1>5, <1>6, <1>7 DEF ReportNext

(* Nothing is due before the first sentence.                               *)
LEMMA CoverStarts == ReportInit => CoverInv
<1> SUFFICES ASSUME ReportInit PROVE CoverInv
  OBVIOUS
<1>1. ReportInv
  BY ReportStarts
<1>2. handler.at = "start" /\ handler.section = 1 /\ handler.sentence = 1 /\ wire = <<>> /\ report \in Reports
  BY DEF ReportInit
<1>3. SentPlaces(wire) = {} /\ OrderedIn(wire) /\ NotDone(wire)
  BY <1>2 DEF SentPlaces, OrderedIn, SentencesOf, NotDone
<1>4. \A p \in Due : ~Precedes(p, <<1, 1>>)
  <2>1. Len(report) \in Nat /\ (\A n \in 1..Len(report) : Len(report[n]) \in Nat)
        /\ \A p \in Due : p[1] \in 1..Len(report) /\ p[2] \in 1..Len(report[p[1]])
    BY <1>2, DueAre
  <2> QED
    BY <2>1 DEF Precedes
<1>5. DueBefore(handler) = {}
  BY <1>2, <1>4 DEF DueBefore, Reached
<1> QED
  BY <1>1, <1>2, <1>3, <1>5 DEF CoverInv, Covers

(* So the stream accounts for itself.                                      *)
LEMMA ReportAccounts == CoverInv => StreamAccounted
<1> SUFFICES ASSUME CoverInv PROVE StreamAccounted
  OBVIOUS
<1>1. Sentences = SentencesOf(wire) /\ \A n : OfSection(n) = SectionOf(wire, n)
  BY DEF Sentences, OfSection, SentencesOf, SectionOf
<1>2. {Place(wire[j]) : j \in Sentences} = SentPlaces(wire)
  BY <1>1 DEF SentPlaces
<1>3. EachKept(wire) /\ Progress(handler, wire) /\ OrderedIn(wire) /\ (NotDone(wire) \/ SentPlaces(wire) = Due)
  BY DEF CoverInv, Covers, ReportInv
<1>4. \A i \in DOMAIN wire : wire[i].event = "done" => SentPlaces(wire) = Due
  BY <1>3 DEF NotDone
<1> QED
  BY <1>1, <1>2, <1>3, <1>4 DEF EachKept, Progress, OrderedIn, StreamAccounted

(* What StreamLongFormReport (longform.go) sends tells how much it sent,   *)
(* and its sentences are the report's, for any reports, citations and      *)
(* failures of the connection.                                             *)
THEOREM Accounted == ReportSpec => []StreamAccounted
BY CoverStarts, CoverStep, ReportAccounts, PTL DEF ReportSpec

-----------------------------------------------------------------------------
(* The sidecars' clients. What an attempt may bring, and what is made of   *)
(* it: the context's own errors only when it has ended, and what is        *)
(* retried is never a verdict.                                             *)
AllEvents == HTTPStatuses \cup {"garbled", "refused", "aborted", "cut", "timeout"}
Retriable == {"unreachable", "plain", "context", "connection", "aborted"}
CallResults == {"none", "timeout", "cancelled", "unreachable", "plain"} \cup Verdicts

(* The errors that doOnce makes of what an attempt brings.                 *)
LEMMA ErrorsAre ==
    ASSUME NEW kind \in SidecarKinds, NEW e \in AllEvents
    PROVE  /\ ErrorOf(kind, e) \in Verdicts \cup Retriable
           /\ ErrorOf(kind, e) = "context" => e = "cut"
           /\ ErrorOf(kind, e) = "aborted" => e = "aborted"
<1>1. kind \in {"synthesis", "embedder", "deepreport", "tokenizer", "faithfulness"}
  BY SidecarAssumption
<1>2. CASE kind = "synthesis"
  BY <1>2 DEF ErrorOf, SynthesisError, Verdicts, Retriable
<1>3. CASE kind = "embedder"
  BY <1>3 DEF ErrorOf, EmbedderError, Verdicts, Retriable
<1>4. CASE kind = "deepreport"
  BY <1>4 DEF ErrorOf, DeepReportError, Verdicts, Retriable
<1>5. CASE kind = "tokenizer"
  BY <1>5 DEF ErrorOf, TokenizerError, Verdicts, Retriable
<1>6. CASE kind = "faithfulness"
  BY <1>6 DEF ErrorOf, FaithfulnessError, Verdicts, Retriable
<1> QED
  BY <1>1, <1>2, <1>3, <1>4, <1>5, <1>6

(* No loop tries again after a verdict.                                    *)
LEMMA RetriedAre ==
    ASSUME NEW kind \in SidecarKinds, NEW error, Retried(kind, error)
    PROVE  error \in Retriable
BY SidecarAssumption DEF Retried, Retriable

(* What a client promises to retry, it retries.                            *)
LEMMA PromisedAre ==
    ASSUME NEW kind \in SidecarKinds, NEW e \in PromisedRetry(kind)
    PROVE  Retried(kind, ErrorOf(kind, e))
<1>1. kind \in {"synthesis", "embedder", "deepreport", "tokenizer", "faithfulness"}
  BY SidecarAssumption
<1>2. CASE kind = "synthesis"
  BY <1>2 DEF PromisedRetry, ErrorOf, SynthesisError, Retried
<1>3. CASE kind = "embedder"
  BY <1>3 DEF PromisedRetry, ErrorOf, EmbedderError, Retried
<1>4. CASE kind = "deepreport"
  BY <1>4 DEF PromisedRetry, ErrorOf, DeepReportError, Retried
<1>5. CASE kind = "tokenizer"
  BY <1>5 DEF PromisedRetry, ServerErrors, ErrorOf, TokenizerError, Retried
<1>6. CASE kind = "faithfulness"
  BY <1>6 DEF PromisedRetry
<1> QED
  BY <1>1, <1>2, <1>3, <1>4, <1>5, <1>6

(* The caller's error: the context's end for the context's own errors, and *)
(* the last attempt's otherwise.                                           *)
LEMMA ResultsAre ==
    ASSUME NEW kind, NEW error \in Verdicts \cup Retriable
    PROVE  /\ Result(kind, error) \in CallResults
           /\ Result(kind, error) \in {"timeout", "cancelled"} => error \in {"context", "aborted"}
           /\ Result(kind, error) \in Verdicts => Result(kind, error) = error
           /\ EndOfContext(kind) \in {"timeout", "cancelled"}
BY DEF Result, EndOfContext, CallResults, Verdicts, Retriable

SidecarTypes ==
    /\ ended \in {"no", "deadline", "cancelled"} /\ calls \in 0..MaxSidecarCalls
    /\ sidecarCall \in [kind : SidecarKinds \cup {"none"},
                        at : {"resting", "attempt", "backoff", "returned"},
                        attempt : 0..(SidecarRetries + 1),
                        event : AllEvents \cup {"none"}, result : CallResults]
(* Until a call returns, each attempt that was made brought something that *)
(* is retried; there is one entry for each.                                *)
Tried(S, n, kind) ==
    /\ IsFiniteSet(S) /\ Cardinality(S) = n
    /\ \A q \in S : q[1] \in 1..n /\ ErrorOf(kind, q[2]) \in Retriable
SidecarInv ==
    /\ SidecarTypes
    /\ sidecarCall.at \in {"attempt", "backoff"} =>
          sidecarCall.kind \in SidecarKinds /\ sidecarCall.attempt \in 1..(SidecarRetries + 1)
    /\ sidecarCall.at = "attempt" => Tried(sent, sidecarCall.attempt - 1, sidecarCall.kind)
    /\ sidecarCall.at = "backoff" => /\ Tried(sent, sidecarCall.attempt, sidecarCall.kind)
                                     /\ sidecarCall.attempt <= SidecarRetries
    /\ SidecarTruthful

(* A call that the context ends returns no verdict.                        *)
LEMMA ReturnStep ==
    ASSUME SidecarInv, sidecarCall.at \in {"attempt", "backoff"}, ended # "no",
           Return(EndOfContext(sidecarCall.kind)), UNCHANGED <<ended, calls, sent>>
    PROVE  SidecarInv'
<1>1. PICK r : r = EndOfContext(sidecarCall.kind)
  OBVIOUS
<1>2. r \in {"timeout", "cancelled"}
  BY <1>1 DEF EndOfContext
<1>3. sidecarCall' = [sidecarCall EXCEPT !.at = "returned", !.result = r]
  BY <1>1 DEF Return
<1>4. SidecarTypes /\ r \in CallResults
  BY <1>2 DEF SidecarInv, CallResults
<1>5. sidecarCall'.at = "returned" /\ sidecarCall'.result = r
  BY <1>3, <1>4 DEF SidecarTypes
<1>6. SidecarTypes'
  BY <1>3, <1>4 DEF SidecarTypes
<1>7. SidecarTruthful'
  BY <1>2, <1>5 DEF SidecarTruthful, Verdicts
<1> QED
  BY <1>5, <1>6, <1>7 DEF SidecarInv

(* An attempt is tried again, or decides the call: then all before it      *)
(* brought what is retried, and its own answer is the one the caller gets. *)
LEMMA DoOnceStep ==
    ASSUME SidecarInv, DoOnce
    PROVE  SidecarInv'
<1>1. PICK e \in Events :
         /\ sent' = sent \cup {<<sidecarCall.attempt, e>>}
         /\ LET error == ErrorOf(sidecarCall.kind, e) IN
            IF Retried(sidecarCall.kind, error) /\ ~LastAttempt(sidecarCall.kind, sidecarCall.attempt)
            THEN sidecarCall' = [sidecarCall EXCEPT !.at = "backoff", !.event = e]
            ELSE sidecarCall' = [sidecarCall EXCEPT !.at = "returned", !.event = e,
                                      !.result = Result(sidecarCall.kind, error)]
  BY DEF DoOnce
<1>2. UNCHANGED <<ended, calls>> /\ sidecarCall.at = "attempt"
  BY DEF DoOnce
<1>3. PICK kind : kind = sidecarCall.kind
  OBVIOUS
<1>4. PICK n : n = sidecarCall.attempt
  OBVIOUS
<1>5. PICK error : error = ErrorOf(kind, e)
  OBVIOUS
<1>6. /\ kind \in SidecarKinds /\ n \in 1..(SidecarRetries + 1) /\ SidecarRetries \in Nat
      /\ Tried(sent, n - 1, kind) /\ SidecarTypes
  BY <1>2, <1>3, <1>4, SidecarAssumption DEF SidecarInv
<1>7. e \in AllEvents /\ (e \in {"aborted", "cut"} => ended # "no")
  BY DEF Events, AllEvents, HTTPStatuses
<1>8. /\ error \in Verdicts \cup Retriable
      /\ error = "context" => e = "cut"
      /\ error = "aborted" => e = "aborted"
  BY <1>5, <1>6, <1>7, ErrorsAre
<1>9. /\ IsFiniteSet(sent') /\ Cardinality(sent') = n
      /\ \A q \in sent : q[1] \in 1..n - 1 /\ ErrorOf(kind, q[2]) \in Retriable
      /\ sent' = sent \cup {<<n, e>>}
  <2>1. IsFiniteSet(sent) /\ Cardinality(sent) = n - 1
        /\ \A q \in sent : q[1] \in 1..n - 1 /\ ErrorOf(kind, q[2]) \in Retriable
    BY <1>6 DEF Tried
  <2>2. sent' = sent \cup {<<n, e>>}
    BY <1>1, <1>4
  <2>3. <<n, e>> \notin sent
    BY <1>6, <2>1
  <2>4. IsFiniteSet(sent') /\ Cardinality(sent') = (n - 1) + 1
    BY <2>1, <2>2, <2>3, FS_AddElement
  <2> QED
    BY <1>6, <2>1, <2>2, <2>4
<1>10. CASE Retried(kind, error) /\ ~LastAttempt(kind, n)
  <2>1. sidecarCall' = [sidecarCall EXCEPT !.at = "backoff", !.event = e]
    BY <1>1, <1>3, <1>4, <1>5, <1>10
  <2>2. SidecarTypes' /\ sidecarCall'.at = "backoff" /\ sidecarCall'.kind = kind /\ sidecarCall'.attempt = n
    BY <1>2, <1>3, <1>4, <1>6, <1>7, <2>1 DEF SidecarTypes
  <2>3. n <= SidecarRetries
    BY <1>6, <1>10 DEF LastAttempt
  <2>4. error \in Retriable
    BY <1>6, <1>10, RetriedAre
  <2>5. Tried(sent', n, kind)
    BY <1>5, <1>6, <1>9, <2>4 DEF Tried
  <2>6. SidecarTruthful'
    BY <2>2 DEF SidecarTruthful
  <2> QED
    BY <1>6, <2>2, <2>3, <2>5, <2>6 DEF SidecarInv
<1>11. CASE ~(Retried(kind, error) /\ ~LastAttempt(kind, n))
  <2>1. PICK r : r = Result(kind, error)
    OBVIOUS
  <2>2. sidecarCall' = [sidecarCall EXCEPT !.at = "returned", !.event = e, !.result = r]
    BY <1>1, <1>3, <1>4, <1>5, <1>11, <2>1
  <2>3. /\ r \in CallResults
        /\ r \in {"timeout", "cancelled"} => error \in {"context", "aborted"}
        /\ r \in Verdicts => r = error
    BY <1>8, <2>1, ResultsAre
  <2>4. SidecarTypes' /\ sidecarCall'.at = "returned" /\ sidecarCall'.kind = kind
        /\ sidecarCall'.attempt = n /\ sidecarCall'.event = e /\ sidecarCall'.result = r
    BY <1>2, <1>3, <1>4, <1>6, <1>7, <2>2, <2>3 DEF SidecarTypes
  <2>5. r \in {"timeout", "cancelled"} => ended' # "no"
    BY <1>2, <1>7, <1>8, <2>3
  <2>6. ASSUME r \in Verdicts
        PROVE  {p[1] : p \in {q \in sent' : ErrorOf(kind, q[2]) = r}} = {n}
    <3>1. \A q \in sent : ErrorOf(kind, q[2]) # r
      BY <1>9, <2>6 DEF Verdicts, Retriable
    <3>2. {q \in sent' : ErrorOf(kind, q[2]) = r} = {<<n, e>>}
      BY <1>5, <1>9, <2>3, <2>6, <3>1
    <3>3. \A S : S = {<<n, e>>} => {p[1] : p \in S} = {n}
      <4> TAKE S
      <4> HAVE S = {<<n, e>>}
      <4>1. \A p \in S : p[1] = n
        OBVIOUS
      <4>2. <<n, e>> \in S
        OBVIOUS
      <4> QED
        BY <4>1, <4>2
    <3> QED
      BY <3>2, <3>3
  <2>7. Retried(kind, ErrorOf(kind, e)) => Cardinality(sent') = SidecarRetries + 1
    <3> SUFFICES ASSUME Retried(kind, error) PROVE n = SidecarRetries + 1
      BY <1>5, <1>9
    <3> QED
      BY <1>6, <1>11 DEF LastAttempt
  <2>8. e \in PromisedRetry(kind) => Retried(kind, ErrorOf(kind, e))
    BY <1>6, PromisedAre
  <2>9. SidecarTruthful'
    BY <1>2, <2>4, <2>5, <2>6, <2>7, <2>8 DEF SidecarTruthful
  <2> QED
    BY <2>4, <2>9 DEF SidecarInv
<1> QED
  BY <1>10, <1>11

(* Every step of a call keeps that.                                        *)
LEMMA SidecarStep == SidecarInv /\ [SidecarNext]_sidecarVars => SidecarInv'
<1> SUFFICES ASSUME SidecarInv, [SidecarNext]_sidecarVars PROVE SidecarInv'
  OBVIOUS
<1>0. SidecarRetries \in Nat /\ MaxSidecarCalls \in Nat /\ SidecarTypes
  BY SidecarAssumption DEF SidecarInv
<1>1. ASSUME NEW kind \in SidecarKinds, StartCall(kind) PROVE SidecarInv'
  <2>1. /\ sidecarCall' = [kind |-> kind, at |-> "attempt", attempt |-> 1, event |-> "none", result |-> "none"]
        /\ calls' = calls + 1 /\ calls < MaxSidecarCalls /\ ended' = "no" /\ sent' = {}
    BY <1>1 DEF StartCall, Resting
  <2>2. SidecarTypes'
    BY <1>0, <2>1 DEF SidecarTypes, CallResults
  <2>3. Tried({}, 0, kind)
    BY FS_EmptySet DEF Tried
  <2>4. SidecarTruthful'
    BY <2>1 DEF SidecarTruthful
  <2> QED
    BY <1>0, <2>1, <2>2, <2>3, <2>4 DEF SidecarInv
<1>2. CASE ContextFirst
  BY <1>2, ReturnStep DEF ContextFirst
<1>3. CASE DoOnce
  BY <1>3, DoOnceStep
<1>4. CASE PauseOver
  <2>1. PICK n : n = sidecarCall.attempt
    OBVIOUS
  <2>2. n \in 1..SidecarRetries /\ sidecarCall.at = "backoff" /\ sidecarCall.kind \in SidecarKinds
        /\ Tried(sent, n, sidecarCall.kind)
    BY <1>0, <1>4, <2>1 DEF PauseOver, SidecarInv
  <2>3. sidecarCall' = [sidecarCall EXCEPT !.at = "attempt", !.attempt = n + 1] /\ UNCHANGED <<ended, calls, sent>>
    BY <1>4, <2>1 DEF PauseOver
  <2>4. n + 1 \in 0..SidecarRetries + 1 /\ n + 1 \in 1..SidecarRetries + 1 /\ (n + 1) - 1 = n
    BY <1>0, <2>2
  <2>5. SidecarTypes' /\ sidecarCall'.at = "attempt" /\ sidecarCall'.kind = sidecarCall.kind
        /\ sidecarCall'.attempt = n + 1
    BY <1>0, <2>3, <2>4 DEF SidecarTypes
  <2>6. SidecarTruthful'
    BY <2>5 DEF SidecarTruthful
  <2> QED
    BY <2>2, <2>3, <2>4, <2>5, <2>6 DEF SidecarInv
<1>5. CASE PauseCut
  BY <1>5, ReturnStep DEF PauseCut
<1>6. CASE CallContextEnds
  BY <1>6 DEF CallContextEnds, SidecarInv, SidecarTypes, SidecarTruthful
<1>7. CASE UNCHANGED sidecarVars
  <2>1. ended' = ended /\ sidecarCall' = sidecarCall /\ calls' = calls /\ sent' = sent
    BY <1>7 DEF sidecarVars
  <2>2. SidecarTruthful' <=> SidecarTruthful
    BY <2>1 DEF SidecarTruthful
  <2> QED
    BY <2>1, <2>2 DEF SidecarInv, SidecarTypes
<1> QED
  BY <1>1, <1>2, <1>3, <1>4, <1>5, <1>6, <1>7 DEF SidecarNext

(* No call has been made.                                                  *)
LEMMA SidecarStarts == SidecarInit => SidecarInv
BY SidecarAssumption DEF SidecarInit, Resting, SidecarInv, SidecarTypes, SidecarTruthful, CallResults

(* The error a sidecar's client returns (client.go of each) tells what     *)
(* happened, for any number of retries and calls.                          *)
THEOREM Truthful == SidecarSpec => []SidecarTruthful
<1>1. SidecarInv => SidecarTruthful
  BY DEF SidecarInv
<1> QED
  BY <1>1, SidecarStarts, SidecarStep, PTL DEF SidecarSpec

-----------------------------------------------------------------------------
(* The union-find. Its trees follow a root function: a document and its    *)
(* parent have the same root, and ranks grow along the way up.             *)
Forests == [parent : [ClusterDocs -> ClusterDocs], rank : [ClusterDocs -> Nat]]
Rooted(u, cl) ==
    /\ u \in Forests /\ cl \in [ClusterDocs -> ClusterDocs]
    /\ \A x \in ClusterDocs :
          /\ cl[u.parent[x]] = cl[x]
          /\ u.parent[x] = x <=> cl[x] = x
          /\ u.parent[x] # x => u.rank[x] < u.rank[u.parent[x]]
          /\ cl[cl[x]] = cl[x]

Walks == [uf : Forests, root : ClusterDocs]
Halve(w) ==
    LET p == w.uf.parent IN
    IF p[w.root] = w.root THEN w
    ELSE [uf |-> [w.uf EXCEPT !.parent[w.root] = p[p[w.root]]], root |-> p[p[w.root]]]

(* A recursion over the numbers up to n has a solution.                    *)
Iterates(f, Acc, G, b, n) ==
    f \in [0..n -> Acc] /\ \A k \in 0..n : f[k] = IF k = 0 THEN b ELSE G[f[k - 1]]
(* There is one: by how far it has come.                                   *)
LEMMA IterExists ==
    ASSUME NEW Acc, NEW G \in [Acc -> Acc], NEW b \in Acc, NEW n \in Nat
    PROVE  \E f : Iterates(f, Acc, G, b, n)
<1> DEFINE Solves(f, m) == /\ f \in [0..m -> Acc]
                           /\ \A k \in 0..m : f[k] = IF k = 0 THEN b ELSE G[f[k - 1]]
           T == {m \in Nat : \E f : Solves(f, m)}
<1>1. 0 \in T
  <2>1. Solves([k \in 0..0 |-> b], 0)
    OBVIOUS
  <2> HIDE DEF Solves
  <2> QED
    BY <2>1
<1>2. ASSUME NEW m \in Nat, m \in T PROVE m + 1 \in T
  <2>1. PICK f : Solves(f, m)
    <3> HIDE DEF Solves
    <3> QED
      BY <1>2
  <2> DEFINE g == [k \in 0..m + 1 |-> IF k = m + 1 THEN G[f[m]] ELSE f[k]]
  <2>2. f[m] \in Acc /\ G[f[m]] \in Acc
    BY <2>1
  <2>3. \A k \in 0..m + 1 : k = m + 1 \/ k \in 0..m
    OBVIOUS
  <2>4. g \in [0..m + 1 -> Acc]
    BY <2>1, <2>2, <2>3
  <2>5. \A k \in 0..m : g[k] = f[k]
    OBVIOUS
  <2>6. ASSUME NEW k \in 0..m + 1 PROVE g[k] = IF k = 0 THEN b ELSE G[g[k - 1]]
    <3>1. CASE k = m + 1
      <4>1. g[k] = G[f[m]] /\ k # 0 /\ k - 1 = m /\ m \in 0..m
        BY <3>1
      <4>2. g[m] = f[m]
        BY <2>5, <4>1
      <4> HIDE DEF g
      <4> QED
        BY <4>1, <4>2
    <3>2. CASE k \in 0..m
      <4>1. g[k] = f[k] /\ (k # 0 => g[k - 1] = f[k - 1])
        <5>1. k # 0 => k - 1 \in 0..m
          BY <3>2
        <5> HIDE DEF g
        <5> QED
          BY <2>5, <3>2, <5>1
      <4> HIDE DEF g
      <4> QED
        BY <2>1, <3>2, <4>1
    <3> QED
      BY <2>3, <3>1, <3>2
  <2>7. Solves(g, m + 1)
    <3> HIDE DEF g
    <3> QED
      BY <2>4, <2>6
  <2> HIDE DEF Solves
  <2> QED
    BY <2>7
<1>3. n \in T
  <2> HIDE DEF T
  <2> QED
    BY <1>1, <1>2, EveryNumber
<1> QED
  BY <1>3 DEF Iterates

(* Halving a path goes from walk to walk.                                  *)
LEMMA HalveTyped == \A w \in Walks : Halve(w) \in Walks
<1> SUFFICES ASSUME NEW w \in Walks PROVE Halve(w) \in Walks
  OBVIOUS
<1>1. PICK p : p = w.uf.parent
  OBVIOUS
<1>2. PICK r : r = w.root
  OBVIOUS
<1>3. PICK u : u = w.uf
  OBVIOUS
<1>4. u \in Forests /\ r \in ClusterDocs /\ p \in [ClusterDocs -> ClusterDocs] /\ u.parent = p
      /\ u.rank \in [ClusterDocs -> Nat]
  BY <1>1, <1>2, <1>3 DEF Walks, Forests
<1>5. p[p[r]] \in ClusterDocs
  BY <1>4
<1>6. [u EXCEPT !.parent[r] = p[p[r]]] \in Forests
  BY <1>4, <1>5 DEF Forests
<1>7. Halve(w) = IF p[r] = r THEN w ELSE [uf |-> [u EXCEPT !.parent[r] = p[p[r]]], root |-> p[p[r]]]
  BY <1>1, <1>2, <1>3 DEF Halve
<1> QED
  BY <1>5, <1>6, <1>7 DEF Walks

(* find is what is left of that after as many steps as there are documents.*)
LEMMA FindIs ==
    ASSUME NEW u \in Forests, NEW x \in ClusterDocs
    PROVE  \E walk \in [0..NumDocs -> Walks] :
              /\ walk[0] = [uf |-> u, root |-> x] /\ Find(u, x) = walk[NumDocs]
              /\ \A k \in 1..NumDocs : walk[k] = Halve(walk[k - 1])
<1> DEFINE Step(f, k) == IF k = 0 THEN [uf |-> u, root |-> x]
                         ELSE LET w == f[k - 1]  p == w.uf.parent IN
                              IF p[w.root] = w.root THEN w
                              ELSE [uf |-> [w.uf EXCEPT !.parent[w.root] = p[p[w.root]]], root |-> p[p[w.root]]]
           Solves(f) == f = [k \in 0..NumDocs |-> Step(f, k)]
           it == CHOOSE f : Solves(f)
           G == [w \in Walks |-> Halve(w)]
<1>1. NumDocs \in Nat
  BY ClusterAssumption
<1>2. PICK b : b = [uf |-> u, root |-> x]
  OBVIOUS
<1>3. b \in Walks /\ G \in [Walks -> Walks]
  BY <1>2, HalveTyped DEF Walks
<1>4. PICK f : f \in [0..NumDocs -> Walks] /\ \A k \in 0..NumDocs : f[k] = IF k = 0 THEN b ELSE G[f[k - 1]]
  <2>1. PICK g : g = G
    OBVIOUS
  <2>2. g \in [Walks -> Walks]
    BY <1>3, <2>1
  <2>3. \E f : Iterates(f, Walks, g, b, NumDocs)
    BY <1>1, <1>3, <2>2, IterExists
  <2> HIDE DEF G
  <2> QED
    BY <2>1, <2>3 DEF Iterates
<1>5. \A k \in 0..NumDocs : k # 0 => k - 1 \in 0..NumDocs /\ f[k - 1] \in Walks
  BY <1>1, <1>4
<1>6. \A k \in 0..NumDocs : Step(f, k) = IF k = 0 THEN b ELSE Halve(f[k - 1])
  BY <1>2 DEF Halve
<1>7. \A k \in 0..NumDocs : f[k] = IF k = 0 THEN b ELSE Halve(f[k - 1])
  BY <1>4, <1>5
<1>8. Solves(f)
  <2>1. f = [k \in 0..NumDocs |-> f[k]]
    BY <1>4
  <2> HIDE DEF Step
  <2>2. \A k \in 0..NumDocs : f[k] = Step(f, k)
    BY <1>6, <1>7
  <2> QED
    BY <2>1, <2>2
<1>9. Solves(it)
  <2> HIDE DEF Solves
  <2> QED
    BY <1>8
<1>10. Find(u, x) = it[NumDocs]
  BY DEF Find
<1> HIDE DEF it
<1>11. \A k \in 0..NumDocs : it[k] = Step(it, k)
  <2> HIDE DEF Step
  <2> QED
    BY <1>9
<1>12. it[0] = b
  <2>1. 0 \in 0..NumDocs
    BY <1>1
  <2>2. Step(it, 0) = b
    BY <1>2
  <2> HIDE DEF Step
  <2> QED
    BY <1>11, <2>1, <2>2
<1>13. \A k \in 1..NumDocs : it[k] = Halve(it[k - 1])
  <2> TAKE k \in 1..NumDocs
  <2>1. k \in 0..NumDocs /\ k # 0
    BY <1>1
  <2>2. Step(it, k) = Halve(it[k - 1])
    BY <2>1 DEF Halve
  <2> QED
    BY <1>11, <2>1, <2>2
<1>14. \A k \in 0..NumDocs : it[k] \in Walks
  <2> DEFINE T == {k \in Nat : k <= NumDocs => it[k] \in Walks}
  <2>1. 0 \in T
    BY <1>3, <1>12
  <2>2. ASSUME NEW k \in Nat, k \in T PROVE k + 1 \in T
    <3> SUFFICES ASSUME k + 1 <= NumDocs PROVE it[k + 1] \in Walks
      OBVIOUS
    <3>1. it[k] \in Walks
      BY <1>1, <2>2
    <3>2. k + 1 \in 1..NumDocs /\ (k + 1) - 1 = k
      BY <1>1
    <3>3. it[k + 1] = Halve(it[k])
      BY <1>13, <3>2
    <3> QED
      BY <3>1, <3>3, HalveTyped
  <2> HIDE DEF T
  <2>3. \A k \in Nat : k \in T
    BY <2>1, <2>2, EveryNumber
  <2> QED
    BY <1>1, <2>3 DEF T
<1>15. it \in [0..NumDocs -> Walks]
  <2>1. it = [k \in 0..NumDocs |-> Step(it, k)]
    <3> HIDE DEF Step
    <3> QED
      BY <1>9
  <2> HIDE DEF Step
  <2> QED
    BY <1>14, <2>1
<1> QED
  BY <1>2, <1>10, <1>12, <1>13, <1>15

(* Halving keeps the root function and the ranks, and climbs until it is   *)
(* at the root.                                                            *)
LEMMA HalveKeeps ==
    ASSUME NEW w \in Walks, NEW cl, Rooted(w.uf, cl)
    PROVE  /\ Rooted(Halve(w).uf, cl) /\ cl[Halve(w).root] = cl[w.root]
           /\ Halve(w).uf.rank = w.uf.rank
           /\ cl[w.root] = w.root => Halve(w) = w
           /\ cl[w.root] # w.root => w.uf.rank[w.root] < w.uf.rank[Halve(w).root]
<1>1. PICK p : p = w.uf.parent
  OBVIOUS
<1>2. PICK r : r = w.root
  OBVIOUS
<1>3. PICK u : u = w.uf
  OBVIOUS
<1>4. u \in Forests /\ r \in ClusterDocs /\ p \in [ClusterDocs -> ClusterDocs] /\ u.parent = p
      /\ u.rank \in [ClusterDocs -> Nat]
  BY <1>1, <1>2, <1>3 DEF Walks, Forests
<1>5. /\ cl \in [ClusterDocs -> ClusterDocs]
      /\ \A x \in ClusterDocs :
            /\ cl[p[x]] = cl[x]
            /\ p[x] = x <=> cl[x] = x
            /\ p[x] # x => u.rank[x] < u.rank[p[x]]
            /\ cl[cl[x]] = cl[x]
  BY <1>3, <1>4 DEF Rooted
<1>6. Halve(w) = IF p[r] = r THEN w ELSE [uf |-> [u EXCEPT !.parent[r] = p[p[r]]], root |-> p[p[r]]]
  BY <1>1, <1>2, <1>3 DEF Halve
<1>7. CASE p[r] = r
  BY <1>2, <1>3, <1>4, <1>5, <1>6, <1>7
<1>8. CASE p[r] # r
  <2>1. PICK v : v = [u EXCEPT !.parent[r] = p[p[r]]]
    OBVIOUS
  <2>2. PICK q : q = p[p[r]]
    OBVIOUS
  <2>3. q \in ClusterDocs /\ p[r] \in ClusterDocs
    BY <1>4, <2>2
  <2>4. v.rank = u.rank /\ v.parent = [p EXCEPT ![r] = q] /\ v \in Forests
    BY <1>4, <2>1, <2>2, <2>3 DEF Forests
  <2>5. cl[q] = cl[r] /\ u.rank[r] < u.rank[q] /\ q # r
    <3>1. cl[q] = cl[p[r]] /\ cl[p[r]] = cl[r]
      BY <1>4, <1>5, <2>2, <2>3
    <3>2. u.rank[r] < u.rank[p[r]]
      BY <1>4, <1>5, <1>8
    <3>3. q = p[r] \/ u.rank[p[r]] < u.rank[q]
      BY <1>5, <2>2, <2>3
    <3>4. u.rank[r] \in Nat /\ u.rank[p[r]] \in Nat /\ u.rank[q] \in Nat
      BY <1>4, <2>3
    <3> QED
      BY <3>1, <3>2, <3>3, <3>4
  <2>6. Rooted(v, cl)
    <3>1. ASSUME NEW x \in ClusterDocs
          PROVE  /\ cl[v.parent[x]] = cl[x]
                 /\ v.parent[x] = x <=> cl[x] = x
                 /\ v.parent[x] # x => v.rank[x] < v.rank[v.parent[x]]
                 /\ cl[cl[x]] = cl[x]
      <4>1. v.parent[x] = IF x = r THEN q ELSE p[x]
        BY <1>4, <2>3, <2>4
      <4>2. CASE x = r
        BY <1>4, <1>5, <1>8, <2>4, <2>5, <4>1, <4>2
      <4>3. CASE x # r
        BY <1>5, <2>4, <4>1, <4>3
      <4> QED
        BY <4>2, <4>3
    <3> QED
      BY <1>5, <2>4, <3>1 DEF Rooted
  <2>7. Halve(w).uf = v /\ Halve(w).root = q
    BY <1>6, <1>8, <2>1, <2>2
  <2> QED
    BY <1>2, <1>3, <1>4, <1>5, <1>8, <2>4, <2>5, <2>6, <2>7
<1> QED
  BY <1>7, <1>8

(* find returns the root of the document and keeps the sets.               *)
LEMMA FindRoots ==
    ASSUME NEW u, NEW cl, Rooted(u, cl), NEW x \in ClusterDocs
    PROVE  Find(u, x) \in Walks /\ Find(u, x).root = cl[x] /\ Rooted(Find(u, x).uf, cl)
<1>1. u \in Forests /\ NumDocs \in Nat \ {0} /\ ClusterDocs = 1..NumDocs
      /\ u.rank \in [ClusterDocs -> Nat]
  BY ClusterAssumption DEF Rooted, Forests, ClusterDocs
<1>2. PICK walk \in [0..NumDocs -> Walks] :
              /\ walk[0] = [uf |-> u, root |-> x] /\ Find(u, x) = walk[NumDocs]
              /\ \A k \in 1..NumDocs : walk[k] = Halve(walk[k - 1])
  <2>1. u \in Forests
    BY <1>1
  <2> QED
    BY <2>1, FindIs
<1> DEFINE Above(y) == {z \in ClusterDocs : u.rank[y] < u.rank[z]}
           Holds2(w, k) == /\ Rooted(w.uf, cl) /\ cl[w.root] = cl[x] /\ w.uf.rank = u.rank
                           /\ cl[w.root] = w.root \/ Cardinality(Above(w.root)) + k < NumDocs
           T == {k \in Nat : k <= NumDocs => Holds2(walk[k], k)}
<1>3. ASSUME NEW y \in ClusterDocs
      PROVE  /\ IsFiniteSet(Above(y)) /\ Cardinality(Above(y)) \in Nat /\ Cardinality(Above(y)) < NumDocs
             /\ \A z \in Above(y) : Cardinality(Above(z)) < Cardinality(Above(y))
  <2>1. IsFiniteSet(ClusterDocs) /\ Cardinality(ClusterDocs) = NumDocs
    BY <1>1, FirstNumbers
  <2>2. Above(y) \subseteq ClusterDocs /\ y \notin Above(y)
    BY <1>1
  <2>3. \A z \in Above(y) : Above(z) \subseteq Above(y) /\ z \notin Above(z) /\ z \in ClusterDocs
    <3> SUFFICES ASSUME NEW z \in Above(y), NEW t \in Above(z)
                 PROVE  t \in Above(y)
      BY <1>1
    <3>1. u.rank[y] \in Nat /\ u.rank[z] \in Nat /\ u.rank[t] \in Nat
      BY <1>1
    <3> QED
      BY <3>1
  <2>4. \A A, B : IsFiniteSet(B) /\ A \subseteq B /\ A # B =>
            Cardinality(A) \in Nat /\ Cardinality(B) \in Nat /\ Cardinality(A) < Cardinality(B)
    BY FS_Subset, FS_CardinalityType
  <2>5. IsFiniteSet(Above(y))
    BY <2>1, <2>2, FS_Subset
  <2> HIDE DEF Above
  <2>6. Cardinality(Above(y)) \in Nat /\ Cardinality(Above(y)) < NumDocs
    BY <2>1, <2>2, <2>4
  <2>7. \A z \in Above(y) : Cardinality(Above(z)) < Cardinality(Above(y))
    BY <2>3, <2>4, <2>5
  <2> QED
    BY <2>5, <2>6, <2>7
<1>4. 0 \in T
  <2>1. Cardinality(Above(x)) \in Nat /\ Cardinality(Above(x)) < NumDocs
    BY <1>3
  <2> HIDE DEF Above
  <2>2. walk[0].uf = u /\ walk[0].root = x
    BY <1>2
  <2>3. Holds2(walk[0], 0)
    BY <2>1, <2>2
  <2> QED
    BY <2>3
<1>5. ASSUME NEW k \in Nat, k \in T PROVE k + 1 \in T
  <2> SUFFICES ASSUME k + 1 <= NumDocs PROVE Holds2(walk[k + 1], k + 1)
    OBVIOUS
  <2>1. PICK w : w = walk[k]
    OBVIOUS
  <2>2. w \in Walks /\ walk[k + 1] = Halve(w) /\ w.root \in ClusterDocs
    <3>1. k \in 0..NumDocs /\ k + 1 \in 1..NumDocs /\ (k + 1) - 1 = k
      BY <1>1
    <3> QED
      BY <1>2, <2>1, <3>1 DEF Walks
  <2>3. Holds2(w, k)
    <3> HIDE DEF Holds2
    <3> QED
      BY <1>1, <1>5, <2>1
  <2>4. PICK v : v = Halve(w)
    OBVIOUS
  <2>5. /\ Rooted(v.uf, cl) /\ cl[v.root] = cl[w.root] /\ v.uf.rank = w.uf.rank
        /\ cl[w.root] = w.root => v = w
        /\ cl[w.root] # w.root => w.uf.rank[w.root] < w.uf.rank[v.root]
    BY <2>2, <2>3, <2>4, HalveKeeps
  <2>6. v \in Walks /\ v.root \in ClusterDocs
    BY <2>2, <2>4, HalveTyped DEF Walks
  <2>7. CASE cl[w.root] = w.root
    <3> HIDE DEF Above
    <3>1. Holds2(v, k + 1)
      BY <2>3, <2>5, <2>7
    <3> QED
      BY <2>2, <2>4, <3>1
  <2>8. CASE cl[w.root] # w.root
    <3>1. v.root \in Above(w.root)
      BY <2>3, <2>5, <2>6, <2>8
    <3>2. Cardinality(Above(v.root)) < Cardinality(Above(w.root))
          /\ Cardinality(Above(v.root)) \in Nat /\ Cardinality(Above(w.root)) \in Nat
      <4> HIDE DEF Above
      <4> QED
        BY <1>3, <2>2, <2>6, <3>1
    <3> HIDE DEF Above
    <3>3. Holds2(v, k + 1)
      BY <1>1, <2>3, <2>5, <2>8, <3>2
    <3> QED
      BY <2>2, <2>4, <3>3
  <2> QED
    BY <2>7, <2>8
<1>6. NumDocs \in T
  <2> HIDE DEF T
  <2> QED
    BY <1>1, <1>4, <1>5, EveryNumber
<1>7. PICK w : w = walk[NumDocs]
  OBVIOUS
<1>8. Holds2(w, NumDocs) /\ w \in Walks /\ w.root \in ClusterDocs /\ Find(u, x) = w
  <2> HIDE DEF Holds2
  <2> QED
    BY <1>1, <1>2, <1>6, <1>7 DEF Walks
<1>9. Cardinality(Above(w.root)) \in Nat
  BY <1>3, <1>8
<1> HIDE DEF Above
<1> QED
  BY <1>1, <1>8, <1>9

(* Two sets become one, the others stay.                                   *)
Joins(cl, c2, a, b) ==
    \A i, j \in ClusterDocs :
       c2[i] = c2[j] <=> \/ cl[i] = cl[j]
                         \/ /\ cl[i] = cl[a] \/ cl[i] = cl[b]
                            /\ cl[j] = cl[a] \/ cl[j] = cl[b]

(* union joins the sets of the two documents.                              *)
LEMMA LinkJoins ==
    ASSUME NEW u, NEW cl, Rooted(u, cl), NEW rx \in ClusterDocs, NEW ry \in ClusterDocs,
           cl[rx] = rx, cl[ry] = ry
    PROVE  \E c2 : Rooted(Link(u, rx, ry), c2) /\ Joins(cl, c2, rx, ry)
<1>1. /\ u \in Forests /\ u.parent \in [ClusterDocs -> ClusterDocs] /\ u.rank \in [ClusterDocs -> Nat]
      /\ cl \in [ClusterDocs -> ClusterDocs]
  BY DEF Rooted, Forests
<1>2. CASE rx = ry
  <2>1. Link(u, rx, ry) = u /\ Joins(cl, cl, rx, ry)
    BY <1>2 DEF Link, Joins
  <2> QED
    BY <2>1
<1>3. ASSUME NEW a \in ClusterDocs, NEW b \in ClusterDocs, a # b, cl[a] = a, cl[b] = b,
             NEW m \in [ClusterDocs -> Nat],
             \A x \in ClusterDocs : m[x] = u.rank[x] \/ (x = b /\ u.rank[x] < m[x]),
             u.rank[a] < m[b],
             NEW v, v = [parent |-> [u.parent EXCEPT ![a] = b], rank |-> m]
      PROVE  \E c2 : Rooted(v, c2) /\ Joins(cl, c2, a, b)
  <2> DEFINE c2 == [x \in ClusterDocs |-> IF cl[x] = a THEN b ELSE cl[x]]
  <2>1. v \in Forests /\ c2 \in [ClusterDocs -> ClusterDocs]
    BY <1>1, <1>3 DEF Forests
  <2>2. Joins(cl, c2, a, b)
    BY <1>1, <1>3 DEF Joins
  <2>3. ASSUME NEW x \in ClusterDocs
        PROVE  /\ c2[v.parent[x]] = c2[x]
               /\ v.parent[x] = x <=> c2[x] = x
               /\ v.parent[x] # x => v.rank[x] < v.rank[v.parent[x]]
               /\ c2[c2[x]] = c2[x]
    <3>1. /\ cl[u.parent[x]] = cl[x]
          /\ u.parent[x] = x <=> cl[x] = x
          /\ u.parent[x] # x => u.rank[x] < u.rank[u.parent[x]]
          /\ cl[cl[x]] = cl[x] /\ u.parent[x] \in ClusterDocs /\ cl[x] \in ClusterDocs
      BY <1>1 DEF Rooted
    <3>2. v.parent[x] = IF x = a THEN b ELSE u.parent[x]
      BY <1>1, <1>3
    <3>3. v.rank = m
      BY <1>3
    <3>4. c2[x] = (IF cl[x] = a THEN b ELSE cl[x]) /\ c2[b] = b
          /\ c2[u.parent[x]] = IF cl[x] = a THEN b ELSE cl[x]
      BY <1>3, <3>1
    <3>5. c2[cl[x]] = IF cl[x] = a THEN b ELSE cl[x]
      BY <3>1
    <3>6. u.parent[b] = b
      BY <1>3 DEF Rooted
    <3>7. m[x] \in Nat /\ u.rank[x] \in Nat /\ m[u.parent[x]] \in Nat /\ u.rank[u.parent[x]] \in Nat
          /\ m[b] \in Nat
      BY <1>1, <1>3, <3>1
    <3>8. (m[x] = u.rank[x] \/ (x = b /\ u.rank[x] < m[x]))
          /\ (m[u.parent[x]] = u.rank[u.parent[x]] \/ u.rank[u.parent[x]] < m[u.parent[x]])
      BY <1>3, <3>1
    <3>9. CASE x = a
      <4>1. v.parent[x] = b /\ c2[x] = b /\ m[x] = u.rank[x]
        BY <1>3, <3>2, <3>4, <3>8, <3>9
      <4> HIDE DEF c2
      <4> QED
        BY <1>3, <3>3, <3>4, <3>9, <4>1
    <3>10. CASE x # a
      <4>1. v.parent[x] = u.parent[x]
        BY <3>2, <3>10
      <4> HIDE DEF c2
      <4>2. c2[v.parent[x]] = c2[x] /\ c2[c2[x]] = c2[x]
        BY <3>4, <3>5, <4>1
      <4>3. v.parent[x] = x <=> c2[x] = x
        BY <1>3, <3>1, <3>4, <3>6, <3>10, <4>1
      <4>4. v.parent[x] # x => v.rank[x] < v.rank[v.parent[x]]
        BY <3>1, <3>3, <3>6, <3>7, <3>8, <4>1
      <4> QED
        BY <4>2, <4>3, <4>4
    <3> QED
      BY <3>9, <3>10
  <2>4. Rooted(v, c2)
    <3> HIDE DEF c2
    <3> QED
      BY <2>1, <2>3 DEF Rooted
  <2> HIDE DEF c2
  <2> QED
    BY <2>2, <2>4
<1>4. PICK p : p = u.parent
  OBVIOUS
<1>5. PICK m : m = u.rank
  OBVIOUS
<1>6. u = [parent |-> p, rank |-> m]
  BY <1>1, <1>4, <1>5 DEF Forests
<1>7. CASE rx # ry /\ m[rx] < m[ry]
  <2>1. Link(u, rx, ry) = [parent |-> [u.parent EXCEPT ![rx] = ry], rank |-> m]
    BY <1>1, <1>4, <1>5, <1>6, <1>7 DEF Link
  <2>2. m \in [ClusterDocs -> Nat] /\ \A x \in ClusterDocs : m[x] = u.rank[x]
    BY <1>1, <1>5
  <2>3. u.rank[rx] < m[ry]
    BY <1>5, <1>7
  <2> QED
    BY <1>3, <1>7, <2>1, <2>2, <2>3
<1>8. CASE rx # ry /\ m[rx] > m[ry]
  <2>1. Link(u, rx, ry) = [parent |-> [u.parent EXCEPT ![ry] = rx], rank |-> m]
    BY <1>1, <1>4, <1>5, <1>6, <1>8 DEF Link
  <2>2. m \in [ClusterDocs -> Nat] /\ \A x \in ClusterDocs : m[x] = u.rank[x]
    BY <1>1, <1>5
  <2>3. u.rank[ry] < m[rx]
    BY <1>1, <1>5, <1>8
  <2>4. \E c2 : Rooted(Link(u, rx, ry), c2) /\ Joins(cl, c2, ry, rx)
    BY <1>3, <1>8, <2>1, <2>2, <2>3
  <2> QED
    BY <2>4 DEF Joins
<1>9. CASE rx # ry /\ ~(m[rx] < m[ry]) /\ ~(m[rx] > m[ry])
  <2>1. PICK n : n = [m EXCEPT ![rx] = @ + 1]
    OBVIOUS
  <2>2. n \in [ClusterDocs -> Nat] /\ n[rx] = m[rx] + 1 /\ m[rx] \in Nat /\ m[rx] = m[ry]
        /\ \A x \in ClusterDocs : n[x] = m[x] \/ (x = rx /\ m[x] < n[x])
    <3>1. m \in [ClusterDocs -> Nat] /\ m[rx] \in Nat /\ m[ry] \in Nat
      BY <1>1, <1>5
    <3>2. m[rx] = m[ry] /\ m[rx] + 1 \in Nat /\ m[rx] < m[rx] + 1
      BY <1>9, <3>1
    <3> QED
      BY <2>1, <3>1, <3>2
  <2>3. Link(u, rx, ry) = [parent |-> [u.parent EXCEPT ![ry] = rx], rank |-> n]
    BY <1>1, <1>4, <1>5, <1>6, <1>9, <2>1 DEF Link
  <2>5. u.rank[ry] < n[rx] /\ \A x \in ClusterDocs : n[x] = u.rank[x] \/ (x = rx /\ u.rank[x] < n[x])
    BY <1>1, <1>5, <2>2
  <2>4. \E c2 : Rooted(Link(u, rx, ry), c2) /\ Joins(cl, c2, ry, rx)
    BY <1>3, <1>9, <2>2, <2>3, <2>5
  <2> QED
    BY <2>4 DEF Joins
<1> QED
  BY <1>1, <1>2, <1>7, <1>8, <1>9

(* union finds both roots first.                                           *)
LEMMA UnionJoins ==
    ASSUME NEW u, NEW cl, Rooted(u, cl), NEW a \in ClusterDocs, NEW b \in ClusterDocs
    PROVE  \E c2 : Rooted(Union(u, <<a, b>>), c2) /\ Joins(cl, c2, a, b)
<1>1. cl \in [ClusterDocs -> ClusterDocs] /\ cl[cl[a]] = cl[a] /\ cl[cl[b]] = cl[b]
  BY DEF Rooted
<1>2. PICK fx : fx = Find(u, a)
  OBVIOUS
<1>3. fx.root = cl[a] /\ Rooted(fx.uf, cl)
  BY <1>2, FindRoots
<1>4. PICK fy : fy = Find(fx.uf, b)
  OBVIOUS
<1>5. fy.root = cl[b] /\ Rooted(fy.uf, cl)
  BY <1>3, <1>4, FindRoots
<1>6. Union(u, <<a, b>>) = Link(fy.uf, fx.root, fy.root)
  BY <1>2, <1>4 DEF Union
<1>7. PICK rx : rx = cl[a]
  OBVIOUS
<1>8. PICK ry : ry = cl[b]
  OBVIOUS
<1>9. \E c2 : Rooted(Link(fy.uf, rx, ry), c2) /\ Joins(cl, c2, rx, ry)
  BY <1>1, <1>5, <1>7, <1>8, LinkJoins
<1>10. \A c2 : Joins(cl, c2, rx, ry) => Joins(cl, c2, a, b)
  BY <1>1, <1>7, <1>8 DEF Joins
<1> QED
  BY <1>3, <1>5, <1>6, <1>7, <1>8, <1>9, <1>10

(* The two loops reach every pair.                                         *)
LEMMA AllPairs == PairLoop \in Seq(Pairs) /\ \A p \in Pairs : HasItem(PairLoop, p)
<1> DEFINE row(i) == [k \in 1..(NumDocs - i) |-> <<i, i + k>>]
           rows == [i \in ClusterDocs |-> row(i)]
<1>1. NumDocs \in Nat \ {0} /\ ClusterDocs = 1..NumDocs
  BY ClusterAssumption DEF ClusterDocs
<1>2. ASSUME NEW i \in ClusterDocs
      PROVE  row(i) \in Seq(Pairs) /\ Len(row(i)) = NumDocs - i
             /\ \A k \in 1..(NumDocs - i) : row(i)[k] = <<i, i + k>>
  <2>1. NumDocs - i \in Nat
    BY <1>1
  <2>2. \A k \in 1..(NumDocs - i) : <<i, i + k>> \in Pairs
    BY <1>1 DEF Pairs
  <2> QED
    BY <2>1, <2>2
<1> HIDE DEF row
<1>3. rows \in Seq(Seq(Pairs)) /\ Len(rows) = NumDocs /\ DOMAIN rows = ClusterDocs
      /\ \A i \in ClusterDocs : rows[i] = row(i)
  BY <1>1, <1>2
<1>4. PairLoop = FlattenSeq(rows)
  BY DEF PairLoop, row
<1> HIDE DEF rows
<1>5. /\ FlattenSeq(rows) \in Seq(Pairs)
      /\ \A i \in DOMAIN rows : \A x : HasItem(rows[i], x) => HasItem(FlattenSeq(rows), x)
  <2>1. rows # <<>>
    BY <1>1, <1>3
  <2> QED
    BY <1>3, <2>1, Flattened
<1>6. ASSUME NEW p \in Pairs PROVE HasItem(PairLoop, p)
  <2>1. PICK i \in ClusterDocs, j \in ClusterDocs : p = <<i, j>> /\ i < j
    BY DEF Pairs
  <2>2. j - i \in 1..(NumDocs - i) /\ i + (j - i) = j
    BY <1>1, <2>1
  <2>3. row(i)[j - i] = p /\ j - i \in DOMAIN row(i)
    BY <1>2, <2>1, <2>2
  <2>4. HasItem(rows[i], p)
    BY <1>3, <2>1, <2>3 DEF HasItem
  <2> QED
    BY <1>3, <1>4, <1>5, <2>1, <2>4
<1> QED
  BY <1>4, <1>5, <1>6

JoinIf(v, p, J) == IF p \in J THEN Union(v, p) ELSE v

(* union stays in the forests.                                             *)
LEMMA UnionTyped ==
    ASSUME NEW u \in Forests, NEW p \in Pairs
    PROVE  Union(u, p) \in Forests
<1>0. PICK a \in ClusterDocs, b \in ClusterDocs : p = <<a, b>>
  BY DEF Pairs
<1>1. \A v \in Forests : \A x \in ClusterDocs : Find(v, x) \in Walks
  <2> TAKE v \in Forests
  <2> TAKE x \in ClusterDocs
  <2>1. PICK walk \in [0..NumDocs -> Walks] :
              /\ walk[0] = [uf |-> v, root |-> x] /\ Find(v, x) = walk[NumDocs]
              /\ \A k \in 1..NumDocs : walk[k] = Halve(walk[k - 1])
    BY FindIs
  <2>2. NumDocs \in 0..NumDocs
    BY ClusterAssumption
  <2> QED
    BY <2>1, <2>2
<1>2. PICK fx : fx = Find(u, a)
  OBVIOUS
<1>3. PICK fy : fy = Find(fx.uf, b)
  OBVIOUS
<1>4. fx.uf \in Forests /\ fx.root \in ClusterDocs /\ fy.uf \in Forests /\ fy.root \in ClusterDocs
  BY <1>1, <1>2, <1>3 DEF Walks
<1>5. PICK v : v = fy.uf
  OBVIOUS
<1>6. PICK rx : rx = fx.root
  OBVIOUS
<1>7. PICK ry : ry = fy.root
  OBVIOUS
<1>8. Union(u, p) = Link(v, rx, ry)
  BY <1>0, <1>2, <1>3, <1>5, <1>6, <1>7 DEF Union
<1>9. v \in Forests /\ rx \in ClusterDocs /\ ry \in ClusterDocs
  BY <1>4, <1>5, <1>6, <1>7
<1>10. Link(v, rx, ry) \in Forests
  <2>1. v.rank[rx] + 1 \in Nat
    BY <1>9 DEF Forests
  <2>2. /\ [v EXCEPT !.parent[rx] = ry] \in Forests
        /\ [v EXCEPT !.parent[ry] = rx] \in Forests
    BY <1>9 DEF Forests
  <2>3. [v EXCEPT !.parent[ry] = rx, !.rank[rx] = @ + 1] \in Forests
    BY <1>9, <2>1 DEF Forests
  <2> QED
    BY <1>9, <2>2, <2>3 DEF Link
<1> QED
  BY <1>8, <1>10

(* UnionAll, pair by pair.                                                 *)
LEMMA UnionRuns ==
    ASSUME NEW u \in Forests, NEW J
    PROVE  \E h : /\ h[0] = u /\ UnionAll(u, J) = h[Len(PairLoop)]
                  /\ \A k \in 1..Len(PairLoop) : h[k] = JoinIf(h[k - 1], PairLoop[k], J)
<1>s. PICK s : s = PairLoop
  OBVIOUS
<1> DEFINE Solves(f) == f = [S \in SUBSET DOMAIN s |->
                               IF S = {} THEN u
                               ELSE IF s[Max(S)] \in J THEN Union(f[S \ {Max(S)}], s[Max(S)])
                                    ELSE f[S \ {Max(S)}]]
           it == CHOOSE f : Solves(f)
           G == [a \in Forests |-> [d \in Pairs |-> JoinIf(a, d, J)]]
<1>0. s \in Seq(Pairs) /\ Len(s) \in Nat /\ DOMAIN s = 1..Len(s) /\ \A i \in 1..Len(s) : s[i] \in Pairs
  BY <1>s, AllPairs
<1>1. ASSUME NEW a \in Forests, NEW d \in Pairs PROVE JoinIf(a, d, J) \in Forests
  BY UnionTyped DEF JoinIf
<1>2. G \in [Forests -> [Pairs -> Forests]]
  BY <1>1
<1>3. \E f : Solves(f)
  <2>1. PICK f \in [SUBSET DOMAIN s -> Forests] :
           \A S \in SUBSET DOMAIN s :
              f[S] = IF S = {} THEN u ELSE G[f[S \ {Max(S)}]][s[Max(S)]]
    <3> HIDE DEF G
    <3>1. \E f : Unwinds(f, Forests, G, u, s)
      BY <1>0, <1>2, FoldExists
    <3> QED
      BY <3>1 DEF Unwinds
  <2>2. ASSUME NEW S \in SUBSET DOMAIN s, S # {}
        PROVE  G[f[S \ {Max(S)}]][s[Max(S)]] = JoinIf(f[S \ {Max(S)}], s[Max(S)], J)
    <3>1. Max(S) \in S
      BY <1>0, <2>2, MaxIs
    <3>2. f[S \ {Max(S)}] \in Forests /\ s[Max(S)] \in Pairs
      BY <1>0, <3>1
    <3> QED
      BY <3>2
  <2>3. Solves(f)
    <3> HIDE DEF G
    <3>1. f = [S \in SUBSET DOMAIN s |-> f[S]]
      OBVIOUS
    <3> QED
      BY <2>1, <2>2, <3>1 DEF JoinIf
  <2> QED
    BY <2>3
<1>4. Solves(it)
  <2> HIDE DEF Solves
  <2> QED
    BY <1>3
<1>5. UnionAll(u, J) = it[DOMAIN s]
  BY <1>s DEF UnionAll, FoldLeft, MapThenFoldSet
<1> HIDE DEF it
<1> DEFINE h == [k \in 0..Len(s) |-> it[1..k]]
<1>6. h[0] = u
  <2>1. 1..0 = {}
    OBVIOUS
  <2> QED
    BY <1>0, <1>4, <2>1
<1>7. ASSUME NEW k \in 1..Len(s) PROVE h[k] = JoinIf(h[k - 1], s[k], J)
  <2>1. k \in Nat \ {0} /\ k - 1 \in 0..Len(s) /\ k \in 0..Len(s) /\ 1..k \in SUBSET DOMAIN s
    BY <1>0
  <2>2. Max(1..k) = k /\ (1..k) \ {k} = 1..k - 1 /\ 1..k # {}
    BY <2>1, MaxFirst
  <2>3. it[1..k] = JoinIf(it[1..k - 1], s[k], J)
    BY <1>4, <2>1, <2>2 DEF JoinIf
  <2> QED
    BY <2>1, <2>3
<1>8. h[Len(s)] = it[DOMAIN s]
  BY <1>0
<1> HIDE DEF h
<1> QED
  BY <1>s, <1>5, <1>6, <1>7, <1>8

(* A set of documents that no pair of J leaves, and the root functions     *)
(* whose sets are the connected parts: the pairs of J lie in one, and each *)
(* lies in every such set that it meets.                                   *)
Closed(S, J) == S \subseteq ClusterDocs /\ \A p \in J : p[1] \in S <=> p[2] \in S
Parts(cl, J) ==
    /\ \A p \in J : cl[p[1]] = cl[p[2]]
    /\ \A S \in SUBSET ClusterDocs : Closed(S, J) =>
          \A i, j \in ClusterDocs : cl[i] = cl[j] /\ i \in S => j \in S

(* Joining the two documents of one more pair makes the parts of one more  *)
(* pair.                                                                   *)
LEMMA JoinParts ==
    ASSUME NEW J, J \subseteq Pairs, NEW cl, Parts(cl, J), NEW p \in Pairs, NEW c2,
           Joins(cl, c2, p[1], p[2])
    PROVE  Parts(c2, J \cup {p})
<1>1. PICK a \in ClusterDocs, b \in ClusterDocs : p = <<a, b>>
  BY DEF Pairs
<1>2. p[1] = a /\ p[2] = b
  BY <1>1
<1>3. \A q \in J : q[1] \in ClusterDocs /\ q[2] \in ClusterDocs
  BY DEF Pairs
<1>4. ASSUME NEW q \in J \cup {p} PROVE c2[q[1]] = c2[q[2]]
  <2>1. CASE q \in J
    BY <1>2, <1>3, <2>1 DEF Joins, Parts
  <2>2. CASE q = p
    BY <1>2, <2>2 DEF Joins
  <2> QED
    BY <2>1, <2>2
<1>5. ASSUME NEW S \in SUBSET ClusterDocs, Closed(S, J \cup {p}),
             NEW i \in ClusterDocs, NEW j \in ClusterDocs, c2[i] = c2[j], i \in S
      PROVE  j \in S
  <2>1. Closed(S, J) /\ (a \in S <=> b \in S)
    BY <1>2, <1>5 DEF Closed
  <2>2. \A x, y \in ClusterDocs : cl[x] = cl[y] /\ x \in S => y \in S
    BY <2>1 DEF Parts
  <2>3. \/ cl[i] = cl[j]
        \/ /\ cl[i] = cl[a] \/ cl[i] = cl[b]
           /\ cl[j] = cl[a] \/ cl[j] = cl[b]
    BY <1>2, <1>5 DEF Joins
  <2>4. CASE cl[i] = cl[j]
    BY <1>5, <2>2, <2>4
  <2>5. CASE (cl[i] = cl[a] \/ cl[i] = cl[b]) /\ (cl[j] = cl[a] \/ cl[j] = cl[b])
    <3>1. a \in S /\ b \in S
      BY <1>5, <2>1, <2>2, <2>5
    <3> QED
      BY <2>2, <2>5, <3>1
  <2> QED
    BY <2>3, <2>4, <2>5
<1> QED
  BY <1>4, <1>5 DEF Parts

(* Joining the pairs of J makes their connected parts.                     *)
LEMMA UnionAllParts ==
    ASSUME NEW J, J \subseteq Pairs
    PROVE  \E cl : Rooted(UnionAll(NewUnionFind, J), cl) /\ Parts(cl, J)
<1>1. PICK u : u = NewUnionFind
  OBVIOUS
<1>2. PICK cl : cl = [i \in ClusterDocs |-> i]
  OBVIOUS
<1>3. u \in Forests /\ Rooted(u, cl) /\ Parts(cl, {})
  <2>1. u \in Forests
    BY <1>1 DEF NewUnionFind, Forests
  <2>2. Rooted(u, cl)
    BY <1>1, <1>2, <2>1 DEF NewUnionFind, Rooted
  <2>3. Parts(cl, {})
    BY <1>2 DEF Parts
  <2> QED
    BY <2>1, <2>2, <2>3
<1>4. PICK s : s = PairLoop
  OBVIOUS
<1>5. s \in Seq(Pairs) /\ Len(s) \in Nat /\ DOMAIN s = 1..Len(s)
      /\ (\A i \in 1..Len(s) : s[i] \in Pairs) /\ \A p \in Pairs : \E i \in 1..Len(s) : s[i] = p
  BY <1>4, AllPairs DEF HasItem
<1>6. PICK h : /\ h[0] = u /\ UnionAll(u, J) = h[Len(s)]
               /\ \A k \in 1..Len(s) : h[k] = JoinIf(h[k - 1], s[k], J)
  BY <1>3, <1>4, UnionRuns
<1> DEFINE Done(k) == {p \in J : \E i \in 1..k : s[i] = p}
           T == {k \in Nat : k <= Len(s) => \E c : Rooted(h[k], c) /\ Parts(c, Done(k))}
<1>7. 0 \in T
  <2>1. Done(0) = {}
    OBVIOUS
  <2> HIDE DEF Done
  <2> QED
    BY <1>3, <1>6, <2>1
<1>8. ASSUME NEW k \in Nat, k \in T PROVE k + 1 \in T
  <2> SUFFICES ASSUME k + 1 <= Len(s)
               PROVE  \E c : Rooted(h[k + 1], c) /\ Parts(c, Done(k + 1))
    <3> HIDE DEF Done
    <3> QED
      OBVIOUS
  <2>1. k + 1 \in 1..Len(s) /\ (k + 1) - 1 = k /\ k <= Len(s)
    BY <1>5
  <2>2. PICK c : Rooted(h[k], c) /\ Parts(c, Done(k))
    <3> HIDE DEF Done
    <3> QED
      BY <1>8, <2>1
  <2>3. PICK p : p = s[k + 1]
    OBVIOUS
  <2>4. p \in Pairs /\ h[k + 1] = JoinIf(h[k], p, J)
    BY <1>5, <1>6, <2>1, <2>3
  <2>5. Done(k + 1) = IF p \in J THEN Done(k) \cup {p} ELSE Done(k)
    <3>1. 1..k + 1 = (1..k) \cup {k + 1}
      OBVIOUS
    <3> QED
      BY <2>3, <3>1
  <2>6. Done(k) \subseteq Pairs
    OBVIOUS
  <2> HIDE DEF Done
  <2>7. CASE p \notin J
    BY <2>2, <2>4, <2>5, <2>7 DEF JoinIf
  <2>8. CASE p \in J
    <3>1. PICK a \in ClusterDocs, b \in ClusterDocs : p = <<a, b>> /\ p[1] = a /\ p[2] = b
      BY <2>4 DEF Pairs
    <3>2. PICK c2 : Rooted(Union(h[k], p), c2) /\ Joins(c, c2, p[1], p[2])
      BY <2>2, <3>1, UnionJoins
    <3>3. Parts(c2, Done(k) \cup {p})
      BY <2>2, <2>4, <2>6, <3>2, JoinParts
    <3> QED
      BY <2>4, <2>5, <2>8, <3>2, <3>3 DEF JoinIf
  <2> QED
    BY <2>7, <2>8
<1>9. Len(s) \in T
  <2> HIDE DEF T
  <2> QED
    BY <1>5, <1>7, <1>8, EveryNumber
<1>10. Done(Len(s)) = J
  BY <1>5
<1> HIDE DEF Done
<1> QED
  BY <1>1, <1>5, <1>6, <1>9, <1>10

-----------------------------------------------------------------------------
(* The sets of a root function are what the union-find's groups are.       *)
Classes(cl) == {{j \in ClusterDocs : cl[i] = cl[j]} : i \in ClusterDocs}

(* Two documents are connected when they have the same root.               *)
LEMMA GroupsAre ==
    ASSUME NEW u, NEW cl, Rooted(u, cl)
    PROVE  /\ \A i, j \in ClusterDocs : Connected(u, i, j) <=> cl[i] = cl[j]
           /\ Groups(u) = Classes(cl)
<1>1. \A i \in ClusterDocs : RootOf(u, i) = cl[i]
  BY FindRoots DEF RootOf
<1>2. \A i, j \in ClusterDocs : Connected(u, i, j) <=> cl[i] = cl[j]
  BY <1>1 DEF Connected
<1> QED
  BY <1>2 DEF Groups, Classes

(* What a component grows to, one round of pairs after the other.          *)
LinkedBy(S, J) == S \cup {p[2] : p \in {q \in J : q[1] \in S}}
                    \cup {p[1] : p \in {q \in J : q[2] \in S}}
Grown(i, J) == FoldLeft(LAMBDA S, k : LinkedBy(S, J), {i}, [k \in ClusterDocs |-> k])

(* Grown, round by round.                                                  *)
LEMMA GrowRuns ==
    ASSUME NEW J, J \subseteq Pairs, NEW i \in ClusterDocs
    PROVE  \E h : /\ h[0] = {i} /\ Grown(i, J) = h[NumDocs]
                  /\ \A k \in 1..NumDocs : h[k] = LinkedBy(h[k - 1], J)
                  /\ \A k \in 0..NumDocs : h[k] \subseteq ClusterDocs
<1>s. PICK s : s = [k \in ClusterDocs |-> k]
  OBVIOUS
<1>b. PICK base : base = {i}
  OBVIOUS
<1> DEFINE Acc == SUBSET ClusterDocs
           Solves(f) == f = [S \in SUBSET DOMAIN s |->
                               IF S = {} THEN base ELSE LinkedBy(f[S \ {Max(S)}], J)]
           it == CHOOSE f : Solves(f)
           G == [a \in Acc |-> [d \in ClusterDocs |-> LinkedBy(a, J)]]
<1>n. NumDocs \in Nat \ {0} /\ ClusterDocs = 1..NumDocs
  BY ClusterAssumption DEF ClusterDocs
<1>0. s \in Seq(ClusterDocs) /\ Len(s) = NumDocs /\ DOMAIN s = 1..Len(s)
      /\ \A k \in 1..Len(s) : s[k] \in ClusterDocs
  BY <1>s, <1>n
<1>1. ASSUME NEW a \in Acc PROVE LinkedBy(a, J) \in Acc
  <2>1. \A q \in J : q[1] \in ClusterDocs /\ q[2] \in ClusterDocs
    BY DEF Pairs
  <2> QED
    BY <2>1 DEF LinkedBy
<1>2. G \in [Acc -> [ClusterDocs -> Acc]] /\ base \in Acc
  BY <1>1, <1>b
<1>e. PICK f : Unwinds(f, Acc, G, base, s)
  <2> HIDE DEF G, Acc
  <2> QED
    BY <1>0, <1>2, FoldExists
<1>f. f \in [SUBSET DOMAIN s -> Acc]
      /\ \A S \in SUBSET DOMAIN s : f[S] = IF S = {} THEN base ELSE G[f[S \ {Max(S)}]][s[Max(S)]]
  <2> HIDE DEF G, Acc
  <2> QED
    BY <1>e DEF Unwinds
<1>3. Solves(f)
  <2>2. ASSUME NEW S \in SUBSET DOMAIN s, S # {}
        PROVE  G[f[S \ {Max(S)}]][s[Max(S)]] = LinkedBy(f[S \ {Max(S)}], J)
    <3>1. Max(S) \in S
      BY <1>0, <1>n, <2>2, MaxIs
    <3>2. f[S \ {Max(S)}] \in Acc /\ s[Max(S)] \in ClusterDocs
      BY <1>0, <1>f, <3>1
    <3> HIDE DEF Acc
    <3> QED
      BY <3>2
  <2> HIDE DEF G
  <2>3. f = [S \in SUBSET DOMAIN s |-> f[S]]
    BY <1>f
  <2> QED
    BY <1>f, <2>2, <2>3
<1>4. Solves(it)
  <2> HIDE DEF Solves
  <2> QED
    BY <1>3
<1>5. Grown(i, J) = it[DOMAIN s]
  BY <1>s, <1>b DEF Grown, FoldLeft, MapThenFoldSet
<1> HIDE DEF it
<1> DEFINE h == [k \in 0..NumDocs |-> it[1..k]]
<1>6. h[0] = base
  <2>1. 1..0 = {}
    OBVIOUS
  <2> QED
    BY <1>n, <1>4, <2>1
<1>7. ASSUME NEW k \in 1..NumDocs PROVE h[k] = LinkedBy(h[k - 1], J)
  <2>1. k \in Nat \ {0} /\ k - 1 \in 0..NumDocs /\ k \in 0..NumDocs /\ 1..k \in SUBSET DOMAIN s
    BY <1>0, <1>n
  <2>2. Max(1..k) = k /\ (1..k) \ {k} = 1..k - 1 /\ 1..k # {}
    BY <2>1, MaxFirst
  <2>3. it[1..k] = LinkedBy(it[1..k - 1], J)
    BY <1>4, <2>1, <2>2
  <2> QED
    BY <2>1, <2>3
<1>8. h[NumDocs] = it[DOMAIN s]
  BY <1>0, <1>n
<1> HIDE DEF h
<1>9. \A k \in 0..NumDocs : h[k] \in Acc
  <2> DEFINE T == {k \in Nat : k <= NumDocs => h[k] \in Acc}
  <2>1. 0 \in T
    BY <1>2, <1>6
  <2>2. ASSUME NEW k \in Nat, k \in T PROVE k + 1 \in T
    <3> SUFFICES ASSUME k + 1 <= NumDocs PROVE h[k + 1] \in Acc
      OBVIOUS
    <3>1. h[k] \in Acc /\ k + 1 \in 1..NumDocs /\ (k + 1) - 1 = k
      BY <1>n, <2>2
    <3> HIDE DEF Acc
    <3>2. h[k + 1] = LinkedBy(h[k], J)
      BY <1>7, <3>1
    <3> QED
      BY <1>1, <3>1, <3>2
  <2> HIDE DEF T
  <2>3. Nat \subseteq T
    BY <2>1, <2>2, EveryNumber
  <2> QED
    BY <1>n, <2>3 DEF T
<1> QED
  BY <1>b, <1>5, <1>6, <1>7, <1>8, <1>9

(* After as many rounds as there are documents it is closed: each round    *)
(* that is not the last adds one.                                          *)
LEMMA GrownIs ==
    ASSUME NEW J, J \subseteq Pairs, NEW cl, Parts(cl, J), NEW i \in ClusterDocs
    PROVE  Grown(i, J) = {j \in ClusterDocs : cl[i] = cl[j]}
<1>n. NumDocs \in Nat \ {0} /\ ClusterDocs = 1..NumDocs
      /\ IsFiniteSet(ClusterDocs) /\ Cardinality(ClusterDocs) = NumDocs
  BY ClusterAssumption, FirstNumbers DEF ClusterDocs
<1>1. PICK h : /\ h[0] = {i} /\ Grown(i, J) = h[NumDocs]
               /\ \A k \in 1..NumDocs : h[k] = LinkedBy(h[k - 1], J)
               /\ \A k \in 0..NumDocs : h[k] \subseteq ClusterDocs
  BY GrowRuns
<1>2. \A q \in J : q[1] \in ClusterDocs /\ q[2] \in ClusterDocs
  BY DEF Pairs
<1>3. \A S \in SUBSET ClusterDocs : S \subseteq LinkedBy(S, J) /\ (LinkedBy(S, J) = S => Closed(S, J))
      /\ (Closed(S, J) => LinkedBy(S, J) = S)
  BY <1>2 DEF LinkedBy, Closed
<1>4. \A S \in SUBSET ClusterDocs : (\A x \in S : cl[x] = cl[i]) => \A x \in LinkedBy(S, J) : cl[x] = cl[i]
  BY <1>2 DEF LinkedBy, Parts
<1> DEFINE Good(S, k) == /\ i \in S /\ S \subseteq ClusterDocs /\ \A x \in S : cl[x] = cl[i]
                         /\ Closed(S, J) \/ Cardinality(S) > k
           T == {k \in Nat : k <= NumDocs => Good(h[k], k)}
<1>5. 0 \in T
  <2>1. Cardinality({i}) = 1
    BY FS_Singleton
  <2>2. Good({i}, 0)
    BY <2>1
  <2> HIDE DEF Good
  <2> QED
    BY <1>1, <2>2
<1>6. ASSUME NEW k \in Nat, k \in T PROVE k + 1 \in T
  <2> SUFFICES ASSUME k + 1 <= NumDocs PROVE Good(h[k + 1], k + 1)
    OBVIOUS
  <2>1. k + 1 \in 1..NumDocs /\ (k + 1) - 1 = k /\ k + 1 \in 0..NumDocs
    BY <1>n
  <2>2. PICK S : S = h[k]
    OBVIOUS
  <2>3. PICK R : R = LinkedBy(S, J)
    OBVIOUS
  <2>4. Good(S, k) /\ h[k + 1] = R /\ R \subseteq ClusterDocs
    <3> HIDE DEF Good
    <3>1. Good(S, k)
      BY <1>n, <1>6, <2>2
    <3>2. h[k + 1] = R
      BY <1>1, <2>1, <2>2, <2>3
    <3>3. h[k + 1] \subseteq ClusterDocs
      BY <1>1, <2>1
    <3> QED
      BY <3>1, <3>2, <3>3
  <2>5. S \subseteq R /\ \A x \in R : cl[x] = cl[i]
    BY <1>3, <1>4, <2>3, <2>4
  <2>6. CASE R = S
    <3>1. Closed(R, J)
      BY <1>3, <2>3, <2>4, <2>6
    <3> QED
      BY <2>4, <2>5, <3>1
  <2>7. CASE R # S
    <3>1. ~Closed(S, J)
      BY <1>3, <2>3, <2>4, <2>7
    <3>2. IsFiniteSet(R)
      BY <1>n, <2>4, FS_Subset
    <3>3. Cardinality(R) \in Nat /\ Cardinality(S) \in Nat /\ Cardinality(S) < Cardinality(R)
      BY <2>5, <2>7, <3>2, FS_Subset, FS_CardinalityType
    <3> QED
      BY <2>4, <2>5, <3>1, <3>3
  <2> QED
    BY <2>6, <2>7
<1>7. NumDocs \in T
  <2> HIDE DEF T
  <2> QED
    BY <1>n, <1>5, <1>6, EveryNumber
<1>8. PICK S : S = Grown(i, J)
  OBVIOUS
<1>9. Good(S, NumDocs)
  <2> HIDE DEF Good
  <2> QED
    BY <1>n, <1>1, <1>7, <1>8
<1>10. Closed(S, J)
  <2>1. Cardinality(S) <= NumDocs /\ Cardinality(S) \in Nat
    BY <1>n, <1>9, FS_Subset, FS_CardinalityType
  <2> QED
    BY <1>9, <1>n, <2>1
<1>11. \A j \in ClusterDocs : cl[i] = cl[j] => j \in S
  BY <1>9, <1>10 DEF Parts
<1> QED
  BY <1>8, <1>9, <1>11

(* So the components of the pairs are the sets of any root function that   *)
(* has their parts.                                                        *)
LEMMA ComponentsAre ==
    ASSUME NEW J, J \subseteq Pairs, NEW cl, Parts(cl, J)
    PROVE  Components(J) = Classes(cl)
<1>1. Components(J) = {Grown(i, J) : i \in ClusterDocs}
  BY DEF Components, Grown, LinkedBy
<1> QED
  BY <1>1, GrownIs DEF Classes

(* So the groups of what was joined are the components of the pairs.       *)
LEMMA JoinedGroups ==
    ASSUME NEW J, J \subseteq Pairs
    PROVE  /\ Groups(UnionAll(NewUnionFind, J)) = Components(J)
           /\ \E cl : /\ Rooted(UnionAll(NewUnionFind, J), cl) /\ Parts(cl, J)
                      /\ Components(J) = Classes(cl)
BY UnionAllParts, GroupsAre, ComponentsAre

-----------------------------------------------------------------------------
(* The best of a group is in it: the ranking and the ids order it.         *)
BestIn(r, g) == CHOOSE i \in g : \A j \in g \ {i} : r[i] > r[j] \/ (r[i] = r[j] /\ i < j)

(* betterRep is an order without ties, so one of a group is the best.      *)
LEMMA BestIs ==
    ASSUME NEW r \in [ClusterDocs -> Int], NEW g \in SUBSET ClusterDocs, g # {}
    PROVE  BestIn(r, g) \in g
<1>n. NumDocs \in Nat \ {0} /\ ClusterDocs = 1..NumDocs /\ IsFiniteSet(ClusterDocs)
  BY ClusterAssumption, FirstNumbers DEF ClusterDocs
<1> DEFINE R == {p \in g \X g : r[p[1]] > r[p[2]] \/ (r[p[1]] = r[p[2]] /\ p[1] < p[2])}
<1>1. \A i, j \in g : <<i, j>> \in R <=> (r[i] > r[j] \/ (r[i] = r[j] /\ i < j))
  OBVIOUS
<1>2. \A i \in g : r[i] \in Int /\ i \in Int
  BY <1>n
<1> HIDE DEF R
<1>3. StrictOrder(g, R)
  BY <1>1, <1>2 DEF StrictOrder
<1>4. IsFiniteSet(g) /\ Cardinality(g) \in Nat \ {0}
  <2>1. IsFiniteSet(g)
    BY <1>n, FS_Subset
  <2>2. Cardinality(g) # 0
    BY <2>1, FS_EmptySet
  <2> QED
    BY <2>1, <2>2, FS_CardinalityType
<1>5. Ranks(Numbered(g, R), g, R)
  BY <1>3, <1>4, NumberedRanks
<1>6. PICK at0 : Ranks(at0, g, R)
  BY <1>5
<1>7. at0[1] \in g /\ \A j \in g \ {at0[1]} : <<at0[1], j>> \in R
  <2>1. 1 \in 1..Cardinality(g)
    BY <1>4
  <2>2. at0[1] \in g
    BY <1>6, <2>1 DEF Ranks
  <2>3. ASSUME NEW j \in g \ {at0[1]} PROVE <<at0[1], j>> \in R
    <3>1. PICK k \in 1..Cardinality(g) : at0[k] = j
      BY <1>6 DEF Ranks
    <3>2. 1 < k
      BY <1>4, <2>3, <3>1
    <3> QED
      BY <1>6, <2>1, <3>1, <3>2 DEF Ranks
  <2> QED
    BY <2>2, <2>3
<1>8. \E i \in g : \A j \in g \ {i} : r[i] > r[j] \/ (r[i] = r[j] /\ i < j)
  BY <1>1, <1>7
<1> QED
  BY <1>8 DEF BestIn

(* What is asked of an answer: R has the members by representative, E is   *)
(* the clusters it is to have.                                             *)
Answers(R, E) ==
    /\ {{i} \cup R[i] : i \in DOMAIN R} = E
    /\ Cardinality(DOMAIN R) = Cardinality(E)
    /\ \A i \in DOMAIN R : i \notin R[i]

(* A representative of each cluster that lists the others answers.         *)
LEMMA AnswerOfEach ==
    ASSUME NEW cl, NEW D, D \subseteq ClusterDocs, NEW R, DOMAIN R = D,
           \A i \in D : R[i] = {j \in ClusterDocs : cl[i] = cl[j]} \ {i},
           \A i \in ClusterDocs : \E j \in D : cl[i] = cl[j],
           \A i, j \in D : cl[i] = cl[j] => i = j
    PROVE  Answers(R, Classes(cl))
<1> DEFINE C(i) == {j \in ClusterDocs : cl[i] = cl[j]}
           f == [i \in D |-> C(i)]
<1>n. IsFiniteSet(ClusterDocs)
  BY ClusterAssumption, FirstNumbers DEF ClusterDocs
<1>1. \A i \in D : i \in C(i) /\ {i} \cup R[i] = C(i) /\ i \notin R[i] /\ C(i) \in Classes(cl)
  BY DEF Classes
<1>2. \A g \in Classes(cl) : \E i \in D : g = C(i)
  <2> SUFFICES ASSUME NEW g \in Classes(cl) PROVE \E i \in D : g = C(i)
    OBVIOUS
  <2>1. PICK i \in ClusterDocs : g = C(i)
    BY DEF Classes
  <2>2. PICK j \in D : cl[i] = cl[j]
    OBVIOUS
  <2>3. C(i) = C(j)
    BY <2>2
  <2> QED
    BY <2>1, <2>3
<1>3. \A i, j \in D : C(i) = C(j) => i = j
  <2> SUFFICES ASSUME NEW i \in D, NEW j \in D, C(i) = C(j) PROVE i = j
    OBVIOUS
  <2>1. j \in C(i)
    BY <1>1
  <2> QED
    BY <2>1
<1> HIDE DEF C
<1>4. {{i} \cup R[i] : i \in DOMAIN R} = Classes(cl)
  <2>1. \A i \in DOMAIN R : {i} \cup R[i] = C(i)
    BY <1>1
  <2>2. {C(i) : i \in DOMAIN R} = Classes(cl)
    BY <1>1, <1>2
  <2> QED
    BY <2>1, <2>2
<1>5. f \in [D -> Classes(cl)] /\ (\A i \in D : f[i] = C(i))
  BY <1>1
<1> HIDE DEF f
<1>6. f \in Bijection(D, Classes(cl))
  BY <1>2, <1>3, <1>5, Fun_IsBij
<1>7. Cardinality(D) = Cardinality(Classes(cl))
  <2>1. ExistsBijection(D, Classes(cl))
    BY <1>6 DEF ExistsBijection
  <2> QED
    BY <1>n, <2>1, FS_Subset, FS_Bijection
<1> QED
  BY <1>1, <1>4, <1>7 DEF Answers

(* Clusters that are single documents.                                     *)
LEMMA NoPairs ==
    /\ Components({}) = Classes([i \in ClusterDocs |-> i])
    /\ \A cl : (\A i, j \in ClusterDocs : cl[i] = cl[j] => i = j) => Classes(cl) = Components({})
<1>1. PICK id : id = [i \in ClusterDocs |-> i]
  OBVIOUS
<1>2. Parts(id, {})
  BY <1>1 DEF Parts
<1>3. Components({}) = Classes(id)
  BY <1>2, ComponentsAre
<1>4. ASSUME NEW cl, \A i, j \in ClusterDocs : cl[i] = cl[j] => i = j
      PROVE  Classes(cl) = Classes(id)
  <2>1. \A i, j \in ClusterDocs : cl[i] = cl[j] <=> id[i] = id[j]
    BY <1>1, <1>4
  <2> QED
    BY <2>1 DEF Classes
<1> QED
  BY <1>1, <1>3, <1>4

-----------------------------------------------------------------------------
(* What holds from step to step: until the clusters are assembled the      *)
(* groups of the union-find are those that are expected.                   *)
HoldsClusters(u, E, m, n) ==
    \E cl : /\ Rooted(u, cl) /\ Classes(cl) = E
            /\ m = "simhash_only" => \A p \in n : cl[p[1]] = cl[p[2]]
ClusterInv ==
    /\ mode \in {"off", "simhash_only", "hybrid"} /\ near \subseteq Pairs /\ agree \subseteq Pairs
    /\ ranking \in [ClusterDocs -> Int] /\ vectors \subseteq ClusterDocs
    /\ at = "hash" => uf = NewUnionFind /\ vectors = {} /\ fallback = FALSE
    /\ at = "refine" => /\ mode = "hybrid" /\ uf = UnionAll(NewUnionFind, near)
                        /\ vectors = {} /\ fallback = FALSE
    /\ at = "assemble" => HoldsClusters(uf, Expected, mode, near)
    /\ ClustersSound

(* ClustersSound, with what it asks of the answer by name.                 *)
LEMMA SoundIs ==
    ClustersSound <=>
       (at = "done" => /\ Answers(reps, Expected)
                       /\ mode = "simhash_only" => \A p \in near : ~({p[1], p[2]} \subseteq DOMAIN reps))
BY DEF ClustersSound, Answers

(* The same in the next state.                                             *)
LEMMA SoundNext ==
    ClustersSound' <=>
       (at' = "done" => /\ Answers(reps', Expected')
                        /\ mode' = "simhash_only" => \A p \in near' : ~({p[1], p[2]} \subseteq DOMAIN reps'))
BY DEF ClustersSound, Answers

(* The pairs that are joined again after the embedder has answered.        *)
Agreeing(a, n, vecs) ==
    {p \in a : {p[1], p[2]} \subseteq vecs /\ \E g \in Components(n) : {p[1], p[2]} \subseteq g}
(* What is expected, with the agreeing pairs by name.                      *)
LEMMA ExpectedIs ==
    Expected = CASE mode = "off" -> Components({})
                 [] mode = "hybrid" /\ ~fallback -> Components(Agreeing(agree, near, vectors))
                 [] OTHER -> Components(near)
BY DEF Expected, Agreeing

(* The same in the next state.                                             *)
LEMMA ExpectedNext ==
    Expected' = CASE mode' = "off" -> Components({})
                  [] mode' = "hybrid" /\ ~fallback' -> Components(Agreeing(agree', near', vectors'))
                  [] OTHER -> Components(near')
BY DEF Expected, Agreeing

(* Joining the near pairs makes their components; with clustering off each *)
(* document stands for itself.                                             *)
LEMMA HashStep == ClusterInv /\ HashAndUnion => ClusterInv'
<1> SUFFICES ASSUME ClusterInv, HashAndUnion PROVE ClusterInv'
  OBVIOUS
<1>1. at = "hash" /\ uf = NewUnionFind /\ vectors = {} /\ fallback = FALSE
      /\ UNCHANGED <<mode, near, agree, ranking, vectors, fallback>>
      /\ mode \in {"off", "simhash_only", "hybrid"} /\ near \subseteq Pairs /\ agree \subseteq Pairs
      /\ ranking \in [ClusterDocs -> Int]
  BY DEF ClusterInv, HashAndUnion
<1>2. CASE mode = "off"
  <2>1. at' = "done" /\ reps' = [i \in ClusterDocs |-> {}]
    BY <1>2 DEF HashAndUnion
  <2>2. Expected' = Components({})
    BY <1>1, <1>2, ExpectedNext
  <2>3. Answers(reps', Expected')
    <3>1. PICK cl : cl = [i \in ClusterDocs |-> i]
      OBVIOUS
    <3>2. PICK R : R = reps'
      OBVIOUS
    <3>3. DOMAIN R = ClusterDocs /\ \A i \in ClusterDocs : R[i] = {j \in ClusterDocs : cl[i] = cl[j]} \ {i}
      BY <2>1, <3>1, <3>2
    <3>4. \A i, j \in ClusterDocs : cl[i] = cl[j] => i = j
      BY <3>1
    <3>5. Answers(R, Classes(cl))
      BY <3>3, <3>4, AnswerOfEach
    <3> QED
      BY <2>2, <3>1, <3>2, <3>5, NoPairs
  <2>4. ClustersSound'
    BY <1>1, <1>2, <2>3, SoundNext
  <2> QED
    BY <1>1, <2>1, <2>4 DEF ClusterInv
<1>3. CASE mode # "off"
  <2>1. uf' = UnionAll(NewUnionFind, near) /\ at' = IF mode = "hybrid" THEN "refine" ELSE "assemble"
    BY <1>1, <1>3 DEF HashAndUnion
  <2>2. at' = "assemble" => HoldsClusters(uf', Expected', mode', near')
    <3> SUFFICES ASSUME at' = "assemble" PROVE HoldsClusters(uf', Expected', mode', near')
      OBVIOUS
    <3>1. Expected' = Components(near)
      BY <1>1, <1>3, <2>1, ExpectedNext
    <3>2. PICK cl : Rooted(uf', cl) /\ Parts(cl, near) /\ Components(near) = Classes(cl)
      BY <1>1, <2>1, JoinedGroups
    <3> QED
      BY <1>1, <3>1, <3>2 DEF HoldsClusters, Parts
  <2>3. ClustersSound'
    BY <2>1, SoundNext
  <2> QED
    BY <1>1, <2>1, <2>2, <2>3 DEF ClusterInv
<1> QED
  BY <1>2, <1>3

(* Two documents lie in one component, or are connected.                   *)
LEMMA InOneClass ==
    ASSUME NEW cl, NEW i \in ClusterDocs, NEW j \in ClusterDocs
    PROVE  cl[i] = cl[j] <=> \E g \in Classes(cl) : {i, j} \subseteq g
<1>1. cl[i] = cl[j] => \E g \in Classes(cl) : {i, j} \subseteq g
  <2> DEFINE g == {k \in ClusterDocs : cl[i] = cl[k]}
  <2>1. g \in Classes(cl)
    BY DEF Classes
  <2>2. cl[i] = cl[j] => {i, j} \subseteq g
    OBVIOUS
  <2> HIDE DEF g
  <2> QED
    BY <2>1, <2>2
<1>2. ASSUME NEW g \in Classes(cl), {i, j} \subseteq g PROVE cl[i] = cl[j]
  BY <1>2 DEF Classes
<1> QED
  BY <1>1, <1>2

(* The embedder's answer splits the clusters into what agrees inside them; *)
(* without an answer, or with nothing to ask about, they stay.             *)
LEMMA RefineStep == ClusterInv /\ RefineWithEmbedding => ClusterInv'
<1> SUFFICES ASSUME ClusterInv, RefineWithEmbedding PROVE ClusterInv'
  OBVIOUS
<1>1. /\ mode = "hybrid" /\ uf = UnionAll(NewUnionFind, near) /\ vectors = {} /\ fallback = FALSE
      /\ UNCHANGED <<mode, near, agree, ranking, reps>> /\ at' = "assemble"
      /\ near \subseteq Pairs /\ agree \subseteq Pairs /\ ranking \in [ClusterDocs -> Int]
  BY DEF ClusterInv, RefineWithEmbedding
<1>2. PICK cl : Rooted(uf, cl) /\ Parts(cl, near) /\ Components(near) = Classes(cl)
  BY <1>1, JoinedGroups
<1>3. Groups(uf) = Classes(cl) /\ \A i, j \in ClusterDocs : Connected(uf, i, j) <=> cl[i] = cl[j]
  BY <1>2, GroupsAre
<1>4. ClustersSound'
  BY <1>1, SoundNext
<1>5. Participants \subseteq ClusterDocs
  BY DEF Participants
<1>6. CASE Participants = {}
  <2>1. uf' = uf /\ vectors' = {} /\ fallback' = FALSE
    BY <1>1, <1>6 DEF RefineWithEmbedding
  <2>2. Expected' = Components({})
    <3>1. Agreeing(agree', near', vectors') = {}
      BY <2>1 DEF Agreeing
    <3> QED
      BY <1>1, <2>1, <3>1, ExpectedNext
  <2>3. ASSUME NEW i \in ClusterDocs, NEW j \in ClusterDocs, cl[i] = cl[j] PROVE i = j
    <3> SUFFICES ASSUME i # j PROVE FALSE
      OBVIOUS
    <3>1. PICK g \in Classes(cl) : {i, j} \subseteq g
      BY <2>3, InOneClass
    <3>2. IsFiniteSet(g)
      <4>1. g \subseteq ClusterDocs
        BY DEF Classes
      <4>2. IsFiniteSet(ClusterDocs)
        BY ClusterAssumption, FirstNumbers DEF ClusterDocs
      <4> QED
        BY <4>1, <4>2, FS_Subset
    <3>3. Cardinality({i, j}) = 2 /\ Cardinality({i, j}) <= Cardinality(g) /\ Cardinality(g) \in Nat
      <4>1. IsFiniteSet({i}) /\ Cardinality({i}) = 1 /\ j \notin {i} /\ {i, j} = {i} \cup {j}
        BY FS_Singleton
      <4>2. Cardinality({i} \cup {j}) = Cardinality({i}) + 1
        BY <4>1, FS_AddElement
      <4> QED
        BY <3>1, <3>2, <4>1, <4>2, FS_Subset, FS_CardinalityType
    <3>4. i \in Participants
      BY <1>3, <3>1, <3>3 DEF Participants
    <3> QED
      BY <1>6, <3>4
  <2>4. Classes(cl) = Components({})
    BY <2>3, NoPairs
  <2>5. HoldsClusters(uf', Expected', mode', near')
    BY <1>1, <1>2, <2>1, <2>2, <2>4 DEF HoldsClusters
  <2> QED
    BY <1>1, <1>4, <2>1, <2>5 DEF ClusterInv
<1>7. CASE Participants # {} /\ fallback' = TRUE /\ UNCHANGED <<uf, vectors>>
  <2>1. Expected' = Components(near)
    BY <1>1, <1>7, ExpectedNext
  <2>2. HoldsClusters(uf', Expected', mode', near')
    BY <1>1, <1>2, <1>7, <2>1 DEF HoldsClusters
  <2> QED
    BY <1>1, <1>4, <1>7, <2>2 DEF ClusterInv
<1>8. CASE Participants # {} /\ vectors' \subseteq Participants /\ uf' = Refined(uf, vectors') /\ UNCHANGED fallback
  <2>1. PICK J : J = Agreeing(agree, near, vectors')
    OBVIOUS
  <2>2. J = {p \in agree : Connected(uf, p[1], p[2]) /\ {p[1], p[2]} \subseteq vectors'}
    <3>1. \A p \in agree : Connected(uf, p[1], p[2]) <=> \E g \in Components(near) : {p[1], p[2]} \subseteq g
      <4> SUFFICES ASSUME NEW p \in agree
                   PROVE  Connected(uf, p[1], p[2]) <=> \E g \in Classes(cl) : {p[1], p[2]} \subseteq g
        BY <1>2
      <4>1. PICK i \in ClusterDocs, j \in ClusterDocs : i = p[1] /\ j = p[2]
        BY <1>1 DEF Pairs
      <4>2. Connected(uf, i, j) <=> \E g \in Classes(cl) : {i, j} \subseteq g
        BY <1>3, InOneClass
      <4> QED
        BY <4>1, <4>2
    <3> QED
      BY <2>1, <3>1 DEF Agreeing
  <2>3. uf' = UnionAll(NewUnionFind, J) /\ J \subseteq Pairs
    BY <1>1, <1>8, <2>1, <2>2 DEF Refined, Agreeing
  <2>4. Expected' = Components(J)
    BY <1>1, <1>8, <2>1, ExpectedNext
  <2>5. HoldsClusters(uf', Expected', mode', near')
    BY <1>1, <2>3, <2>4, JoinedGroups DEF HoldsClusters
  <2>6. vectors' \subseteq ClusterDocs
    BY <1>5, <1>8
  <2> QED
    BY <1>1, <1>4, <2>5, <2>6 DEF ClusterInv
<1>9. Participants # {} =>
         \/ fallback' = TRUE /\ UNCHANGED <<uf, vectors>>
         \/ vectors' \subseteq Participants /\ uf' = Refined(uf, vectors') /\ UNCHANGED fallback
  BY DEF RefineWithEmbedding
<1> QED
  BY <1>6, <1>7, <1>8, <1>9

(* Each group is answered by its best document.                            *)
LEMMA AssembleStep == ClusterInv /\ AssembleCluster => ClusterInv'
<1> SUFFICES ASSUME ClusterInv, AssembleCluster PROVE ClusterInv'
  OBVIOUS
<1>1. at = "assemble" /\ at' = "done" /\ UNCHANGED <<mode, near, agree, ranking, uf, vectors, fallback>>
      /\ near \subseteq Pairs /\ ranking \in [ClusterDocs -> Int]
      /\ HoldsClusters(uf, Expected, mode, near)
  BY DEF ClusterInv, AssembleCluster
<1>2. PICK cl : /\ Rooted(uf, cl) /\ Classes(cl) = Expected
                /\ mode = "simhash_only" => \A p \in near : cl[p[1]] = cl[p[2]]
  BY <1>1 DEF HoldsClusters
<1>3. Groups(uf) = Classes(cl)
  BY <1>2, GroupsAre
<1> DEFINE C(i) == {j \in ClusterDocs : cl[i] = cl[j]}
           D == {BestIn(ranking, g) : g \in Classes(cl)}
<1>4. \A g \in Classes(cl) : BestOf(g) = BestIn(ranking, g)
  BY DEF BestOf, BestIn
<1>5. PICK R : R = reps'
  OBVIOUS
<1>6. R = [i \in D |-> (CHOOSE g \in Classes(cl) : i \in g) \ {i}]
  <2>1. reps' = [i \in {BestOf(g) : g \in Groups(uf)} |-> (CHOOSE g \in Groups(uf) : i \in g) \ {i}]
    BY DEF AssembleCluster
  <2>2. {BestOf(g) : g \in Groups(uf)} = D
    BY <1>3, <1>4
  <2> HIDE DEF D
  <2> QED
    BY <1>3, <1>5, <2>1, <2>2
<1>7. \A g \in Classes(cl) : g \subseteq ClusterDocs /\ \A i \in g : g = C(i)
  BY DEF Classes
<1>8. \A g \in Classes(cl) : BestIn(ranking, g) \in g
  <2> TAKE g \in Classes(cl)
  <2>1. g # {}
    BY DEF Classes
  <2>2. g \in SUBSET ClusterDocs
    BY <1>7
  <2>3. \A r : r = ranking => BestIn(r, g) \in g
    BY <1>1, <2>1, <2>2, BestIs
  <2> QED
    BY <2>3
<1>9. \A i \in D : i \in ClusterDocs /\ \E g \in Classes(cl) : i \in g /\ i = BestIn(ranking, g)
  BY <1>7, <1>8
<1>10. \A i \in ClusterDocs : C(i) \in Classes(cl) /\ i \in C(i)
  BY DEF Classes
<1>11. ASSUME NEW i \in D PROVE R[i] = C(i) \ {i}
  <2>1. PICK g : g = CHOOSE e \in Classes(cl) : i \in e
    OBVIOUS
  <2>2. g \in Classes(cl) /\ i \in g
    BY <1>9, <2>1
  <2>3. R[i] = g \ {i}
    <3> HIDE DEF D
    <3> QED
      BY <1>6, <2>1
  <2> HIDE DEF C
  <2> QED
    BY <1>7, <2>2, <2>3
<1>12. \A i \in ClusterDocs : \E j \in D : cl[i] = cl[j]
  <2> TAKE i \in ClusterDocs
  <2>1. BestIn(ranking, C(i)) \in C(i) /\ BestIn(ranking, C(i)) \in D
    <3> HIDE DEF C
    <3> QED
      BY <1>8, <1>10
  <2> QED
    BY <2>1
<1>13. ASSUME NEW i \in D, NEW j \in D, cl[i] = cl[j] PROVE i = j
  <2>1. PICK g \in Classes(cl) : i \in g /\ i = BestIn(ranking, g)
    BY <1>9
  <2>2. PICK f \in Classes(cl) : j \in f /\ j = BestIn(ranking, f)
    BY <1>9
  <2>3. C(i) = C(j)
    BY <1>13
  <2>4. g = f
    <3> HIDE DEF C
    <3> QED
      BY <1>7, <2>1, <2>2, <2>3
  <2> QED
    BY <2>1, <2>2, <2>4
<1>14. DOMAIN R = D /\ D \subseteq ClusterDocs
  <2>1. D \subseteq ClusterDocs
    BY <1>9
  <2> HIDE DEF D
  <2> QED
    BY <1>6, <2>1
<1> HIDE DEF D
<1>15. Answers(R, Classes(cl))
  BY <1>11, <1>12, <1>13, <1>14, AnswerOfEach
<1>16. Expected' = Expected
  BY <1>1, ExpectedIs, ExpectedNext
<1>17. mode = "simhash_only" => \A p \in near : ~({p[1], p[2]} \subseteq DOMAIN R)
  <2> SUFFICES ASSUME mode = "simhash_only", NEW p \in near, {p[1], p[2]} \subseteq D
               PROVE  FALSE
    BY <1>14
  <2>1. cl[p[1]] = cl[p[2]] /\ p[1] # p[2]
    BY <1>1, <1>2 DEF Pairs, ClusterDocs
  <2> QED
    BY <1>13, <2>1
<1>18. ClustersSound'
  BY <1>1, <1>2, <1>5, <1>15, <1>16, <1>17, SoundNext
<1> QED
  BY <1>1, <1>18 DEF ClusterInv, AssembleCluster

(* Every step keeps that.                                                  *)
LEMMA ClusterStep == ClusterInv /\ [ClusterNext]_clusterVars => ClusterInv'
<1> SUFFICES ASSUME ClusterInv, [ClusterNext]_clusterVars PROVE ClusterInv'
  OBVIOUS
<1>1. CASE UNCHANGED clusterVars
  <2>1. UNCHANGED <<mode, near, agree, ranking, at, uf, vectors, fallback, reps>>
    BY <1>1 DEF clusterVars
  <2>2. Expected' = Expected
    BY <2>1, ExpectedIs, ExpectedNext
  <2>3. ClustersSound'
    BY <2>1, <2>2, SoundIs, SoundNext DEF ClusterInv
  <2> QED
    BY <2>1, <2>2, <2>3 DEF ClusterInv
<1> QED
  BY <1>1, HashStep, RefineStep, AssembleStep DEF ClusterNext

(* The union-find begins with every document by itself.                    *)
LEMMA ClusterStarts == ClusterInit => ClusterInv
<1> SUFFICES ASSUME ClusterInit PROVE ClusterInv
  OBVIOUS
<1>1. ranking \in [ClusterDocs -> Int]
  BY ClusterAssumption DEF ClusterInit, ClusterDocs
<1> QED
  BY <1>1, SoundIs DEF ClusterInit, ClusterInv, NearPairs, CosinePairs

(* Cluster (cluster.go) neither loses nor repeats a document and joins     *)
(* exactly the connected near-duplicates, for any number of documents,     *)
(* pairs and rankings: the union-find with path halving and ranks computes *)
(* the components.                                                         *)
THEOREM Clustered == ClusterSpec => []ClustersSound
<1>1. ClusterInv => ClustersSound
  BY DEF ClusterInv
<1> QED
  BY <1>1, ClusterStarts, ClusterStep, PTL DEF ClusterSpec

-----------------------------------------------------------------------------
(* The types of the whole deep research side. Where an invariant above     *)
(* says less than the types do, what is missing goes along with it.        *)

(* What is counted as a failure was begun and is not asking any more.      *)
Asking == {s \in Screened : screen[s] = "asking"}
ScreenTyped ==
    /\ circuit.left <= OpenFor /\ screens \in 0..MaxScreens
    /\ screen \in [Screened -> {"idle", "asking"} \cup Outcomes]
    /\ IsFiniteSet(Asking) /\ circuit.fails + Cardinality(Asking) <= screens

(* A screening that ends is one less that asks.                            *)
LEMMA AskingEnds ==
    ASSUME ScreenTyped, NEW s \in Screened, screen[s] = "asking",
           NEW v \in Outcomes, screen' = [screen EXCEPT ![s] = v]
    PROVE  /\ screen' \in [Screened -> {"idle", "asking"} \cup Outcomes]
           /\ IsFiniteSet(Asking') /\ Cardinality(Asking') = Cardinality(Asking) - 1
           /\ Cardinality(Asking) \in Nat
<1>1. v # "asking"
  BY DEF Outcomes
<1>2. Asking' = Asking \ {s} /\ s \in Asking
  BY <1>1 DEF ScreenTyped, Asking
<1>3. IsFiniteSet(Asking)
  BY DEF ScreenTyped
<1> HIDE DEF Asking
<1>4. IsFiniteSet(Asking') /\ Cardinality(Asking') = Cardinality(Asking) - 1 /\ Cardinality(Asking) \in Nat
  BY <1>2, <1>3, FS_RemoveElement, FS_CardinalityType
<1>5. screen' \in [Screened -> {"idle", "asking"} \cup Outcomes]
  BY DEF ScreenTyped
<1> QED
  BY <1>4, <1>5

(* A call of Screen, its answer, its failure, and time.                    *)
LEMMA ScreenTypedStep ==
    ASSUME BreakerInv, ScreenTyped, [ScreenNext]_screenVars PROVE ScreenTyped'
<1>0. /\ circuit \in [state : {"closed", "open", "half_open"}, fails : Nat, left : Nat]
      /\ OpenFor \in Nat /\ MaxScreens \in Nat /\ screens \in 0..MaxScreens
      /\ circuit.left <= OpenFor /\ circuit.fails + Cardinality(Asking) <= screens
      /\ IsFiniteSet(Asking) /\ Cardinality(Asking) \in Nat
      /\ screen \in [Screened -> {"idle", "asking"} \cup Outcomes]
  BY ScreenAssumption, FS_CardinalityType DEF BreakerInv, ScreenTyped
<1>1. ASSUME NEW s \in Screened, StartScreen(s) PROVE ScreenTyped'
  <2>0. screen[s] # "asking" /\ screens < MaxScreens /\ screens' = screens + 1
    BY <1>1 DEF StartScreen
  <2>1. CASE screen' = [screen EXCEPT ![s] = "fail_open"] /\ circuit' = circuit
    <3>1. Asking' = Asking
      BY <1>0, <2>0, <2>1 DEF Asking
    <3>2. screen' \in [Screened -> {"idle", "asking"} \cup Outcomes]
      BY <1>0, <2>1 DEF Outcomes
    <3> HIDE DEF Asking
    <3> QED
      BY <1>0, <2>0, <2>1, <3>1, <3>2 DEF ScreenTyped
  <2>2. CASE /\ screen' = [screen EXCEPT ![s] = "asking"]
             /\ circuit' = [circuit EXCEPT !.state = IF @ = "open" THEN "half_open" ELSE @]
    <3>1. Asking' = Asking \cup {s} /\ s \notin Asking
      BY <1>0, <2>0, <2>2 DEF Asking
    <3>2. screen' \in [Screened -> {"idle", "asking"} \cup Outcomes]
      BY <1>0, <2>2
    <3> HIDE DEF Asking
    <3>3. IsFiniteSet(Asking') /\ Cardinality(Asking') = Cardinality(Asking) + 1
      BY <1>0, <3>1, FS_AddElement
    <3>4. circuit'.left = circuit.left /\ circuit'.fails = circuit.fails
      BY <1>0, <2>2
    <3> QED
      BY <1>0, <2>0, <3>2, <3>3, <3>4 DEF ScreenTyped
  <2> QED
    BY <1>1, <2>1, <2>2 DEF StartScreen
<1>2. ASSUME NEW s \in Screened, ScreenAnswers(s) PROVE ScreenTyped'
  <2>1. PICK score \in ScreenScores : screen' = [screen EXCEPT ![s] = EvaluateScore(score)]
    BY <1>2 DEF ScreenAnswers
  <2>2. EvaluateScore(score) \in Outcomes
    BY DEF EvaluateScore, Outcomes
  <2>3. screen[s] = "asking" /\ screens' = screens /\ circuit'.fails = 0 /\ circuit'.left = circuit.left
    BY <1>2 DEF ScreenAnswers
  <2>4. /\ screen' \in [Screened -> {"idle", "asking"} \cup Outcomes]
        /\ IsFiniteSet(Asking') /\ Cardinality(Asking') = Cardinality(Asking) - 1
    BY <2>1, <2>2, <2>3, AskingEnds
  <2> HIDE DEF Asking
  <2> QED
    BY <1>0, <2>3, <2>4 DEF ScreenTyped
<1>3. ASSUME NEW s \in Screened, ScreenFails(s) PROVE ScreenTyped'
  <2>1. PICK v \in Outcomes : screen' = [screen EXCEPT ![s] = v]
    BY <1>3 DEF ScreenFails, Outcomes
  <2>3. screen[s] = "asking" /\ screens' = screens /\ circuit' = OnFailure
    BY <1>3 DEF ScreenFails
  <2>4. /\ screen' \in [Screened -> {"idle", "asking"} \cup Outcomes]
        /\ IsFiniteSet(Asking') /\ Cardinality(Asking') = Cardinality(Asking) - 1
    BY <2>1, <2>3, AskingEnds
  <2>5. circuit'.fails = circuit.fails + 1 /\ circuit'.left \in {circuit.left, OpenFor}
    BY <1>0, <2>3 DEF OnFailure
  <2> HIDE DEF Asking
  <2> QED
    BY <1>0, <2>3, <2>4, <2>5 DEF ScreenTyped
<1>4. CASE ScreenTick
  <2>1. circuit.left > 0 /\ circuit' = [circuit EXCEPT !.left = @ - 1] /\ screen' = screen /\ screens' = screens
    BY <1>4 DEF ScreenTick
  <2>2. circuit'.left = circuit.left - 1 /\ circuit'.fails = circuit.fails
    BY <1>0, <2>1
  <2>3. Asking' = Asking
    BY <2>1 DEF Asking
  <2> HIDE DEF Asking
  <2> QED
    BY <1>0, <2>1, <2>2, <2>3 DEF ScreenTyped
<1>5. CASE UNCHANGED screenVars
  BY <1>5 DEF screenVars, ScreenTyped, Asking
<1> QED
  BY <1>1, <1>2, <1>3, <1>4, <1>5 DEF ScreenNext

(* The pre-screen's types.                                                 *)
LEMMA ScreenTypedOK ==
    /\ ScreenInit => ScreenTyped
    /\ BreakerInv /\ ScreenTyped => ScreenTypeOK
<1>1. ASSUME ScreenInit PROVE ScreenTyped
  <2>1. Asking = {}
    BY <1>1 DEF ScreenInit, Asking
  <2> QED
    BY <1>1, <2>1, FS_EmptySet, ScreenAssumption DEF ScreenInit, ScreenTyped
<1>2. ASSUME BreakerInv, ScreenTyped PROVE ScreenTypeOK
  <2>1. Cardinality(Asking) \in Nat
    BY <1>2, FS_CardinalityType DEF ScreenTyped
  <2> HIDE DEF Asking
  <2> QED
    BY <1>2, <2>1, ScreenAssumption DEF ScreenTyped, BreakerInv, ScreenTypeOK
<1> QED
  BY <1>1, <1>2
-----------------------------------------------------------------------------
(* The tracker counts a node when it completes or fails, and once.         *)
Counted == {n \in Nodes : nodeState[n] \in {"complete", "failed"}}
TreeCounts ==
    /\ tokens \in [Nodes -> Tokens \cup {0}]
    /\ count <= Cardinality(Counted)

(* A step that counts no node.                                             *)
LEMMA CountsKept ==
    ASSUME TreeCounts, tokens' = tokens, count' = count, Counted' = Counted
    PROVE  TreeCounts'
BY DEF TreeCounts

(* A node in flight ends with t tokens and is counted.                     *)
LEMMA CountsGrow ==
    ASSUME TreeInv, TreeCounts, NEW n \in Nodes, nodeState[n] = "expanding",
           NEW s \in {"complete", "failed"}, nodeState' = [nodeState EXCEPT ![n] = s],
           count' = count + 1, tokens' \in [Nodes -> Tokens \cup {0}]
    PROVE  TreeCounts'
<1>1. Counted' = Counted \cup {n} /\ n \notin Counted
  BY DEF Counted, TreeInv, TreeTypes
<1>2. IsFiniteSet(Counted)
  BY NodesFinite, FS_Subset DEF Counted
<1> HIDE DEF Counted
<1>3. Cardinality(Counted') = Cardinality(Counted) + 1 /\ Cardinality(Counted) \in Nat
  BY <1>1, <1>2, FS_AddElement, FS_CardinalityType
<1>4. count \in Nat
  BY DEF TreeInv, TreeTypes
<1> QED
  BY <1>3, <1>4 DEF TreeCounts

(* Expansions, decompositions, launches and joins.                         *)
LEMMA TreeCountsStep == ASSUME TreeInv, TreeCounts, [TreeNext]_treeVars PROVE TreeCounts'
<1>0. nodeState \in [Nodes -> NodeStates] /\ tokens \in [Nodes -> Tokens \cup {0}] /\ children \subseteq Nodes
      /\ frontier \subseteq Nodes
  BY DEF TreeInv, TreeTypes, TreeCounts
<1>1. ASSUME NEW n \in children, StartExpansion(n) \/ ExceedBudget(n) PROVE TreeCounts'
  <2>1. tokens' = tokens /\ count' = count
    BY <1>1 DEF StartExpansion, ExceedBudget, tracker
  <2>2. PICK s \in {"expanding", "budget_exceeded"} :
            nodeState[n] = "pending" /\ nodeState' = [nodeState EXCEPT ![n] = s]
    BY <1>1 DEF StartExpansion, ExceedBudget
  <2>3. Counted' = Counted
    BY <1>0, <2>2 DEF Counted
  <2> QED
    BY <2>1, <2>3, CountsKept
<1>2. ASSUME NEW n \in children, Fail(n) PROVE TreeCounts'
  BY <1>0, <1>2, CountsGrow DEF Fail, Release
<1>3. ASSUME NEW n \in children, NEW t \in Tokens, Complete(n, t) PROVE TreeCounts'
  <2>1. tokens' \in [Nodes -> Tokens \cup {0}]
    BY <1>0, <1>3 DEF Complete
  <2> QED
    BY <1>0, <1>3, <2>1, CountsGrow DEF Complete, Release
<1>4. ASSUME NEW n \in frontier, DecomposeFails(n) PROVE TreeCounts'
  <2>1. tokens' = tokens /\ count' = count /\ nodeState' = [nodeState EXCEPT ![n] = "failed"]
    BY <1>4 DEF DecomposeFails, tracker
  <2>2. nodeState[n] = "complete"
    BY <1>4 DEF DecomposeFails, TreeInv, TreeLevels
  <2>3. Counted' = Counted
    BY <1>0, <2>1, <2>2 DEF Counted
  <2> QED
    BY <2>1, <2>3, CountsKept
<1>5. ASSUME NEW n \in frontier, NEW k \in 0..MaxChildren, Decompose(n, k) PROVE TreeCounts'
  BY <1>5, CountsKept DEF Decompose, node, tracker, Counted
<1>6. CASE LaunchLevel
  <2>1. tokens' = tokens /\ count' = count
        /\ nodeState' = [n \in Nodes |-> IF n \in children THEN "pending" ELSE nodeState[n]]
    BY <1>6 DEF LaunchLevel, tracker
  <2>2. \A n \in children : nodeState[n] = "none"
    <3>1. pc = "decompose" /\ depth \in Nat /\ Level = depth
      BY <1>6 DEF LaunchLevel, TreeInv, TreeTypes, Level
    <3> QED
      BY <1>0, <3>1 DEF TreeInv, TreeLevels
  <2>3. Counted' = Counted
    BY <1>0, <2>1, <2>2 DEF Counted
  <2> QED
    BY <2>1, <2>3, CountsKept
<1>7. CASE JoinLevel
  BY <1>7, CountsKept DEF JoinLevel, node, tracker, Counted
<1>8. CASE UNCHANGED treeVars
  BY <1>8, CountsKept DEF treeVars, node, tracker, Counted
<1> QED
  BY <1>1, <1>2, <1>3, <1>4, <1>5, <1>6, <1>7, <1>8 DEF TreeNext, Expand, DecomposeAny

(* The tree's types.                                                       *)
LEMMA TreeTypedOK ==
    /\ TreeInit => TreeCounts
    /\ TreeInv /\ TreeCounts => TreeTypeOK
<1>1. ASSUME TreeInit PROVE TreeCounts
  <2>1. IsFiniteSet(Counted)
    BY NodesFinite, FS_Subset DEF Counted
  <2>2. Cardinality(Counted) \in Nat
    BY <2>1, FS_CardinalityType
  <2> HIDE DEF Counted
  <2> QED
    BY <1>1, <2>2 DEF TreeInit, TreeCounts
<1>2. ASSUME TreeInv, TreeCounts PROVE TreeTypeOK
  <2>1. Cardinality(Counted) <= Cardinality(Nodes) /\ Cardinality(Counted) \in Nat /\ Cardinality(Nodes) \in Nat
    BY NodesFinite, FS_Subset, FS_CardinalityType DEF Counted
  <2>2. reserved \in Nat
    <3>1. \A n \in InFlight : reservedFor[n] \in Nat
      BY <1>2, InFlightFinite DEF TreeInv, TreeTypes
    <3>2. SumOver(reservedFor, InFlight) \in Nat
      BY <3>1, InFlightFinite, SumSplit
    <3> QED
      BY <1>2, <3>2 DEF TreeInv, TreeTypes, TreeSums
  <2> HIDE DEF Counted
  <2>3. count \in 0..Cardinality(Nodes)
    BY <1>2, <2>1 DEF TreeInv, TreeTypes, TreeCounts
  <2> QED
    BY <1>2, <2>2, <2>3 DEF TreeInv, TreeTypes, TreeCounts, TreeTypeOK, NodeStates
<1> QED
  BY <1>1, <1>2
-----------------------------------------------------------------------------
(* The researcher's documents are evidence.                                *)
Evidenced == research.docs \subseteq Evidence
(* Every step keeps it: a researcher takes documents from the evidence.    *)
LEMMA EvidenceStep == ASSUME Evidenced, [AgentNext]_agentVars PROVE Evidenced'
<1>1. CASE Researcher
  <2>1. research' = research \/ \E docs \in SUBSET Evidence, claims \in {"cited", "whole answer"} :
                                   research' = [docs |-> docs, claims |-> claims]
    BY <1>1, Zenon DEF Researcher
  <2>2. ASSUME NEW docs \in SUBSET Evidence, NEW claims, research' = [docs |-> docs, claims |-> claims]
        PROVE  research'.docs \subseteq Evidence
    BY <2>2
  <2>3. research'.docs \subseteq Evidence
    BY <2>1, <2>2 DEF Evidenced
  <2> QED
    BY <2>3 DEF Evidenced
<1>2. CASE ContextEnds \/ Cancelled \/ Reviewer \/ Writer \/ Verifier \/ NoAttempt \/ UNCHANGED agentVars
  BY <1>2 DEF ContextEnds, Cancelled, Reviewer, Writer, Verifier, NoAttempt, agentVars, Evidenced
<1> QED
  BY <1>1, <1>2 DEF AgentNext

(* The pipeline's types.                                                   *)
LEMMA AgentTypedOK ==
    /\ AgentInit => Evidenced
    /\ PipelineInv /\ Evidenced => AgentTypeOK
BY DEF AgentInit, Evidenced, PipelineInv, PipelineTyped, Results, Agents, AgentTypeOK

-----------------------------------------------------------------------------
(* What a reader made of a file is about nodes of the run.                 *)
Reread == DOMAIN reloaded.nodes \subseteq TreeNodes
(* Every step keeps it: a reader takes what the file holds.                *)
LEMMA RereadStep == ASSUME TreeFileInv, Reread, [TreeFileNext]_treeFileVars PROVE Reread'
<1>1. CASE Reload
  <2>1. CASE final = Partial
    BY <1>1, <2>1 DEF Reload, Reread, Partial
  <2>2. CASE final # Partial
    <3>1. reloaded' = Whole(Reclassify(final.nodes)) /\ final # NoFile
      BY <1>1, <2>2 DEF Reload
    <3>2. PICK nodes : final = Whole(nodes) /\ Agrees(nodes, nodeStatus)
      BY <2>2, <3>1 DEF TreeFileInv, IsFile
    <3>3. final.nodes = nodes /\ DOMAIN nodes \subseteq TreeNodes
      BY <3>2 DEF Whole, Agrees
    <3>4. DOMAIN Reclassify(nodes) \subseteq TreeNodes
      BY <3>3 DEF Reclassify
    <3> QED
      BY <3>1, <3>3, <3>4 DEF Reread, Whole
  <2> QED
    BY <2>1, <2>2
<1>2. CASE reloaded' = reloaded
  BY <1>2 DEF Reread
<1> QED
  BY <1>1, <1>2 DEF TreeFileNext, NodeTransition, LevelJoins, WriteTmp, TmpWritten, RenameTmp, Crash, treeFileVars

(* The tree file's types.                                                  *)
LEMMA TreeFileTypedOK ==
    /\ TreeFileInit => Reread
    /\ TreeFileInv /\ Reread => TreeFileTypeOK
<1>1. ASSUME TreeFileInit PROVE Reread
  BY <1>1 DEF TreeFileInit, NoFile, Reread
<1>2. ASSUME TreeFileInv, Reread PROVE TreeFileTypeOK
  <2>1. ASSUME NEW x, IsFile(x, nodeStatus)
        PROVE  /\ x.kind \in {"none", "partial", "whole"} /\ DOMAIN x.nodes \subseteq TreeNodes
               /\ \A n \in DOMAIN x.nodes : x.nodes[n] \in Statuses
    BY <2>1 DEF IsFile, NoFile, Partial, Whole, Agrees
  <2>2. reloaded.kind \in {"none", "partial", "whole"}
    BY <1>2 DEF TreeFileInv, IsReload, NoFile, Partial, Whole
  <2> QED
    BY <1>2, <2>1, <2>2 DEF TreeFileInv, Reread, TreeFileTypeOK
<1> QED
  BY <1>1, <1>2
-----------------------------------------------------------------------------
(* A reader is never ahead of what was written, which only grows.          *)
ReaderTyped ==
    /\ broken \in {"no"} \cup Torn
    /\ reader = [at |-> reader.at, read |-> reader.read, events |-> reader.events]
    /\ reader.read \in 0..Len(wire)

(* What a step leaves of the stream's types when the reader waits.         *)
LEMMA ReaderWaits ==
    ASSUME ReaderTyped, reader' = reader, broken' \in {"no"} \cup Torn,
           Len(wire) \in Nat, Len(wire') \in Nat, Len(wire) <= Len(wire')
    PROVE  ReaderTyped'
BY DEF ReaderTyped

(* A frame written or not: the stream does not get shorter.                *)
LEMMA FrameOrNot ==
    ASSUME IsWire(wire), ReaderTyped, reader' = reader, NEW f,
           (wire' = Append(wire, f) /\ broken' = broken)
              \/ (wire' = wire /\ (broken' \in Torn \/ broken' = broken))
    PROVE  ReaderTyped'
<1>1. broken' \in {"no"} \cup Torn
  BY DEF ReaderTyped
<1>2. Len(wire) \in Nat /\ Len(Append(wire, f)) = Len(wire) + 1
  <2>1. PICK V : wire \in Seq(V)
    BY DEF IsWire
  <2>2. wire \in Seq(V \cup {f})
    BY <2>1
  <2> QED
    BY <2>2
<1> QED
  BY <1>1, <1>2, ReaderWaits

(* Every step of the handler and of the reader.                            *)
LEMMA ReaderStep == ASSUME ReportInv, ReaderTyped, [ReportNext]_reportVars PROVE ReaderTyped'
<1>0. IsWire(wire) /\ log \in Seq(AgentEntries)
  BY DEF ReportInv
<1>1. CASE SourceFails
  <2>1. reader' = reader /\ \E f : (wire' = Append(wire, f) /\ broken' = broken)
                                   \/ (wire' = wire /\ (broken' \in Torn \/ broken' = broken))
    BY <1>1 DEF SourceFails, Written, WriteFails
  <2> QED
    BY <1>0, <2>1, FrameOrNot
<1>2. CASE EmptyCorpus
  <2>1. reader' = reader /\ \E f : (wire' = Append(wire, f) /\ broken' = broken)
                                   \/ (wire' = wire /\ (broken' \in Torn \/ broken' = broken))
    BY <1>2 DEF EmptyCorpus, Written, WriteFails
  <2> QED
    BY <1>0, <2>1, FrameOrNot
<1>3. CASE EmitAgentLog
  <2>1. reader' = reader
    BY <1>3 DEF EmitAgentLog
  <2>2. CASE WriteFails
    <3>1. wire' = wire /\ (broken' \in Torn \/ broken' = broken)
      BY <2>2 DEF WriteFails
    <3> QED
      BY <1>0, <2>1, <3>1, FrameOrNot
  <2>3. CASE broken' = broken /\ wire' = wire \o [i \in DOMAIN log |-> Frame("agent_completed", 0, 0, {log[i].agent})]
    <3>1. PICK more : more = [i \in DOMAIN log |-> Frame("agent_completed", 0, 0, {log[i].agent})]
      OBVIOUS
    <3>2. DOMAIN log = 1..Len(log) /\ Len(log) \in Nat
      BY <1>0
    <3>3. more \in Seq({more[i] : i \in DOMAIN log}) /\ Len(more) = Len(log)
      <4>1. more \in [1..Len(log) -> {more[i] : i \in DOMAIN log}]
        BY <3>1, <3>2
      <4> QED
        BY <3>2, <4>1
    <3>4. PICK V : wire \in Seq(V)
      BY <1>0 DEF IsWire
    <3>5. PICK W : W = V \cup {more[i] : i \in DOMAIN log}
      OBVIOUS
    <3>6. wire \in Seq(W) /\ more \in Seq(W)
      BY <3>3, <3>4, <3>5
    <3>7. Len(wire \o more) = Len(wire) + Len(more) /\ Len(wire) \in Nat
      BY <3>6
    <3>8. broken' \in {"no"} \cup Torn
      BY <2>3 DEF ReaderTyped
    <3> QED
      BY <2>1, <2>3, <3>1, <3>2, <3>3, <3>7, <3>8, ReaderWaits
  <2> QED
    BY <1>3, <2>2, <2>3 DEF EmitAgentLog
<1>4. CASE SectionStart \/ StreamSentence \/ SectionDone \/ StreamDone
  <2>1. reader' = reader
    BY <1>4 DEF SectionStart, StreamSentence, SectionDone, StreamDone
  <2>2. (\E f, h : Send(f, h)) \/ UNCHANGED <<wire, broken>>
    BY <1>4 DEF SectionStart, StreamSentence, SectionDone, StreamDone
  <2>3. \E f : (wire' = Append(wire, f) /\ broken' = broken)
               \/ (wire' = wire /\ (broken' \in Torn \/ broken' = broken))
    BY <2>2 DEF Send, Written, WriteFails
  <2> QED
    BY <1>0, <2>1, <2>3, FrameOrNot
<1>5. CASE ReadFrame
  <2>1. PICK e : reader' = [reader EXCEPT !.read = @ + 1, !.events = e]
    BY <1>5 DEF ReadFrame
  <2>2. reader.read < Len(wire) /\ wire' = wire /\ broken' = broken
    BY <1>5 DEF ReadFrame
  <2>3. reader' = [at |-> reader.at, read |-> reader.read + 1, events |-> e]
    BY <2>1 DEF ReaderTyped
  <2>4. reader'.at = reader.at /\ reader'.read = reader.read + 1 /\ reader'.events = e
    BY <2>3
  <2>5. Len(wire) \in Nat
    BY <1>0 DEF IsWire
  <2> QED
    BY <2>2, <2>3, <2>4, <2>5 DEF ReaderTyped
<1>6. CASE ReadEnd
  <2>1. PICK e : reader' = [reader EXCEPT !.at = "closed", !.events = e]
    BY <1>6 DEF ReadEnd
  <2>2. wire' = wire /\ broken' = broken
    BY <1>6 DEF ReadEnd
  <2>3. reader' = [at |-> "closed", read |-> reader.read, events |-> e]
    BY <2>1 DEF ReaderTyped
  <2>4. reader'.at = "closed" /\ reader'.read = reader.read /\ reader'.events = e
    BY <2>3
  <2> QED
    BY <2>2, <2>3, <2>4 DEF ReaderTyped
<1>7. CASE UNCHANGED <<wire, broken, reader>>
  BY <1>7 DEF ReaderTyped
<1> QED
  BY <1>1, <1>2, <1>3, <1>4, <1>5, <1>6, <1>7
     DEF ReportNext, AgentRuns, Buffered, StartStream, StreamAbandoned, CallerLeaves, reportVars

(* The report stream's types.                                              *)
LEMMA ReportTypedOK ==
    /\ ReportInit => ReaderTyped
    /\ ReportInv /\ ReaderTyped => ReportTypeOK
BY DEF ReportInit, ReaderTyped, ReportInv, Handlers, HandlerAts, HandlerStatuses, ReportTypeOK

-----------------------------------------------------------------------------
(* A call's types.                                                         *)
LEMMA SidecarTypedOK == SidecarInv => SidecarTypeOK
BY DEF SidecarInv, SidecarTypes, SidecarTypeOK

-----------------------------------------------------------------------------
(* The union-find is a forest throughout, and representatives are          *)
(* documents.                                                              *)
ClusterTyped ==
    /\ at \in {"hash", "refine", "assemble", "done"} /\ uf.parent \in [ClusterDocs -> ClusterDocs]
    /\ DOMAIN reps \subseteq ClusterDocs

(* Joining pairs makes a forest.                                           *)
LEMMA JoinedTyped ==
    ASSUME NEW J \in SUBSET Pairs
    PROVE  UnionAll(NewUnionFind, J).parent \in [ClusterDocs -> ClusterDocs]
<1>1. PICK cl : Rooted(UnionAll(NewUnionFind, J), cl)
  BY JoinedGroups
<1> QED
  BY <1>1 DEF Rooted, Forests

(* Hashing, refining, assembling.                                          *)
LEMMA ClusterTypedStep == ASSUME ClusterInv, ClusterTyped, [ClusterNext]_clusterVars PROVE ClusterTyped'
<1>0. near \in SUBSET Pairs /\ agree \in SUBSET Pairs
  BY DEF ClusterInv
<1>1. CASE HashAndUnion
  BY <1>0, <1>1, JoinedTyped DEF HashAndUnion, ClusterTyped
<1>2. CASE RefineWithEmbedding
  <2>1. uf' = uf \/ \E J \in SUBSET Pairs : uf' = UnionAll(NewUnionFind, J)
    <3>1. uf' = uf \/ uf' = Refined(uf, vectors')
      BY <1>2 DEF RefineWithEmbedding
    <3>2. PICK J : J = {p \in agree : Connected(uf, p[1], p[2]) /\ {p[1], p[2]} \subseteq vectors'}
      OBVIOUS
    <3>3. J \in SUBSET Pairs
      BY <1>0, <3>2
    <3>4. Refined(uf, vectors') = UnionAll(NewUnionFind, J)
      BY <3>2 DEF Refined
    <3> QED
      BY <3>1, <3>3, <3>4
  <2> QED
    BY <1>2, <2>1, JoinedTyped DEF RefineWithEmbedding, ClusterTyped
<1>3. CASE AssembleCluster
  <2>1. uf' = uf /\ at' = "done" /\ DOMAIN reps' = {BestOf(g) : g \in Groups(uf)}
    BY <1>3 DEF AssembleCluster
  <2>2. ASSUME NEW g \in Groups(uf) PROVE BestOf(g) \in ClusterDocs
    <3>1. at = "assemble"
      BY <1>3 DEF AssembleCluster
    <3>2. PICK cl : Rooted(uf, cl)
      BY <3>1 DEF ClusterInv, HoldsClusters
    <3>3. Groups(uf) = Classes(cl)
      BY <3>2, GroupsAre
    <3>4. g \subseteq ClusterDocs /\ g # {}
      BY <2>2, <3>3 DEF Classes
    <3>5. BestOf(g) = BestIn(ranking, g)
      BY DEF BestOf, BestIn
    <3>6. ranking \in [ClusterDocs -> Int]
      BY DEF ClusterInv
    <3> QED
      BY <3>4, <3>5, <3>6, BestIs
  <2> QED
    BY <2>1, <2>2 DEF ClusterTyped
<1>4. CASE UNCHANGED clusterVars
  BY <1>4 DEF clusterVars, ClusterTyped
<1> QED
  BY <1>1, <1>2, <1>3, <1>4 DEF ClusterNext

(* The clustering's types.                                                 *)
LEMMA ClusterTypedOK ==
    /\ ClusterInit => ClusterTyped
    /\ ClusterInv /\ ClusterTyped => ClusterTypeOK
BY DEF ClusterInit, NewUnionFind, ClusterTyped, ClusterInv, ClusterTypeOK

-----------------------------------------------------------------------------
(* What a deep request leaves behind is whole, in the composition that is  *)
(* checked: the draft of orchestrator.go and the file of persistence.go.   *)
THEOREM DraftsKept == DeepSpec => []DraftKept
<1>1. DeepInit => PipelineInv /\ TreeFileInv
  BY PipelineInit, TreeFileStarts DEF DeepInit
<1>2. PipelineInv /\ TreeFileInv /\ [DeepNext]_deepVars => (PipelineInv /\ TreeFileInv)'
  <2> SUFFICES ASSUME PipelineInv, TreeFileInv, [DeepNext]_deepVars
               PROVE  PipelineInv' /\ TreeFileInv'
    OBVIOUS
  <2>1. [AgentNext]_agentVars
    BY DEF DeepNext, deepVars
  <2>2. [TreeFileNext]_treeFileVars
    BY DEF DeepNext, deepVars
  <2> QED
    BY <2>1, <2>2, PipelineStep, TreeFileStep
<1>3. PipelineInv /\ TreeFileInv => DraftKept
  BY PipelineAccepts, TreeFileReads DEF DraftKept
<1> QED
  BY <1>1, <1>2, <1>3, PTL DEF DeepSpec

(* The answer side tells its caller the truth, in the composition that is  *)
(* checked: longform.go's stream, the sidecars' clients and cluster.go.    *)
THEOREM Synthesised == DeepSpec => []SynthesisSound
<1>1. DeepInit => CoverInv /\ SidecarInv /\ ClusterInv
  BY CoverStarts, SidecarStarts, ClusterStarts DEF DeepInit
<1>2. CoverInv /\ SidecarInv /\ ClusterInv /\ [DeepNext]_deepVars => (CoverInv /\ SidecarInv /\ ClusterInv)'
  <2> SUFFICES ASSUME CoverInv, SidecarInv, ClusterInv, [DeepNext]_deepVars
               PROVE  CoverInv' /\ SidecarInv' /\ ClusterInv'
    OBVIOUS
  <2>1. [ReportNext]_reportVars
    BY DEF DeepNext, deepVars
  <2>2. [SidecarNext]_sidecarVars
    BY DEF DeepNext, deepVars
  <2>3. [ClusterNext]_clusterVars
    BY DEF DeepNext, deepVars
  <2> QED
    BY <2>1, <2>2, <2>3, CoverStep, SidecarStep, ClusterStep
<1>3. CoverInv /\ SidecarInv /\ ClusterInv => SynthesisSound
  BY ReportAccounts DEF SidecarInv, ClusterInv, SynthesisSound
<1> QED
  BY <1>1, <1>2, <1>3, PTL DEF DeepSpec

-----------------------------------------------------------------------------
(* Everything that the parts keep from step to step.                       *)
DeepInv ==
    /\ IInv /\ TreeInv /\ TreeCounts /\ PipelineInv /\ Evidenced /\ TreeFileInv /\ Reread
    /\ BreakerInv /\ ScreenTyped /\ ReportInv /\ ReaderTyped /\ SidecarInv
    /\ ClusterInv /\ ClusterTyped

(* The deep research side keeps its types, in the composition that is      *)
(* checked: what Redis, the tracker, the breaker, the files, the stream,   *)
(* the clients and the union-find hold is what the code takes it to be.    *)
THEOREM DeepTyped == DeepSpec => []DeepTypesOK
<1>1. DeepInit => DeepInv
  <2>1. ScreenInit => BreakerInv
    BY ScreenAssumption DEF ScreenInit, BreakerInv
  <2> QED
    BY <2>1, InitInv, TreeInitInv, TreeTypedOK, PipelineInit, AgentTypedOK, TreeFileStarts, TreeFileTypedOK,
       ScreenTypedOK, ReportStarts, ReportTypedOK, SidecarStarts, ClusterStarts, ClusterTypedOK
       DEF DeepInit, DeepInv
<1>2. DeepInv /\ [DeepNext]_deepVars => DeepInv'
  <2> SUFFICES ASSUME DeepInv, [DeepNext]_deepVars PROVE DeepInv'
    OBVIOUS
  <2>1. /\ [Next]_vars /\ [TreeNext]_treeVars /\ [AgentNext]_agentVars /\ [TreeFileNext]_treeFileVars
        /\ [ScreenNext]_screenVars /\ [ReportNext]_reportVars /\ [SidecarNext]_sidecarVars
        /\ [ClusterNext]_clusterVars
    BY DEF DeepNext, deepVars
  <2>2. IInv' /\ TreeInv' /\ TreeCounts'
    BY <2>1, CapsStep, TreeStep, TreeCountsStep DEF DeepInv
  <2>3. PipelineInv' /\ Evidenced' /\ TreeFileInv' /\ Reread'
    BY <2>1, PipelineStep, EvidenceStep, TreeFileStep, RereadStep DEF DeepInv
  <2>4. BreakerInv' /\ ScreenTyped' /\ ReportInv' /\ ReaderTyped'
    BY <2>1, BreakerStep, ScreenTypedStep, ReportStep, ReaderStep DEF DeepInv
  <2>5. SidecarInv' /\ ClusterInv' /\ ClusterTyped'
    BY <2>1, SidecarStep, ClusterStep, ClusterTypedStep DEF DeepInv
  <2> QED
    BY <2>2, <2>3, <2>4, <2>5 DEF DeepInv
<1>3. DeepInv => DeepTypesOK
  <2>1. IInv => TypeOK
    BY DEF IInv
  <2> QED
    BY <2>1, TreeTypedOK, AgentTypedOK, TreeFileTypedOK, ScreenTypedOK, ReportTypedOK, SidecarTypedOK,
       ClusterTypedOK DEF DeepInv, DeepTypesOK
<1> QED
  BY <1>1, <1>2, <1>3, PTL DEF DeepSpec
=============================================================================
