------------------------- MODULE SubsequenceLemmas --------------------------
(***************************************************************************)
(* What the operators of Subsequences compute, for any finite set and any  *)
(* sequence. Everything rests on one fact: counting the members before     *)
(* each one numbers the members of a finite set, without gaps, in their    *)
(* order. No induction is needed for it: an injection between finite sets  *)
(* of one size is onto. Then the library's folds and flattening, whose     *)
(* recursive functions are shown to have a solution.                       *)
(***************************************************************************)
EXTENDS Subsequences, Integers, SequencesExt, FiniteSetTheorems, SequenceTheorems,
        WellFoundedInduction, TLAPS

StrictOrder(S, R) ==
    /\ \A x \in S : <<x, x>> \notin R
    /\ \A x, y, z \in S : <<x, y>> \in R /\ <<y, z>> \in R => <<x, z>> \in R
    /\ \A x, y \in S : x # y => <<x, y>> \in R \/ <<y, x>> \in R

(* at numbers the members of S in the order R.                             *)
Ranks(at, S, R) ==
    /\ at \in [1..Cardinality(S) -> S]
    /\ \A x \in S : \E k \in 1..Cardinality(S) : at[k] = x
    /\ \A j, k \in 1..Cardinality(S) : j < k <=> <<at[j], at[k]>> \in R

(* A set of numbers that is closed under successors and holds 0 holds all. *)
LEMMA EveryNumber ==
    ASSUME NEW T, 0 \in T, \A n \in Nat : n \in T => n + 1 \in T
    PROVE  Nat \subseteq T
<1> DEFINE U == {n \in Nat : n \notin T}
<1> SUFFICES ASSUME U # {} PROVE FALSE
  OBVIOUS
<1>1. IsWellFoundedOn(OpToRel(<, Nat), Nat)
  BY NatLessThanWellFounded
<1>2. U \subseteq Nat
  OBVIOUS
<1>3. PICK x \in U : \A y \in U : <<y, x>> \notin OpToRel(<, Nat)
  <2> HIDE DEF U
  <2> QED
    BY <1>1, <1>2, WFMin
<1>4. \A y \in U : ~(y < x)
  BY <1>3 DEF OpToRel
<1>5. x # 0 /\ x \in Nat
  OBVIOUS
<1>6. x - 1 \in Nat /\ x - 1 \in T
  BY <1>4, <1>5
<1>7. (x - 1) + 1 \in T
  BY <1>6
<1> QED
  BY <1>5, <1>7

(* The numbers from 1 to n are n numbers.                                  *)
LEMMA FirstNumbers == \A n \in Nat : IsFiniteSet(1..n) /\ Cardinality(1..n) = n
<1> SUFFICES ASSUME NEW n \in Nat PROVE IsFiniteSet(1..n) /\ Cardinality(1..n) = n
  OBVIOUS
<1>1. 1 \in Int /\ n \in Int
  OBVIOUS
<1>2. IsFiniteSet(1..n) /\ Cardinality(1..n) = IF 1 > n THEN 0 ELSE n - 1 + 1
  BY <1>1, FS_Interval
<1> QED
  BY <1>2

-----------------------------------------------------------------------------
(* A sequence with one more element, and two sequences one after another.  *)
LEMMA OneMore ==
    ASSUME NEW V, NEW s \in Seq(V), NEW e \in V
    PROVE  /\ Append(s, e) \in Seq(V) /\ Len(Append(s, e)) = Len(s) + 1
           /\ DOMAIN Append(s, e) = (DOMAIN s) \cup {Len(s) + 1}
           /\ Append(s, e)[Len(s) + 1] = e
           /\ \A i \in DOMAIN s : Append(s, e)[i] = s[i] /\ s[i] \in V /\ i # Len(s) + 1
OBVIOUS

(* The members of two sequences one after another, by their places.        *)
LEMMA Concatenated ==
    ASSUME NEW V, NEW s \in Seq(V), NEW t \in Seq(V)
    PROVE  /\ s \o t \in Seq(V) /\ Len(s \o t) = Len(s) + Len(t)
           /\ DOMAIN s \subseteq DOMAIN (s \o t)
           /\ \A i \in DOMAIN s : (s \o t)[i] = s[i]
           /\ \A i \in DOMAIN (s \o t) \ DOMAIN s :
                 i - Len(s) \in DOMAIN t /\ (s \o t)[i] = t[i - Len(s)]
           /\ \A i \in DOMAIN t : Len(s) + i \in DOMAIN (s \o t) /\ (s \o t)[Len(s) + i] = t[i]
OBVIOUS

(* Appending to the second of two is appending to both.                    *)
LEMMA LastAppended ==
    ASSUME NEW V, NEW s \in Seq(V), NEW t \in Seq(V), NEW e \in V
    PROVE  s \o Append(t, e) = Append(s \o t, e)
<1> DEFINE u == s \o Append(t, e)  v == Append(s \o t, e)
<1>1. u \in Seq(V) /\ v \in Seq(V) /\ Len(u) = Len(s) + Len(t) + 1 /\ Len(v) = Len(u)
  OBVIOUS
<1>2. \A i \in 1..Len(u) : u[i] = v[i]
  OBVIOUS
<1> HIDE DEF u, v
<1>3. u = v
  BY <1>1, <1>2
<1> QED
  BY <1>3 DEF u, v

(* The head of the second may move to the end of the first.                *)
LEMMA HeadMoved ==
    ASSUME NEW V, NEW s \in Seq(V), NEW t \in Seq(V), t # <<>>
    PROVE  /\ Append(s, Head(t)) \in Seq(V) /\ Tail(t) \in Seq(V)
           /\ Append(s, Head(t)) \o Tail(t) = s \o t
<1> DEFINE u == Append(s, Head(t)) \o Tail(t)  v == s \o t
<1>1. Head(t) \in V /\ Head(t) = t[1] /\ Tail(t) \in Seq(V) /\ Len(Tail(t)) = Len(t) - 1
      /\ \A i \in 1..Len(t) - 1 : Tail(t)[i] = t[i + 1]
  OBVIOUS
<1>2. u \in Seq(V) /\ v \in Seq(V) /\ Len(u) = Len(s) + Len(t) /\ Len(v) = Len(u)
  BY <1>1
<1>3. \A i \in 1..Len(u) : u[i] = v[i]
  BY <1>1
<1> HIDE DEF u, v
<1>4. u = v
  BY <1>2, <1>3
<1> QED
  BY <1>1, <1>4 DEF u, v

-----------------------------------------------------------------------------
Below(S, R, x) == {y \in S : <<y, x>> \in R}

(* The number of members before a member: less than all, and it grows.     *)
LEMMA BelowGrows ==
    ASSUME NEW S, IsFiniteSet(S), NEW R, StrictOrder(S, R)
    PROVE  /\ Cardinality(S) \in Nat
           /\ \A x \in S : Cardinality(Below(S, R, x)) \in 0..Cardinality(S) - 1
           /\ \A x, y \in S : <<x, y>> \in R =>
                 Cardinality(Below(S, R, x)) < Cardinality(Below(S, R, y))
<1>1. ASSUME NEW x \in S PROVE IsFiniteSet(Below(S, R, x)) /\ Cardinality(Below(S, R, x)) \in Nat
  <2>1. Below(S, R, x) \in SUBSET S
    BY DEF Below
  <2> QED
    BY <2>1, FS_Subset, FS_CardinalityType
<1>2. ASSUME NEW x \in S, NEW T, IsFiniteSet(T), Below(S, R, x) \subseteq T \ {x}, x \in T
      PROVE  Cardinality(Below(S, R, x)) < Cardinality(T)
  <2>1. IsFiniteSet(T \ {x}) /\ Cardinality(T \ {x}) = Cardinality(T) - 1 /\ Cardinality(T) \in Nat
    BY <1>2, FS_RemoveElement, FS_CardinalityType
  <2>2. Cardinality(Below(S, R, x)) <= Cardinality(T \ {x})
    BY <1>2, <2>1, FS_Subset
  <2> QED
    BY <1>1, <2>1, <2>2
<1>3. Cardinality(S) \in Nat
  BY FS_CardinalityType
<1>4. ASSUME NEW x \in S PROVE Cardinality(Below(S, R, x)) < Cardinality(S)
  <2>1. Below(S, R, x) \subseteq S \ {x}
    BY DEF Below, StrictOrder
  <2> QED
    BY <1>2, <2>1
<1>5. ASSUME NEW x \in S, NEW y \in S, <<x, y>> \in R
      PROVE  Cardinality(Below(S, R, x)) < Cardinality(Below(S, R, y))
  <2>1. Below(S, R, x) \subseteq Below(S, R, y) \ {x} /\ x \in Below(S, R, y)
    BY <1>5 DEF Below, StrictOrder
  <2> QED
    BY <1>1, <1>2, <2>1
<1> QED
  BY <1>1, <1>3, <1>4, <1>5

(* So the k-th member exists for every k, and Numbered finds it.           *)
LEMMA NumberedRanks ==
    ASSUME NEW S, IsFiniteSet(S), NEW R, StrictOrder(S, R)
    PROVE  Ranks(Numbered(S, R), S, R)
<1> DEFINE n == Cardinality(S)
           b(x) == Cardinality(Below(S, R, x))
           g == [x \in S |-> b(x) + 1]
           at == Numbered(S, R)
<1>1. n \in Nat /\ (\A x \in S : b(x) \in 0..n - 1) /\ (\A x, y \in S : <<x, y>> \in R => b(x) < b(y))
  BY BelowGrows
<1> HIDE DEF b, n
<1>2. \A x, y \in S : b(x) = b(y) => x = y
  <2> SUFFICES ASSUME NEW x \in S, NEW y \in S, x # y PROVE b(x) # b(y)
    OBVIOUS
  <2>1. b(x) \in Nat /\ b(y) \in Nat
    BY <1>1
  <2>2. <<x, y>> \in R \/ <<y, x>> \in R
    BY DEF StrictOrder
  <2>3. b(x) < b(y) \/ b(y) < b(x)
    BY <1>1, <2>2
  <2> QED
    BY <2>1, <2>3
<1>3. g \in Injection(S, 1..n)
  BY <1>1, <1>2 DEF Injection, IsInjective
<1>4. IsFiniteSet(1..n) /\ Cardinality(1..n) = n
  BY <1>1, FirstNumbers
<1>5. g \in Surjection(S, 1..n)
  <2>1. Cardinality(S) = Cardinality(1..n)
    BY <1>4 DEF n
  <2> QED
    BY <1>3, <1>4, <2>1, FS_Injection
<1>6. \A k \in 1..n : \E x \in S : b(x) = k - 1
  <2> SUFFICES ASSUME NEW k \in 1..n PROVE \E x \in S : b(x) = k - 1
    OBVIOUS
  <2>1. PICK x \in S : g[x] = k
    BY <1>5 DEF Surjection
  <2>2. b(x) + 1 = k /\ b(x) \in Nat
    BY <1>1, <2>1
  <2> QED
    BY <2>2
<1>7. at = [k \in 1..n |-> CHOOSE x \in S : b(x) = k - 1]
  <2> DEFINE before == [x \in S |-> Cardinality({y \in S : <<y, x>> \in R})]
  <2>1. \A x \in S : before[x] = b(x)
    BY DEF b, Below
  <2>2. at = [k \in 1..n |-> CHOOSE x \in S : before[x] = k - 1]
    BY DEF Numbered, n
  <2> HIDE DEF before, at
  <2>3. \A k \in 1..n : (CHOOSE x \in S : before[x] = k - 1) = (CHOOSE x \in S : b(x) = k - 1)
    BY <2>1
  <2> QED
    BY <2>2, <2>3
<1>8. ASSUME NEW k \in 1..n PROVE at[k] \in S /\ b(at[k]) = k - 1
  BY <1>6, <1>7
<1>9. \A x \in S : \E k \in 1..n : at[k] = x
  <2> SUFFICES ASSUME NEW x \in S PROVE \E k \in 1..n : at[k] = x
    OBVIOUS
  <2>1. b(x) + 1 \in 1..n /\ b(x) \in Nat
    BY <1>1
  <2>2. b(at[b(x) + 1]) = b(x) /\ at[b(x) + 1] \in S
    BY <1>8, <2>1
  <2> QED
    BY <1>2, <2>1, <2>2
<1>10. \A j, k \in 1..n : j < k <=> <<at[j], at[k]>> \in R
  <2> SUFFICES ASSUME NEW j \in 1..n, NEW k \in 1..n PROVE j < k <=> <<at[j], at[k]>> \in R
    OBVIOUS
  <2>1. at[j] \in S /\ at[k] \in S /\ b(at[j]) = j - 1 /\ b(at[k]) = k - 1
    BY <1>8
  <2>2. j = k \/ <<at[j], at[k]>> \in R \/ <<at[k], at[j]>> \in R
    BY <2>1 DEF StrictOrder
  <2>3. <<at[j], at[k]>> \in R => j < k
    BY <1>1, <2>1
  <2>4. <<at[k], at[j]>> \in R => k < j
    BY <1>1, <2>1
  <2>5. j = k => <<at[j], at[k]>> \notin R
    BY <2>1 DEF StrictOrder
  <2> QED
    BY <1>1, <2>2, <2>3, <2>4, <2>5
<1>11. at \in [1..n -> S]
  BY <1>7, <1>8
<1> HIDE DEF at
<1>12. Ranks(at, S, R)
  BY <1>9, <1>10, <1>11 DEF Ranks, n
<1> QED
  BY <1>12 DEF at

-----------------------------------------------------------------------------
(* A set of positions, in their order.                                     *)
LEMMA EarlierOrder ==
    ASSUME NEW I, I \subseteq Nat
    PROVE  StrictOrder(I, Earlier(I))
BY DEF StrictOrder, Earlier

(* What a filter keeps: the elements at the positions I, each once, in the *)
(* order they have.                                                        *)
InOrder(g, n, I) ==
    /\ g \in [1..n -> I]
    /\ \A i \in I : \E k \in 1..n : g[k] = i
    /\ \A j, k \in 1..n : j < k <=> g[j] < g[k]
KeptBy(g, t, s, I) == InOrder(g, Len(t), I) /\ \A k \in 1..Len(t) : t[k] = s[g[k]]

(* What is kept at the places I is there, in order, and as many.           *)
LEMMA KeepAtIs ==
    ASSUME NEW V, NEW s \in Seq(V), NEW I, I \subseteq DOMAIN s
    PROVE  /\ IsFiniteSet(I) /\ KeepAt(s, I) \in Seq(V)
           /\ Len(KeepAt(s, I)) = Cardinality(I)
           /\ \E g : KeptBy(g, KeepAt(s, I), s, I)
<1> DEFINE at == Numbered(I, Earlier(I))
           t == KeepAt(s, I)
<1>1. Len(s) \in Nat /\ DOMAIN s = 1..Len(s) /\ I \subseteq Nat
  OBVIOUS
<1>2. IsFiniteSet(I) /\ Cardinality(I) \in Nat
  <2>1. IsFiniteSet(1..Len(s)) /\ I \in SUBSET (1..Len(s))
    BY <1>1, FirstNumbers
  <2> QED
    BY <2>1, FS_Subset, FS_CardinalityType
<1>3. Ranks(at, I, Earlier(I))
  BY <1>1, <1>2, EarlierOrder, NumberedRanks
<1>4. at \in [1..Cardinality(I) -> I]
  BY <1>3 DEF Ranks
<1>5. t = [k \in 1..Cardinality(I) |-> s[at[k]]]
  BY <1>4 DEF KeepAt
<1>6. t \in Seq(V) /\ Len(t) = Cardinality(I)
  BY <1>1, <1>2, <1>4, <1>5
<1> HIDE DEF at, t
<1>7. \A j, k \in 1..Cardinality(I) : j < k <=> at[j] < at[k]
  BY <1>3, <1>4 DEF Ranks, Earlier
<1>8. KeptBy(at, t, s, I)
  BY <1>3, <1>4, <1>5, <1>6, <1>7 DEF KeptBy, InOrder, Ranks
<1> QED
  BY <1>2, <1>6, <1>8 DEF t

(* It depends on the elements at those positions only.                     *)
LEMMA KeepAtSame ==
    ASSUME NEW V, NEW s \in Seq(V), NEW t \in Seq(V), NEW I,
           I \subseteq DOMAIN s, \A i \in I : t[i] = s[i]
    PROVE  KeepAt(t, I) = KeepAt(s, I)
<1> DEFINE at == Numbered(I, Earlier(I))
<1>1. I \subseteq Nat /\ IsFiniteSet(I)
  BY KeepAtIs
<1>2. at \in [1..Cardinality(I) -> I]
  BY <1>1, EarlierOrder, NumberedRanks DEF Ranks
<1> QED
  BY <1>2 DEF KeepAt

(* Two numberings of one set of positions, both in order, are the same.    *)
LEMMA OneNumbering ==
    ASSUME NEW n \in Nat, NEW I, I \subseteq Nat,
           NEW g, NEW h, InOrder(g, n, I), InOrder(h, n, I)
    PROVE  g = h
<1> USE DEF InOrder
<1> DEFINE T == {m \in Nat : \A k \in 1..n : k <= m => g[k] = h[k]}
<1>1. 0 \in T
  OBVIOUS
<1>2. ASSUME NEW m \in Nat, m \in T PROVE m + 1 \in T
  <2> SUFFICES ASSUME m + 1 \in 1..n PROVE g[m + 1] = h[m + 1]
    BY <1>2
  <2> DEFINE k == m + 1
  <2>1. \A j \in 1..n : j < k => g[j] = h[j]
    BY <1>2
  <2>2. ~(g[k] < h[k])
    <3> SUFFICES ASSUME g[k] < h[k] PROVE FALSE
      OBVIOUS
    <3>1. PICK j \in 1..n : h[j] = g[k]
      OBVIOUS
    <3>2. j < k
      BY <3>1
    <3>3. g[j] = h[j] /\ g[j] < g[k]
      BY <2>1, <3>2
    <3> QED
      BY <3>1, <3>3
  <2>3. ~(h[k] < g[k])
    <3> SUFFICES ASSUME h[k] < g[k] PROVE FALSE
      OBVIOUS
    <3>1. PICK j \in 1..n : g[j] = h[k]
      OBVIOUS
    <3>2. j < k
      BY <3>1
    <3>3. g[j] = h[j] /\ h[j] < h[k]
      BY <2>1, <3>2
    <3> QED
      BY <3>1, <3>3
  <2>4. g[k] \in Nat /\ h[k] \in Nat
    OBVIOUS
  <2> QED
    BY <2>2, <2>3, <2>4
<1>3. n \in T
  <2> HIDE DEF T
  <2> QED
    BY <1>1, <1>2, EveryNumber
<1>4. \A k \in 1..n : g[k] = h[k]
  BY <1>3
<1> QED
  BY <1>4

(* Whatever sequence is kept by some numbering is what the filter keeps.   *)
LEMMA KeepAtOnly ==
    ASSUME NEW V, NEW s \in Seq(V), NEW I, I \subseteq DOMAIN s,
           NEW t \in Seq(V), NEW h, KeptBy(h, t, s, I)
    PROVE  KeepAt(s, I) = t
<1> DEFINE u == KeepAt(s, I)
<1>1. PICK g : KeptBy(g, u, s, I)
  BY KeepAtIs
<1>2. u \in Seq(V) /\ IsFiniteSet(I) /\ Len(u) = Cardinality(I) /\ I \subseteq Nat
  BY KeepAtIs
<1> HIDE DEF u
<1>3. Len(t) = Cardinality(I)
  <2>1. h \in Bijection(1..Len(t), I)
    <3>1. h \in [1..Len(t) -> I]
      BY DEF KeptBy, InOrder
    <3>2. \A j, k \in 1..Len(t) : h[j] = h[k] => j = k
      <4> TAKE j, k \in 1..Len(t)
      <4>1. h[j] \in Nat /\ h[k] \in Nat
        BY <1>2, <3>1
      <4>2. j < k <=> h[j] < h[k]
        BY DEF KeptBy, InOrder
      <4>3. k < j <=> h[k] < h[j]
        BY DEF KeptBy, InOrder
      <4> QED
        BY <4>1, <4>2, <4>3
    <3>3. h \in Surjection(1..Len(t), I)
      BY <3>1 DEF KeptBy, InOrder, Surjection
    <3> QED
      BY <3>1, <3>2, <3>3 DEF Bijection, Injection, IsInjective
  <2>2. IsFiniteSet(1..Len(t)) /\ Cardinality(1..Len(t)) = Len(t)
    <3>1. Len(t) \in Nat
      OBVIOUS
    <3> QED
      BY <3>1, FirstNumbers
  <2> QED
    BY <2>1, <2>2, FS_Bijection DEF ExistsBijection
<1>4. g = h
  <2>1. InOrder(g, Len(t), I) /\ InOrder(h, Len(t), I) /\ Len(t) \in Nat
    BY <1>1, <1>2, <1>3 DEF KeptBy
  <2> QED
    BY <1>2, <2>1, OneNumbering
<1>5. \A k \in 1..Len(t) : u[k] = t[k]
  BY <1>1, <1>2, <1>3, <1>4 DEF KeptBy, InOrder
<1> QED
  BY <1>2, <1>3, <1>5 DEF u

(* One more position, behind the others.                                   *)
LEMMA KeepAtNext ==
    ASSUME NEW V, NEW s \in Seq(V), NEW n \in DOMAIN s, NEW I, I \subseteq 1..n - 1
    PROVE  KeepAt(s, I \cup {n}) = Append(KeepAt(s, I), s[n])
<1> DEFINE t == KeepAt(s, I)  J == I \cup {n}
<1>1. n \in Nat /\ DOMAIN s = 1..Len(s) /\ J \subseteq DOMAIN s /\ I \subseteq DOMAIN s /\ s[n] \in V
  <2>1. DOMAIN s = 1..Len(s) /\ Len(s) \in Nat /\ n \in 1..Len(s)
    OBVIOUS
  <2>2. n \in Nat /\ s[n] \in V
    BY <2>1
  <2>3. \A i \in 1..n - 1 : i \in 1..Len(s)
    BY <2>1
  <2>4. I \subseteq DOMAIN s
    BY <2>1, <2>3
  <2> QED
    BY <2>1, <2>2, <2>4
<1>2. t \in Seq(V) /\ \E g : KeptBy(g, t, s, I)
  BY <1>1, KeepAtIs
<1> HIDE DEF t
<1>3. PICK g : KeptBy(g, t, s, I)
  BY <1>2
<1> DEFINE m == Len(t) + 1
           h == [k \in 1..m |-> IF k = m THEN n ELSE g[k]]
           u == Append(t, s[n])
<1>4. m \in Nat /\ u \in Seq(V) /\ Len(u) = m /\ u[m] = s[n] /\ \A k \in 1..m - 1 : u[k] = t[k]
  BY <1>1, <1>2
<1>5. InOrder(g, m - 1, I) /\ \A k \in 1..m - 1 : t[k] = s[g[k]]
  BY <1>2, <1>3 DEF KeptBy
<1>6. m \in 1..m
  BY <1>2
<1> HIDE DEF m, u
<1>7. InOrder(h, m, J)
  <2>1. \A k \in 1..m : IF k = m THEN h[k] = n ELSE k \in 1..m - 1 /\ h[k] = g[k] /\ g[k] \in I
    BY <1>4, <1>5 DEF InOrder
  <2>2. h \in [1..m -> J]
    BY <2>1
  <2>3. \A i \in J : \E k \in 1..m : h[k] = i
    <3> SUFFICES ASSUME NEW i \in J PROVE \E k \in 1..m : h[k] = i
      OBVIOUS
    <3>1. CASE i = n
      BY <1>6, <2>1, <3>1
    <3>2. CASE i \in I
      <4>1. PICK k \in 1..m - 1 : g[k] = i
        BY <1>5, <3>2 DEF InOrder
      <4>2. k \in 1..m /\ k # m
        BY <1>4
      <4> QED
        BY <2>1, <4>1, <4>2
    <3> QED
      BY <3>1, <3>2
  <2>4. \A j, k \in 1..m : j < k <=> h[j] < h[k]
    <3> SUFFICES ASSUME NEW j \in 1..m, NEW k \in 1..m PROVE j < k <=> h[j] < h[k]
      OBVIOUS
    <3> HIDE DEF h
    <3>1. CASE j # m /\ k # m
      BY <1>5, <2>1, <3>1 DEF InOrder
    <3>2. CASE j = m
      BY <1>1, <1>4, <2>1, <3>2
    <3>3. CASE j # m /\ k = m
      BY <1>1, <1>4, <2>1, <3>3
    <3> QED
      BY <3>1, <3>2, <3>3
  <2> HIDE DEF h
  <2> QED
    BY <2>2, <2>3, <2>4 DEF InOrder
<1>8. \A k \in 1..m : u[k] = s[h[k]]
  <2> SUFFICES ASSUME NEW k \in 1..m PROVE u[k] = s[h[k]]
    OBVIOUS
  <2>1. CASE k = m
    BY <1>4, <2>1
  <2>2. CASE k # m
    <3>1. k \in 1..m - 1 /\ h[k] = g[k]
      BY <1>4, <2>2
    <3> QED
      BY <1>4, <1>5, <3>1
  <2> QED
    BY <2>1, <2>2
<1> HIDE DEF h
<1>9. KeptBy(h, u, s, J)
  BY <1>4, <1>7, <1>8 DEF KeptBy
<1>10. KeepAt(s, J) = u
  BY <1>1, <1>4, <1>9, KeepAtOnly
<1> QED
  BY <1>10 DEF u, t

(* One more element: it is kept when its position is.                      *)
LEMMA KeepAtAppend ==
    ASSUME NEW V, NEW s \in Seq(V), NEW e \in V, NEW I, I \subseteq DOMAIN s
    PROVE  /\ KeepAt(Append(s, e), I) = KeepAt(s, I)
           /\ KeepAt(Append(s, e), I \cup {Len(s) + 1}) = Append(KeepAt(s, I), e)
<1>1. PICK z : z = Append(s, e)
  OBVIOUS
<1>2. PICK n : n = Len(s) + 1
  OBVIOUS
<1>3. /\ z \in Seq(V) /\ n \in DOMAIN z /\ z[n] = e
      /\ I \subseteq 1..n - 1 /\ \A i \in DOMAIN s : z[i] = s[i]
  BY <1>1, <1>2
<1>4. KeepAt(z, I) = KeepAt(s, I)
  BY <1>3, KeepAtSame
<1>5. KeepAt(z, I \cup {n}) = Append(KeepAt(z, I), z[n])
  BY <1>3, KeepAtNext
<1> QED
  BY <1>1, <1>2, <1>3, <1>4, <1>5

(* Nothing kept, and everything kept.                                      *)
LEMMA KeepAtEnds ==
    ASSUME NEW V, NEW s \in Seq(V)
    PROVE  KeepAt(s, {}) = <<>> /\ KeepAt(s, DOMAIN s) = s
<1>1. InOrder([k \in 1..Len(s) |-> k], Len(s), DOMAIN s)
  BY DEF InOrder
<1>2. KeptBy([k \in 1..Len(s) |-> k], s, s, DOMAIN s)
  BY <1>1 DEF KeptBy
<1>3. KeepAt(s, DOMAIN s) = s
  BY <1>2, KeepAtOnly
<1>4. KeptBy(<<>>, <<>>, s, {})
  BY DEF KeptBy, InOrder
<1>5. KeepAt(s, {}) = <<>>
  <2>1. <<>> \in Seq(V) /\ {} \subseteq DOMAIN s
    OBVIOUS
  <2> QED
    BY <1>4, <2>1, KeepAtOnly
<1> QED
  BY <1>3, <1>5

-----------------------------------------------------------------------------
(* A comparison that sorts: what neither comes before nor after an element *)
(* stands in its place among the others.                                   *)
WeakOrder(I, before) ==
    /\ \A i \in I : <<i, i>> \notin before
    /\ \A i, j, k \in I : <<i, j>> \in before /\ <<j, k>> \in before => <<i, k>> \in before
    /\ \A i, j, k \in I : <<i, k>> \in before => <<i, j>> \in before \/ <<j, k>> \in before

(* Ties broken by place, a weak order on places is a strict one.           *)
LEMMA StableOrder ==
    ASSUME NEW I, I \subseteq Nat, NEW before, WeakOrder(I, before)
    PROVE  StrictOrder(I, Stable(I, before))
<1> DEFINE R == Stable(I, before)
           B(i, j) == <<i, j>> \in before
           S(i, j) == B(i, j) \/ (i < j /\ ~B(j, i))
<1>1. \A i, j \in I : <<i, j>> \in R <=> S(i, j)
  BY DEF Stable
<1>2. /\ \A i \in I : ~B(i, i)
      /\ \A i, j, k \in I : B(i, j) /\ B(j, k) => B(i, k)
      /\ \A i, j, k \in I : B(i, k) => B(i, j) \/ B(j, k)
  BY DEF WeakOrder
<1> HIDE DEF B, R
<1>3. \A i \in I : ~S(i, i)
  BY <1>2
<1>4. \A i, j \in I : i # j => S(i, j) \/ S(j, i)
  <2> SUFFICES ASSUME NEW i \in I, NEW j \in I, i # j PROVE S(i, j) \/ S(j, i)
    OBVIOUS
  <2>1. i \in Nat /\ j \in Nat
    OBVIOUS
  <2> QED
    BY <2>1
<1>5. \A i, j, k \in I : S(i, j) /\ S(j, k) => S(i, k)
  <2> SUFFICES ASSUME NEW i \in I, NEW j \in I, NEW k \in I, S(i, j), S(j, k) PROVE S(i, k)
    OBVIOUS
  <2>1. i \in Nat /\ j \in Nat /\ k \in Nat
    OBVIOUS
  <2>2. B(i, k) \/ ~B(k, i)
    <3> SUFFICES ASSUME B(k, i) PROVE FALSE
      OBVIOUS
    <3>1. B(k, j) \/ B(j, i)
      BY <1>2
    <3>2. CASE B(i, j)
      BY <1>2, <3>1, <3>2
    <3>3. CASE ~B(i, j)
      BY <1>2, <3>1, <3>3
    <3> QED
      BY <3>2, <3>3
  <2>3. B(i, j) => B(i, k)
    BY <1>2
  <2>4. B(j, k) => B(i, k)
    BY <1>2
  <2>5. ~B(i, j) /\ ~B(j, k) => i < k
    BY <2>1
  <2> QED
    BY <2>2, <2>3, <2>4, <2>5
<1>6. StrictOrder(I, R)
  BY <1>1, <1>3, <1>4, <1>5 DEF StrictOrder
<1> QED
  BY <1>6 DEF R

(* The sorted sequence is a rearrangement: every element once, and none    *)
(* before one that the comparison puts in front of it.                     *)
LEMMA SortedByIs ==
    ASSUME NEW V, NEW s \in Seq(V), NEW before, WeakOrder(DOMAIN s, before)
    PROVE  LET t == SortedBy(s, before) IN
           /\ t \in Seq(V) /\ Len(t) = Len(s)
           /\ \E g \in [DOMAIN s -> DOMAIN s] :
                 /\ \A k \in DOMAIN s : t[k] = s[g[k]]
                 /\ \A i \in DOMAIN s : \E k \in DOMAIN s : g[k] = i
                 /\ \A j, k \in DOMAIN s : j < k <=> <<g[j], g[k]>> \in Stable(DOMAIN s, before)
<1> DEFINE D == DOMAIN s
           R == Stable(D, before)
           at == Numbered(D, R)
           t == SortedBy(s, before)
<1>1. D = 1..Len(s) /\ Len(s) \in Nat /\ D \subseteq Nat
  OBVIOUS
<1>2. IsFiniteSet(D) /\ Cardinality(D) = Len(s)
  BY <1>1, FirstNumbers
<1>3. StrictOrder(D, R)
  BY <1>1, StableOrder
<1>4. Ranks(at, D, R)
  <2> HIDE DEF R
  <2> QED
    BY <1>2, <1>3, NumberedRanks
<1>5. at \in [D -> D]
  <2> HIDE DEF at, R, D
  <2> QED
    BY <1>1, <1>2, <1>4 DEF Ranks
<1>6. t = [k \in D |-> s[at[k]]]
  <2> HIDE DEF R
  <2>1. DOMAIN at = D
    BY <1>5
  <2> QED
    BY <2>1 DEF SortedBy, R
<1>7. t \in Seq(V) /\ Len(t) = Len(s)
  BY <1>1, <1>5, <1>6
<1>8. /\ \A k \in D : t[k] = s[at[k]]
      /\ \A i \in D : \E k \in D : at[k] = i
      /\ \A j, k \in D : j < k <=> <<at[j], at[k]>> \in R
  <2>1. \A k \in D : t[k] = s[at[k]]
    BY <1>6
  <2> HIDE DEF at, R, D
  <2> QED
    BY <1>1, <1>2, <1>4, <2>1 DEF Ranks
<1> QED
  <2> HIDE DEF at
  <2> QED
    BY <1>5, <1>7, <1>8

(* What is kept is what was at the positions, each as often as there.      *)
LEMMA KeptValues ==
    ASSUME NEW V, NEW s \in Seq(V), NEW I, I \subseteq DOMAIN s
    PROVE  LET t == KeepAt(s, I) IN
           /\ t \in Seq(V)
           /\ \A k \in DOMAIN t : \E i \in I : t[k] = s[i]
           /\ \A i \in I : \E k \in DOMAIN t : t[k] = s[i]
           /\ (\A i, j \in I : s[i] = s[j] => i = j) => \A j, k \in DOMAIN t : t[j] = t[k] => j = k
<1> DEFINE t == KeepAt(s, I)
<1>1. t \in Seq(V) /\ \E g : KeptBy(g, t, s, I)
  BY KeepAtIs
<1> HIDE DEF t
<1>2. PICK g : KeptBy(g, t, s, I)
  BY <1>1
<1>3. DOMAIN t = 1..Len(t) /\ Len(t) \in Nat /\ DOMAIN s = 1..Len(s) /\ Len(s) \in Nat
  BY <1>1
<1>4. /\ \A k \in DOMAIN t : g[k] \in I /\ t[k] = s[g[k]]
      /\ \A i \in I : \E k \in DOMAIN t : g[k] = i
  BY <1>2, <1>3 DEF KeptBy, InOrder
<1>5. ASSUME NEW j \in DOMAIN t, NEW k \in DOMAIN t, g[j] = g[k] PROVE j = k
  <2>1. g[j] \in Nat /\ g[k] \in Nat
    BY <1>3, <1>4
  <2>2. (j < k <=> g[j] < g[k]) /\ (k < j <=> g[k] < g[j])
    BY <1>2, <1>3 DEF KeptBy, InOrder
  <2> QED
    BY <1>3, <1>5, <2>1, <2>2
<1>6. /\ \A k \in DOMAIN t : \E i \in I : t[k] = s[i]
      /\ \A i \in I : \E k \in DOMAIN t : t[k] = s[i]
  BY <1>4
<1>7. (\A i, j \in I : s[i] = s[j] => i = j) => \A j, k \in DOMAIN t : t[j] = t[k] => j = k
  BY <1>4, <1>5
<1> QED
  BY <1>1, <1>6, <1>7 DEF t

(* Every element has a first place, and only one.                          *)
LEMMA FirstPlacesAre ==
    ASSUME NEW V, NEW s \in Seq(V)
    PROVE  LET I == FirstPlaces(s) IN
           /\ I \subseteq DOMAIN s /\ \A i \in DOMAIN s : \E j \in I : s[j] = s[i]
           /\ \A i, j \in I : s[i] = s[j] => i = j
<1> DEFINE I == FirstPlaces(s)
<1>1. DOMAIN s = 1..Len(s) /\ Len(s) \in Nat
  OBVIOUS
<1>2. I \subseteq DOMAIN s
  BY DEF FirstPlaces
<1>3. ASSUME NEW i \in I, NEW j \in I, s[i] = s[j] PROVE i = j
  <2>1. ~(i < j) /\ ~(j < i)
    BY <1>1, <1>3 DEF FirstPlaces
  <2> QED
    BY <1>1, <1>2, <2>1
<1>4. ASSUME NEW i \in DOMAIN s PROVE \E j \in I : s[j] = s[i]
  <2> DEFINE U == {j \in DOMAIN s : s[j] = s[i]}
  <2>1. U \subseteq Nat /\ U # {}
    BY <1>1
  <2>2. PICK x \in U : \A y \in U : <<y, x>> \notin OpToRel(<, Nat)
    <3> HIDE DEF U
    <3> QED
      BY <2>1, NatLessThanWellFounded, WFMin
  <2>3. \A y \in U : ~(y < x)
    BY <2>1, <2>2 DEF OpToRel
  <2>4. x \in I
    BY <1>1, <2>3 DEF FirstPlaces
  <2> QED
    BY <2>4
<1> QED
  BY <1>2, <1>3, <1>4

-----------------------------------------------------------------------------
(* What FlattenSeq makes of sequences: one of the same things, and of all  *)
(* of them.                                                                *)
HasItem(t, x) == \E p \in DOMAIN t : t[p] = x

(* Of what either has.                                                     *)
LEMMA HoldsBoth ==
    ASSUME NEW V, NEW s \in Seq(V), NEW t \in Seq(V), NEW x, HasItem(s, x) \/ HasItem(t, x)
    PROVE  HasItem(s \o t, x)
<1>1. CASE HasItem(s, x)
  <2>1. PICK p \in DOMAIN s : s[p] = x
    BY <1>1 DEF HasItem
  <2>2. p \in DOMAIN (s \o t) /\ (s \o t)[p] = s[p]
    OBVIOUS
  <2> QED
    BY <2>1, <2>2 DEF HasItem
<1>2. CASE HasItem(t, x)
  <2>1. PICK p \in DOMAIN t : t[p] = x
    BY <1>2 DEF HasItem
  <2>2. Len(s) + p \in DOMAIN (s \o t) /\ (s \o t)[Len(s) + p] = t[p]
    OBVIOUS
  <2> QED
    BY <2>1, <2>2 DEF HasItem
<1> QED
  BY <1>1, <1>2

(* By the number of sequences.                                             *)
LEMMA Flattened ==
    ASSUME NEW V, NEW s \in Seq(Seq(V)), s # <<>>
    PROVE  /\ FlattenSeq(s) \in Seq(V)
           /\ \A i \in DOMAIN s : \A x : HasItem(s[i], x) => HasItem(FlattenSeq(s), x)
<1> DEFINE n == Len(s)
           Part(f, i) == IF i = 1 THEN s[i] ELSE f[i - 1] \o s[i]
           Solves(f) == f = [i \in 1..n |-> Part(f, i)]
           UpToK(f, k) == /\ f = [i \in 1..k |-> f[i]] /\ \A i \in 1..k : f[i] = Part(f, i) /\ f[i] \in Seq(V)
           T == {k \in Nat : k <= n => \E f : UpToK(f, k)}
           it == CHOOSE f : Solves(f)
<1>0. n \in Nat \ {0} /\ \A i \in 1..n : s[i] \in Seq(V)
  OBVIOUS
<1>1. 0 \in T
  <2>1. UpToK([i \in 1..0 |-> {}], 0)
    OBVIOUS
  <2> HIDE DEF UpToK
  <2> QED
    BY <2>1
<1>2. ASSUME NEW k \in Nat, k \in T PROVE k + 1 \in T
  <2> SUFFICES ASSUME k + 1 <= n PROVE \E f : UpToK(f, k + 1)
    <3> HIDE DEF UpToK
    <3> QED
      OBVIOUS
  <2>1. k <= n
    BY <1>0
  <2>2. PICK f : UpToK(f, k)
    <3> HIDE DEF UpToK
    <3> QED
      BY <1>2, <2>1
  <2> DEFINE g == [i \in 1..k + 1 |-> Part(f, i)]
  <2>3. \A i \in 1..k : i \in 1..k + 1 /\ g[i] = f[i]
    <3> TAKE i \in 1..k
    <3>1. i \in 1..k + 1
      OBVIOUS
    <3>2. g[i] = Part(f, i)
      BY <3>1
    <3> HIDE DEF g
    <3> QED
      BY <2>2, <3>1, <3>2
  <2>4. ASSUME NEW i \in 1..k + 1 PROVE g[i] = Part(g, i) /\ g[i] \in Seq(V)
    <3>1. g[i] = Part(f, i)
      OBVIOUS
    <3> HIDE DEF g
    <3>2. i # 1 => i - 1 \in 1..k
      OBVIOUS
    <3>3. i \in 1..n /\ s[i] \in Seq(V)
      BY <1>0
    <3>4. CASE i = 1
      BY <3>1, <3>3, <3>4
    <3>5. CASE i # 1
      <4>1. f[i - 1] \in Seq(V) /\ g[i - 1] = f[i - 1]
        BY <2>2, <2>3, <3>2, <3>5
      <4>2. g[i] = f[i - 1] \o s[i]
        BY <3>1, <3>5
      <4>3. g[i] = g[i - 1] \o s[i] /\ g[i] \in Seq(V)
        <5>1. f[i - 1] \o s[i] \in Seq(V)
          BY <3>3, <4>1
        <5> QED
          BY <4>1, <4>2, <5>1
      <4> QED
        BY <3>5, <4>3
    <3> QED
      BY <3>4, <3>5
  <2>5. g = [i \in 1..k + 1 |-> g[i]]
    OBVIOUS
  <2> HIDE DEF g
  <2>6. UpToK(g, k + 1)
    BY <2>4, <2>5
  <2> QED
    BY <2>6
<1>3. n \in T
  <2> HIDE DEF T, n
  <2> QED
    BY <1>0, <1>1, <1>2, EveryNumber
<1>4. PICK f : UpToK(f, n)
  <2> HIDE DEF UpToK
  <2> QED
    BY <1>0, <1>3
<1>5. Solves(it)
  <2>1. f = [i \in 1..n |-> f[i]]
    BY <1>4
  <2>2. [i \in 1..n |-> f[i]] = [i \in 1..n |-> Part(f, i)]
    BY <1>4
  <2>3. Solves(f)
    BY <2>1, <2>2
  <2> HIDE DEF Solves
  <2> QED
    BY <2>3
<1>6. FlattenSeq(s) = it[n]
  BY <1>0 DEF FlattenSeq
<1> HIDE DEF it
<1> DEFINE Good(k) == it[k] \in Seq(V) /\ \A i \in 1..k : \A x : HasItem(s[i], x) => HasItem(it[k], x)
           U == {k \in Nat : k \in 1..n => Good(k)}
<1>7. 0 \in U
  OBVIOUS
<1>8. ASSUME NEW k \in Nat, k \in U PROVE k + 1 \in U
  <2> SUFFICES ASSUME k + 1 \in 1..n PROVE Good(k + 1)
    <3> HIDE DEF Good
    <3> QED
      OBVIOUS
  <2>1. it[k + 1] = Part(it, k + 1)
    <3> HIDE DEF Part
    <3> QED
      BY <1>5
  <2>2. s[k + 1] \in Seq(V)
    BY <1>0
  <2>3. CASE k = 0
    <3>1. it[k + 1] = s[k + 1] /\ \A i \in 1..k + 1 : i = k + 1
      BY <2>1, <2>3
    <3> QED
      BY <2>2, <3>1
  <2>4. CASE k # 0
    <3>1. (k + 1) - 1 = k /\ k + 1 # 1 /\ k \in 1..n /\ \A i \in 1..k + 1 : i = k + 1 \/ i \in 1..k
      BY <1>0, <2>4
    <3>2. Good(k)
      <4> HIDE DEF Good
      <4> QED
        BY <1>8, <3>1
    <3>3. PICK t : t = it[k]
      OBVIOUS
    <3>4. PICK u : u = s[k + 1]
      OBVIOUS
    <3>5. t \in Seq(V) /\ u \in Seq(V) /\ it[k + 1] = t \o u
      BY <2>1, <2>2, <3>1, <3>2, <3>3, <3>4
    <3>6. t \o u \in Seq(V)
      BY <3>5
    <3>7. \A x : HasItem(t, x) \/ HasItem(u, x) => HasItem(t \o u, x)
      BY <3>5, HoldsBoth
    <3>8. \A i \in 1..k + 1 : \A x : HasItem(s[i], x) => HasItem(t \o u, x)
      BY <3>1, <3>2, <3>3, <3>4, <3>7
    <3> QED
      BY <3>5, <3>6, <3>8
  <2> QED
    BY <2>3, <2>4
<1>9. n \in U
  <2> HIDE DEF U, n
  <2> QED
    BY <1>0, <1>7, <1>8, EveryNumber
<1>10. Good(n)
  <2> HIDE DEF Good
  <2> QED
    BY <1>0, <1>9
<1>11. PICK t : t = FlattenSeq(s)
  OBVIOUS
<1>12. t \in Seq(V) /\ \A i \in 1..n : \A x : HasItem(s[i], x) => HasItem(t, x)
  BY <1>6, <1>10, <1>11
<1>13. DOMAIN s = 1..n
  OBVIOUS
<1> HIDE DEF n
<1> QED
  BY <1>11, <1>12, <1>13

-----------------------------------------------------------------------------
(* The greatest of some of the numbers from 1 to n.                        *)
LEMMA MaxIs ==
    ASSUME NEW n \in Nat, NEW S, S \subseteq 1..n, S # {}
    PROVE  Max(S) \in S /\ \A y \in S : Max(S) >= y
<1> DEFINE U == {n - x : x \in S}
<1>1. U \subseteq Nat /\ U # {}
  <2>1. \A x \in S : x \in 1..n
    OBVIOUS
  <2>2. \A x \in 1..n : n - x \in Nat
    OBVIOUS
  <2> QED
    BY <2>1, <2>2
<1>2. PICK u \in U : \A v \in U : <<v, u>> \notin OpToRel(<, Nat)
  <2> HIDE DEF U
  <2> QED
    BY <1>1, NatLessThanWellFounded, WFMin
<1>3. PICK x \in S : u = n - x
  OBVIOUS
<1>4. \A y \in S : x >= y
  <2> TAKE y \in S
  <2>1. n - y \in U /\ n - y \in Nat /\ u \in Nat
    BY <1>1
  <2>2. ~(n - y < u)
    BY <1>2, <2>1 DEF OpToRel
  <2> QED
    BY <1>3, <2>2
<1> QED
  BY <1>4 DEF Max

(* And of all of them.                                                     *)
LEMMA MaxFirst ==
    ASSUME NEW k \in Nat \ {0} PROVE Max(1..k) = k /\ (1..k) \ {k} = 1..k - 1 /\ 1..k # {}
<1>1. 1..k \subseteq 1..k /\ k \in 1..k
  OBVIOUS
<1>2. Max(1..k) \in 1..k /\ Max(1..k) >= k
  BY <1>1, MaxIs
<1> QED
  BY <1>2

(* FoldLeft is a recursion over the subsets of the positions, the greatest *)
(* taken off each; there is a function that solves it.                     *)
Unwinds(f, Acc, G, base, s) ==
    /\ f \in [SUBSET DOMAIN s -> Acc]
    /\ \A S \in SUBSET DOMAIN s :
          f[S] = IF S = {} THEN base ELSE G[f[S \ {Max(S)}]][s[Max(S)]]

(* There is such a function: by the number of positions.                   *)
LEMMA FoldExists ==
    ASSUME NEW V, NEW Acc, NEW G \in [Acc -> [V -> Acc]], NEW base \in Acc, NEW s \in Seq(V)
    PROVE  \E f : Unwinds(f, Acc, G, base, s)
<1> DEFINE Solves(f, k) ==
              /\ f \in [SUBSET (1..k) -> Acc]
              /\ \A S \in SUBSET (1..k) :
                    f[S] = IF S = {} THEN base ELSE G[f[S \ {Max(S)}]][s[Max(S)]]
           T == {k \in Nat : k <= Len(s) => \E f : Solves(f, k)}
<1>1. Len(s) \in Nat /\ DOMAIN s = 1..Len(s) /\ \A i \in 1..Len(s) : s[i] \in V
  OBVIOUS
<1>2. 0 \in T
  <2>1. SUBSET (1..0) = {{}}
    OBVIOUS
  <2>2. Solves([S \in SUBSET (1..0) |-> base], 0)
    BY <2>1
  <2> HIDE DEF Solves
  <2> QED
    BY <2>2
<1>3. ASSUME NEW k \in Nat, k \in T PROVE k + 1 \in T
  <2> SUFFICES ASSUME k + 1 <= Len(s) PROVE \E f : Solves(f, k + 1)
    <3> HIDE DEF Solves
    <3> QED
      OBVIOUS
  <2>1. k <= Len(s)
    BY <1>1
  <2>2. PICK f : Solves(f, k)
    <3> HIDE DEF Solves
    <3> QED
      BY <1>3, <2>1
  <2> DEFINE D == SUBSET (1..k + 1)
             g == [S \in D |-> IF S = {} THEN base ELSE G[f[S \ {Max(S)}]][s[Max(S)]]]
  <2>3. ASSUME NEW S \in D, S # {}
        PROVE  S \ {Max(S)} \in SUBSET (1..k) /\ s[Max(S)] \in V
    <3>0. k + 1 \in Nat /\ S \subseteq 1..k + 1
      OBVIOUS
    <3>1. Max(S) \in S /\ \A y \in S : Max(S) >= y
      BY <2>3, <3>0, MaxIs
    <3>2. PICK m : m = Max(S)
      OBVIOUS
    <3>3. m \in 1..k + 1 /\ \A y \in S \ {m} : y \in 1..k + 1 /\ m >= y /\ y # m
      BY <3>0, <3>1, <3>2
    <3>4. \A y \in S \ {m} : y \in 1..k
      BY <3>3
    <3>5. m \in 1..Len(s)
      BY <1>1, <3>3
    <3> QED
      BY <1>1, <3>2, <3>4, <3>5
  <2>4. g \in [D -> Acc]
    <3> SUFFICES ASSUME NEW S \in D, S # {} PROVE G[f[S \ {Max(S)}]][s[Max(S)]] \in Acc
      OBVIOUS
    <3>1. f[S \ {Max(S)}] \in Acc /\ s[Max(S)] \in V
      BY <2>2, <2>3
    <3> QED
      BY <3>1
  <2>5. \A S \in SUBSET (1..k) : S \in D /\ g[S] = f[S]
    <3> TAKE S \in SUBSET (1..k)
    <3>1. S \in D
      OBVIOUS
    <3> QED
      BY <2>2, <3>1
  <2>6. \A S \in D : g[S] = IF S = {} THEN base ELSE G[g[S \ {Max(S)}]][s[Max(S)]]
    <3> TAKE S \in D
    <3>1. g[S] = IF S = {} THEN base ELSE G[f[S \ {Max(S)}]][s[Max(S)]]
      OBVIOUS
    <3>2. S # {} => g[S \ {Max(S)}] = f[S \ {Max(S)}]
      BY <2>3, <2>5
    <3> HIDE DEF g
    <3> QED
      BY <3>1, <3>2
  <2> HIDE DEF g
  <2>7. Solves(g, k + 1)
    BY <2>4, <2>6
  <2> QED
    BY <2>7
<1>4. Len(s) \in T
  <2> HIDE DEF T
  <2> QED
    BY <1>1, <1>2, <1>3, EveryNumber
<1>5. PICK f : Solves(f, Len(s))
  <2> HIDE DEF Solves
  <2> QED
    BY <1>1, <1>4
<1> QED
  BY <1>1, <1>5 DEF Unwinds
=============================================================================
