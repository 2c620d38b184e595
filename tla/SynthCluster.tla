---------------------------- MODULE SynthCluster ----------------------------
(***************************************************************************)
(* Near-duplicate clustering of the documents before synthesis: documents  *)
(* whose SimHashes are close are joined in a union-find; in hybrid mode    *)
(* the pairs of a cluster stay joined only if their embeddings agree,      *)
(* unless the embedder fails; each cluster is represented by its best      *)
(* document, which lists the others. Which pairs are near, and which agree *)
(* in cosine, is data. The embedder is external.                           *)
(***************************************************************************)
EXTENDS Integers, Sequences, FiniteSets, FiniteSetsExt, SequencesExt

CONSTANTS NumDocs,       \* documents 1..NumDocs, in the order of their ids
          Rankings       \* [1..NumDocs -> Int]: score, date and length in one

ASSUME ClusterAssumption ==
    /\ NumDocs \in Nat \ {0} /\ Rankings \subseteq [1..NumDocs -> Int]

VARIABLES
    mode,       \* of Options: "off", "simhash_only", "hybrid"
    near,       \* pairs <<i, j>>, i < j, within the Hamming threshold
    agree,      \* pairs above the cosine threshold
    ranking,
    at,         \* "hash", "refine", "assemble", "done"
    uf,         \* the union-find: [parent, rank]
    vectors,    \* documents the embedder has sent a vector for
    fallback,
    reps        \* the answer: representative -> the members it lists
clusterVars == <<mode, near, agree, ranking, at, uf, vectors, fallback, reps>>

ClusterDocs == 1..NumDocs
Pairs == {p \in ClusterDocs \X ClusterDocs : p[1] < p[2]}
(* Within the Hamming threshold, and above the cosine threshold: any pairs. *)
NearPairs == SUBSET Pairs
CosinePairs == SUBSET Pairs

NewUnionFind == [parent |-> [i \in ClusterDocs |-> i], rank |-> [i \in ClusterDocs |-> 0]]

ClusterInit ==
    /\ mode \in {"off", "simhash_only", "hybrid"}
    /\ near \in NearPairs /\ agree \in CosinePairs /\ (mode # "hybrid" => agree = {})
    /\ ranking \in Rankings /\ at = "hash" /\ uf = NewUnionFind
    /\ vectors = {} /\ fallback = FALSE /\ reps = [i \in {} |-> {}]

-----------------------------------------------------------------------------
(* find halves the path it walks: the parents change, the sets do not.     *)
Find(u, x) ==
    LET walk[k \in 0..NumDocs] ==
          IF k = 0 THEN [uf |-> u, root |-> x]
          ELSE LET w == walk[k - 1]  p == w.uf.parent IN
               IF p[w.root] = w.root THEN w
               ELSE [uf |-> [w.uf EXCEPT !.parent[w.root] = p[p[w.root]]], root |-> p[p[w.root]]]
    IN walk[NumDocs]

(* union joins the shallower root under the other.                         *)
Link(u, rx, ry) ==
    IF rx = ry THEN u
    ELSE IF u.rank[rx] < u.rank[ry] THEN [u EXCEPT !.parent[rx] = ry]
    ELSE IF u.rank[rx] > u.rank[ry] THEN [u EXCEPT !.parent[ry] = rx]
    ELSE [u EXCEPT !.parent[ry] = rx, !.rank[rx] = @ + 1]
Union_NoFind(u, pair) == Link(u, pair[1], pair[2])
Union(u, pair) ==
    LET fx == Find(u, pair[1])  fy == Find(fx.uf, pair[2]) IN Link(fy.uf, fx.root, fy.root)

(* The two nested loops over i < j.                                        *)
PairLoop == FlattenSeq([i \in ClusterDocs |-> [k \in 1..(NumDocs - i) |-> <<i, i + k>>]])
UnionAll(u, joined) == FoldLeft(LAMBDA v, p : IF p \in joined THEN Union(v, p) ELSE v, u, PairLoop)

RootOf(u, x) == Find(u, x).root
Connected(u, i, j) == RootOf(u, i) = RootOf(u, j)
Groups(u) == {{j \in ClusterDocs : Connected(u, i, j)} : i \in ClusterDocs}

-----------------------------------------------------------------------------
HashAndUnion ==
    /\ at = "hash"
    /\ IF mode = "off" THEN /\ reps' = [i \in ClusterDocs |-> {}] /\ at' = "done" /\ UNCHANGED uf
       ELSE /\ uf' = UnionAll(NewUnionFind, near) /\ UNCHANGED reps
            /\ at' = IF mode = "hybrid" THEN "refine" ELSE "assemble"
    /\ UNCHANGED <<mode, near, agree, ranking, vectors, fallback>>

(* One call embeds the documents of the clusters of two and more, in the   *)
(* order of their indices; the answer may be short. No embedder, an error  *)
(* or a timeout leave the union-find as it was.                            *)
Participants == {i \in ClusterDocs : \E g \in Groups(uf) : i \in g /\ Cardinality(g) >= 2}
Refined(u, vecs) ==
    UnionAll(NewUnionFind, {p \in agree : Connected(u, p[1], p[2]) /\ {p[1], p[2]} \subseteq vecs})
RefineWithEmbedding ==
    /\ at = "refine" /\ at' = "assemble"
    /\ IF Participants = {} THEN UNCHANGED <<uf, vectors, fallback>>
       ELSE \/ \E k \in {Cardinality(Participants), Cardinality(Participants) - 1} :
                  /\ vectors' = {i \in Participants : Cardinality({j \in Participants : j <= i}) <= k}
                  /\ uf' = Refined(uf, vectors') /\ UNCHANGED fallback
            \/ fallback' = TRUE /\ UNCHANGED <<uf, vectors>>
    /\ UNCHANGED <<mode, near, agree, ranking, reps>>

(* betterRep: the ranking, and of equals the smaller id.                   *)
BestOf(group) ==
    CHOOSE i \in group : \A j \in group \ {i} :
       ranking[i] > ranking[j] \/ (ranking[i] = ranking[j] /\ i < j)
AssembleCluster ==
    /\ at = "assemble" /\ at' = "done"
    /\ reps' = [i \in {BestOf(g) : g \in Groups(uf)} |->
                  (CHOOSE g \in Groups(uf) : i \in g) \ {i}]
    /\ UNCHANGED <<mode, near, agree, ranking, uf, vectors, fallback>>

ClusterNext == HashAndUnion \/ RefineWithEmbedding \/ AssembleCluster
ClusterSpec == ClusterInit /\ [][ClusterNext]_clusterVars

-----------------------------------------------------------------------------
ClusterTypeOK ==
    /\ at \in {"hash", "refine", "assemble", "done"} /\ near \cup agree \subseteq Pairs
    /\ uf.parent \in [ClusterDocs -> ClusterDocs] /\ vectors \subseteq ClusterDocs
    /\ DOMAIN reps \subseteq ClusterDocs

(* What the code promises of Cluster: every document is a representative   *)
(* or is listed by exactly one, and none lists itself; the clusters are    *)
(* the connected components of the near pairs, in hybrid mode those of the *)
(* agreeing pairs inside them; and clustering what came out joins nothing. *)
Components(pairs) ==
    LET Linked(S) == S \cup {p[2] : p \in {q \in pairs : q[1] \in S}}
                       \cup {p[1] : p \in {q \in pairs : q[2] \in S}}
    IN {FoldLeft(LAMBDA S, k : Linked(S), {i}, [k \in ClusterDocs |-> k]) : i \in ClusterDocs}
Expected ==
    CASE mode = "off" -> Components({})
      [] mode = "hybrid" /\ ~fallback ->
           Components({p \in agree : /\ {p[1], p[2]} \subseteq vectors
                                     /\ \E g \in Components(near) : {p[1], p[2]} \subseteq g})
      [] OTHER -> Components(near)
ClustersSound ==
    at = "done" =>
       /\ {{i} \cup reps[i] : i \in DOMAIN reps} = Expected
       /\ Cardinality(DOMAIN reps) = Cardinality(Expected)
       /\ \A i \in DOMAIN reps : i \notin reps[i]
       /\ mode = "simhash_only" => \A p \in near : ~({p[1], p[2]} \subseteq DOMAIN reps)
=============================================================================
