----------------------------- MODULE PowerCutProofs -----------------------------
(***************************************************************************)
(* Proofs about PowerCut, for any numbers of files and clusters and any    *)
(* layout of the table in blocks: whenever the power goes, what was closed *)
(* or removed is on the medium as it was then, and no two files on it      *)
(* share a cluster unless one was truncated since the last flush.          *)
(***************************************************************************)
EXTENDS PowerCut, TLAPS, FiniteSetTheorems, SequenceTheorems

(* A set of numbers has a least member: the library's theorem about strict *)
(* subsets, for the sets 1 .. i.                                           *)
LEMMA LeastOf ==
  ASSUME NEW S, S \subseteq Nat, S # {}
  PROVE  \E m \in S : \A j \in S : m <= j
  <1> DEFINE T == {1 .. i : i \in S}
  <1>1. T \subseteq FiniteSubsetsOf(Nat) /\ T # {}
    <2>1. \A i \in S : 1 .. i \subseteq Nat /\ IsFiniteSet(1 .. i)
      BY FS_Interval
    <2> QED BY <2>1 DEF FiniteSubsetsOf
  <1>2. PICK i \in S : \A j \in S : ~ (1 .. j \subseteq 1 .. i /\ 1 .. j # 1 .. i)
    <2>1. PICK x \in T : \A y \in T : ~ (<<y, x>> \in StrictSubsetOrdering(Nat))
      BY <1>1, FS_StrictSubsetOrderingWellFounded, WFMin
    <2>2. PICK i \in S : x = 1 .. i
      OBVIOUS
    <2>3. \A j \in S : 1 .. j \in T /\ 1 .. j \in SUBSET Nat
      OBVIOUS
    <2> QED BY <2>1, <2>2, <2>3 DEF StrictSubsetOrdering
  <1>3. \A j \in S : i <= j
    <2> SUFFICES ASSUME NEW j \in S, j < i PROVE FALSE
      OBVIOUS
    <2>1. 1 .. j \subseteq 1 .. i
      OBVIOUS
    <2>2. i \in 1 .. i /\ i \notin 1 .. j
      OBVIOUS
    <2> QED BY <1>2, <2>1, <2>2
  <1> QED BY <1>3

(* One step of the walk along a chain.                                     *)
Step(t, w) == IF t[w[Len(w)]] \in {0, EOF} THEN w ELSE Append(w, t[w[Len(w)]])

IsWalk(g, t, c, n) == g = [i \in 1 .. n |-> IF i = 1 THEN <<c>> ELSE Step(t, g[i - 1])]

(* The recursion in Chain defines a function.                              *)
LEMMA WalkExists ==
  ASSUME NEW t, NEW c, NEW n \in Nat \ {0}
  PROVE  \E g : IsWalk(g, t, c, n)
  <1> DEFINE Bad == {m \in Nat \ {0} : ~ \E g : IsWalk(g, t, c, m)}
  <1> SUFFICES ASSUME Bad # {} PROVE FALSE
    OBVIOUS
  <1>1. PICK m \in Bad : \A j \in Bad : m <= j
    BY LeastOf, Bad \subseteq Nat
  <1>2. CASE m = 1
    <2>1. IsWalk([i \in 1 .. 1 |-> <<c>>], t, c, 1)
      BY DEF IsWalk
    <2> QED BY <1>2, <2>1
  <1>3. CASE m # 1
    <2>1. m - 1 \in Nat \ {0} /\ m - 1 \notin Bad
      BY <1>1, <1>3
    <2>2. PICK g : IsWalk(g, t, c, m - 1)
      BY <2>1
    <2> DEFINE h == [i \in 1 .. m |-> IF i < m THEN g[i] ELSE Step(t, g[m - 1])]
    <2>3. \A i \in 1 .. m : h[i] = IF i = 1 THEN <<c>> ELSE Step(t, h[i - 1])
      <3> SUFFICES ASSUME NEW i \in 1 .. m
                   PROVE  h[i] = IF i = 1 THEN <<c>> ELSE Step(t, h[i - 1])
        OBVIOUS
      <3>1. CASE i = m
        <4>1. h[i] = Step(t, g[m - 1]) /\ h[m - 1] = g[m - 1]
          BY <3>1, <2>1
        <4> QED BY <3>1, <4>1, <1>3
      <3>2. CASE i < m
        <4>1. i \in 1 .. m - 1
          BY <3>2
        <4>2. g[i] = IF i = 1 THEN <<c>> ELSE Step(t, g[i - 1])
          BY <4>1, <2>2, <2>1 DEF IsWalk
        <4>3. h[i] = g[i] /\ (i # 1 => h[i - 1] = g[i - 1])
          BY <3>2
        <4> QED BY <4>2, <4>3
      <3> QED BY <3>1, <3>2
    <2>4. IsWalk(h, t, c, m)
      <3> HIDE DEF h
      <3>1. h = [i \in 1 .. m |-> h[i]]
        BY DEF h
      <3> QED BY <3>1, <2>3 DEF IsWalk
    <2> QED BY <2>4
  <1> QED BY <1>2, <1>3

(* Chain is the last step of such a walk.                                  *)
LEMMA ChainIsWalk ==
  ASSUME NEW v, NEW c, LastCluster \in Nat \ {0}
  PROVE  \E g : IsWalk(g, v.fat, c, LastCluster) /\ Chain(v, c) = g[LastCluster]
  <1>1. IsWalk(CHOOSE g : IsWalk(g, v.fat, c, LastCluster), v.fat, c, LastCluster)
    BY WalkExists
  <1>2. Chain(v, c) = (CHOOSE g : IsWalk(g, v.fat, c, LastCluster))[LastCluster]
    BY Zenon DEF Chain, IsWalk, Step
  <1> QED BY <1>1, <1>2

(* A walk of n steps from c in table t that never leaves the set S.        *)
Follows(t, S, c, n, w) ==
  /\ w \in Seq(S) /\ Len(w) \in 1 .. n /\ w[1] = c
  /\ \A i \in 1 .. Len(w) - 1 : w[i + 1] = t[w[i]]
  /\ Len(w) < n => t[w[Len(w)]] \in {0, EOF}

Stays(t, S) == \A x \in S : t[x] \in S \union {0, EOF}

(* One more step of a walk.                                                *)
LEMMA StepFollows ==
  ASSUME NEW t, NEW S, NEW c, NEW n \in Nat \ {0}, NEW w, Follows(t, S, c, n, w), Stays(t, S)
  PROVE  Follows(t, S, c, n + 1, Step(t, w))
  <1> DEFINE e == w[Len(w)]
  <1>1. e \in S /\ Len(w) \in Nat /\ Len(w) >= 1 /\ Len(w) <= n
    BY DEF Follows
  <1>2. CASE t[e] \in {0, EOF}
    BY <1>1, <1>2 DEF Follows, Step
  <1>3. CASE t[e] \notin {0, EOF}
    <2>1. t[e] \in S /\ Len(w) = n
      BY <1>1, <1>3 DEF Follows, Stays
    <2>2. Step(t, w) = Append(w, t[e])
      BY <1>3 DEF Step
    <2> DEFINE v == Append(w, t[e])
    <2>3. v \in Seq(S) /\ Len(v) = n + 1
      BY <2>1 DEF Follows
    <2>4. \A i \in 1 .. n : v[i] = w[i]
      BY <2>1 DEF Follows
    <2>5. v[n + 1] = t[e] /\ e = v[n]
      BY <2>1, <2>4 DEF Follows
    <2>6. \A i \in 1 .. Len(v) - 1 : v[i + 1] = t[v[i]]
      <3> SUFFICES ASSUME NEW i \in 1 .. n PROVE v[i + 1] = t[v[i]]
        BY <2>3
      <3>1. CASE i = n
        BY <3>1, <2>5
      <3>2. CASE i # n
        BY <3>2, <2>4, <2>1 DEF Follows
      <3> QED BY <3>1, <3>2
    <2>7. v[1] = c
      BY <2>4 DEF Follows
    <2> HIDE DEF v
    <2> QED BY <2>2, <2>3, <2>6, <2>7 DEF Follows, v
  <1> QED BY <1>2, <1>3

(* What Chain gives for a set of clusters that the table does not leave.   *)
LEMMA ChainFollows ==
  ASSUME NEW v, NEW S, NEW c \in S, Stays(v.fat, S)
  PROVE  Follows(v.fat, S, c, LastCluster, Chain(v, c))
  <1> DEFINE n == LastCluster
             t == v.fat
  <1>0. n \in Nat \ {0}
    BY PowerCutAssumption
  <1>1. PICK g : IsWalk(g, t, c, n) /\ Chain(v, c) = g[n]
    BY <1>0, ChainIsWalk
  <1> HIDE DEF n, t
  <1> DEFINE Bad == {i \in 1 .. n : ~ Follows(t, S, c, i, g[i])}
  <1> SUFFICES ASSUME Bad # {} PROVE FALSE
    BY <1>0, <1>1 DEF n, t
  <1>2. PICK m \in Bad : \A j \in Bad : m <= j
    BY <1>0, LeastOf, Bad \subseteq Nat
  <1>3. g[m] = IF m = 1 THEN <<c>> ELSE Step(t, g[m - 1])
    BY <1>1 DEF IsWalk
  <1>4. CASE m = 1
    <2>1. Follows(t, S, c, 1, <<c>>)
      BY DEF Follows
    <2> QED BY <1>2, <1>3, <1>4, <2>1
  <1>5. CASE m # 1
    <2>1. m - 1 \in 1 .. n /\ m - 1 \in Nat \ {0} /\ m = (m - 1) + 1
      BY <1>0, <1>5
    <2>2. Follows(t, S, c, m - 1, g[m - 1])
      BY <2>1, <1>2
    <2>3. Follows(t, S, c, (m - 1) + 1, Step(t, g[m - 1]))
      BY <2>1, <2>2, StepFollows DEF t
    <2> QED BY <1>2, <1>3, <1>5, <2>1, <2>3
  <1> QED BY <1>4, <1>5
-----------------------------------------------------------------------------
(* The clusters of sequence w, each of them there once.                    *)
Owned(w) == {w[i] : i \in 1 .. Len(w)}
Distinct(w) == \A i, j \in 1 .. Len(w) : w[i] = w[j] => i = j

(* Table t has w as a chain whose first n clusters are freed; end is the   *)
(* entry of the last one.                                                  *)
Chained(t, w, n, end) ==
  /\ \A i \in 1 .. Len(w) : i <= n => t[w[i]] = 0
  /\ \A i \in 1 .. Len(w) - 1 : i > n => t[w[i]] = w[i + 1]
  /\ Len(w) > n => t[w[Len(w)]] = end

(* ch are the chains of all files, n the clusters that were freed of the   *)
(* one that is being deleted.                                              *)
ChainsOK(ch) ==
  /\ ch \in [File -> Seq(Cluster)]
  /\ \A f \in File : Distinct(ch[f])
  /\ \A f, g \in File : f # g => Owned(ch[f]) \intersect Owned(ch[g]) = {}

Working(f) == task.op \in {"delete", "flush"} /\ task.file = f
Freed(f, n) == IF Working(f) THEN n ELSE 0
End(f) == IF task.op = "append" /\ task.file = f THEN 0 ELSE EOF

CachedOK(ch, n) ==
  \A f \in File :
    /\ Exists(cached, f) => Len(ch[f]) > 0 /\ ch[f][1] = cached.dirent[f].start
    /\ ~ Exists(cached, f) /\ ~ Working(f) => Len(ch[f]) = 0
    /\ Exists(cached, f) => cached.dirent[f].size <= Len(ch[f])
    /\ Chained(cached.fat, ch[f], Freed(f, n), End(f))

HandlesOK(ch) ==
  \A f \in File : handle[f].open =>
    /\ Exists(cached, f) /\ handle[f].size <= Len(ch[f])
    /\ handle[f].changed => kept[f] = Nothing
    /\ ~ handle[f].changed => handle[f].size = cached.dirent[f].size

TaskOK(ch, n) ==
  /\ n \in Nat
  /\ task.op = "append" =>
       /\ handle[task.file].open /\ kept[task.file] = Nothing
       /\ handle[task.file].size + 1 <= Len(ch[task.file]) /\ handle[task.file].size + 1 <= MaxSize
       /\ ch[task.file][Len(ch[task.file])] = task.cluster
  /\ task.op \in {"delete", "flush"} => ~ handle[task.file].open
  /\ task.op = "delete" =>
       /\ kept[task.file] = Nothing
       /\ n < Len(ch[task.file]) /\ task.cluster = ch[task.file][n + 1]
       /\ cached.dirent[task.file].start = task.start
       /\ task.start # 0 => truncated
  /\ task.op = "flush" =>
       /\ task.held = Content(cached, task.file)
       /\ Exists(cached, task.file) => n = 0

(* A file that was closed: the medium and the cache have the same of it.   *)
KeptOK(ch) ==
  \A f \in File : kept[f] # Nothing =>
    /\ medium.dirent[f] = cached.dirent[f]
    /\ \A c \in Owned(ch[f]) : medium.fat[c] = cached.fat[c] /\ medium.data[c] = cached.data[c]
    /\ Content(medium, f) = kept[f]

(* Nothing on the medium leads from the clusters of a file to others, and  *)
(* what is of no file is there as it is in the cache.                      *)
MediumOK(ch) ==
  ~ truncated =>
    /\ \A f \in File : /\ medium.dirent[f].start \in Owned(ch[f]) \union {0}
                       /\ \A c \in Owned(ch[f]) : medium.fat[c] \in Owned(ch[f]) \union {0, EOF}
    /\ \A c \in Cluster : (\A f \in File : c \notin Owned(ch[f])) => medium.fat[c] = cached.fat[c]

Good(ch, n) ==
  ChainsOK(ch) /\ CachedOK(ch, n) /\ HandlesOK(ch) /\ TaskOK(ch, n) /\ KeptOK(ch) /\ MediumOK(ch)

Inv == TypeOK /\ (sound => \E ch, n : Good(ch, n))
-----------------------------------------------------------------------------
LEMMA ClusterIs ==
  /\ Cluster \subseteq Nat /\ 0 \notin Cluster /\ EOF \notin Cluster /\ EOF # 0
  /\ {0} \union 2 .. EOF = Cluster \union {0, EOF}
  /\ \A x : x \in Cluster => x # 0 /\ x # EOF
  BY PowerCutAssumption DEF Cluster, EOF

(* A sequence without repetitions is not longer than there are clusters:   *)
(* the pigeonhole principle.                                               *)
LEMMA DistinctIsShort ==
  ASSUME NEW w \in Seq(Cluster), Distinct(w)
  PROVE  Len(w) \in Nat /\ Len(w) < LastCluster
  <1>1. Len(w) \in Nat /\ \A i \in 1 .. Len(w) : w[i] \in Cluster
    OBVIOUS
  <1>2. ASSUME Len(w) >= LastCluster PROVE FALSE
    <2>1. IsFiniteSet(1 .. Len(w)) /\ IsFiniteSet(Cluster)
          /\ Cardinality(1 .. Len(w)) = Len(w) /\ Cardinality(Cluster) = LastCluster - 1
      <3>1. IsFiniteSet(1 .. Len(w)) /\ Cardinality(1 .. Len(w)) = Len(w)
        <4>1. PICK m \in Nat : m = Len(w) /\ ~ (1 > m) /\ m - 1 + 1 = m
          BY <1>1, <1>2, PowerCutAssumption
        <4>2. /\ 1 \in Int /\ m \in Int
              /\ IsFiniteSet(1 .. m) /\ Cardinality(1 .. m) = IF 1 > m THEN 0 ELSE m - 1 + 1
          BY FS_Interval
        <4> QED BY <4>1, <4>2
      <3>2. IsFiniteSet(Cluster) /\ Cardinality(Cluster) = LastCluster - 1
        BY FS_Interval, PowerCutAssumption DEF Cluster
      <3> QED BY <3>1, <3>2
    <2> DEFINE g == [i \in 1 .. Len(w) |-> w[i]]
    <2>2. g \in [1 .. Len(w) -> Cluster] /\ \A i \in 1 .. Len(w) : g[i] = w[i]
      BY <1>1
    <2>3. Cardinality(Cluster) < Cardinality(1 .. Len(w))
      BY <2>1, <1>1, <1>2, PowerCutAssumption
    <2> HIDE DEF g
    <2>4. \E x, y \in 1 .. Len(w) : x # y /\ g[x] = g[y]
      BY ONLY <2>1, <2>2, <2>3, FS_PigeonHole
    <2> QED BY <2>2, <2>4 DEF Distinct
  <1> QED BY <1>1, <1>2, PowerCutAssumption

(* A chain of the table is what Chain finds.                               *)
LEMMA ChainIs ==
  ASSUME NEW v, NEW w \in Seq(Cluster), Len(w) > 0, Distinct(w), NEW end \in {0, EOF},
         Chained(v.fat, w, 0, end)
  PROVE  Chain(v, w[1]) = w
  <1> DEFINE t == v.fat
             S == Owned(w)
             u == Chain(v, w[1])
             L == Len(w)
             M == Len(u)
  <1>1. /\ L \in Nat /\ L >= 1 /\ L < LastCluster /\ t[w[L]] \in {0, EOF}
        /\ \A i \in 1 .. L : w[i] \in Cluster
        /\ \A i \in 1 .. L - 1 : t[w[i]] = w[i + 1] /\ w[i + 1] \in Cluster
    <2>1. L \in Nat /\ L >= 1 /\ L < LastCluster /\ \A i \in 1 .. L : w[i] \in Cluster
      BY DistinctIsShort
    <2>2. \A i \in 1 .. L - 1 : i > 0 /\ i + 1 \in 1 .. L
      BY <2>1
    <2> QED BY <2>1, <2>2 DEF Chained
  <1>2. Stays(t, S) /\ w[1] \in S
    <2>1. ASSUME NEW i \in 1 .. L PROVE t[w[i]] \in S \union {0, EOF}
      <3>1. i = L \/ (i \in 1 .. L - 1 /\ i + 1 \in 1 .. L)
        BY <1>1
      <3> QED BY <3>1, <1>1 DEF Owned
    <2>2. 1 \in 1 .. L
      BY <1>1
    <2> QED BY <2>1, <2>2 DEF Stays, Owned
  <1>3. Follows(t, S, w[1], LastCluster, u)
    BY <1>2, ChainFollows
  <1> HIDE DEF u, t
  <1>4. /\ M \in Nat /\ M >= 1 /\ M <= LastCluster /\ u[1] = w[1] /\ u \in Seq(S)
        /\ \A i \in 1 .. M : u[i] \in Cluster
        /\ \A i \in 1 .. M - 1 : u[i + 1] = t[u[i]]
        /\ M < LastCluster => t[u[M]] \in {0, EOF}
    <2>1. M \in 1 .. LastCluster /\ u \in Seq(S)
      BY <1>3 DEF Follows
    <2>2. M \in Nat /\ M >= 1 /\ M <= LastCluster
      BY <2>1, PowerCutAssumption
    <2>3. \A i \in 1 .. M : u[i] \in Cluster
      BY <2>1, <1>1 DEF Owned
    <2> QED BY <2>1, <2>2, <2>3, <1>3 DEF Follows
  <1> HIDE DEF S
  <1>5. \A i \in 1 .. M : i <= L => u[i] = w[i]
    <2> DEFINE Bad == {i \in 1 .. M : i <= L /\ u[i] # w[i]}
    <2> SUFFICES ASSUME Bad # {} PROVE FALSE
      OBVIOUS
    <2>1. PICK m \in Bad : \A j \in Bad : m <= j
      BY <1>4, LeastOf, Bad \subseteq Nat
    <2>2. m # 1
      BY <1>4
    <2>3. m - 1 \in 1 .. M - 1 /\ m - 1 \in 1 .. L - 1 /\ m - 1 \in 1 .. M /\ m = (m - 1) + 1
      BY <2>2, <1>1, <1>4
    <2>4. u[m - 1] = w[m - 1]
      BY <2>1, <2>3, <1>1
    <2>5. u[m] = t[u[m - 1]] /\ w[m] = t[w[m - 1]]
      BY <2>3, <1>1, <1>4
    <2> QED BY <2>1, <2>4, <2>5
  <1>6. ~ M > L
    <2> SUFFICES ASSUME M > L PROVE FALSE
      OBVIOUS
    <2>1. L \in 1 .. M - 1 /\ L \in 1 .. M /\ L + 1 \in 1 .. M
      BY <1>1, <1>4
    <2>2. u[L + 1] = t[u[L]] /\ u[L] = w[L] /\ u[L + 1] \in Cluster
      BY <2>1, <1>1, <1>4, <1>5
    <2> QED BY <2>2, <1>1, ClusterIs
  <1>7. ~ M < L
    <2> SUFFICES ASSUME M < L PROVE FALSE
      OBVIOUS
    <2>1. M \in 1 .. L - 1 /\ M \in 1 .. M /\ M < LastCluster /\ M <= L
      BY <1>1, <1>4, PowerCutAssumption
    <2>2. t[u[M]] = w[M + 1] /\ w[M + 1] \in Cluster /\ t[u[M]] \in {0, EOF}
      BY <2>1, <1>1, <1>4, <1>5
    <2> QED BY <2>2, ClusterIs
  <1>8. M = L
    BY <1>1, <1>4, <1>6, <1>7
  <1>9. u = w
    <2>1. u \in Seq(Cluster)
      BY <1>4, <1>1 DEF S, Owned
    <2>2. \A i \in 1 .. L : u[i] = w[i]
      BY <1>1, <1>5, <1>8
    <2> QED BY <2>1, <2>2, <1>8, SeqEqual
  <1> QED BY <1>9 DEF u

(* A walk over a whole table that meets the end is a chain.                *)
LEMMA WalkIsChain ==
  ASSUME NEW v, v.fat \in [Cluster -> {0} \union 2 .. EOF], NEW c \in Cluster,
         NEW w, w = Chain(v, c), v.fat[w[Len(w)]] = EOF
  PROVE  w \in Seq(Cluster) /\ Len(w) > 0 /\ w[1] = c /\ Distinct(w) /\ Chained(v.fat, w, 0, EOF)
  <1> DEFINE t == v.fat
             L == Len(w)
  <1>1. Stays(t, Cluster)
    BY ClusterIs DEF Stays
  <1>2. Follows(t, Cluster, c, LastCluster, w)
    BY <1>1, ChainFollows
  <1> HIDE DEF t
  <1>3. /\ w \in Seq(Cluster) /\ L \in Nat /\ L >= 1 /\ w[1] = c /\ t[w[L]] = EOF
        /\ \A i \in 1 .. L - 1 : t[w[i]] = w[i + 1] /\ w[i + 1] \in Cluster
    <2>1. w \in Seq(Cluster) /\ L \in Nat /\ L >= 1 /\ w[1] = c /\ t[w[L]] = EOF
      BY <1>2, PowerCutAssumption DEF Follows, t
    <2>2. \A i \in 1 .. L - 1 : i + 1 \in 1 .. L
      BY <2>1
    <2> QED BY <1>2, <2>1, <2>2 DEF Follows
  <1>4. Distinct(w)
    <2> DEFINE Bad == {k \in 0 .. L - 1 : \E i \in 1 .. L : i < L - k /\ w[i] = w[L - k]}
    <2>1. ASSUME Bad # {} PROVE FALSE
      <3>1. PICK m \in Bad : \A j \in Bad : m <= j
        BY <2>1, LeastOf, Bad \subseteq Nat
      <3>0. m \in Nat
        BY <1>3
      <3>2. PICK i \in 1 .. L : i < L - m /\ w[i] = w[L - m]
        OBVIOUS
      <3>3. i \in 1 .. L - 1 /\ i + 1 \in 1 .. L /\ t[w[i]] \in Cluster /\ t[w[i]] = w[i + 1]
        BY <3>2, <1>3
      <3>4. m # 0
        BY <3>2, <3>3, <1>3, ClusterIs
      <3>5. L - m \in 1 .. L - 1 /\ m - 1 \in 0 .. L - 1 /\ (L - m) + 1 = L - (m - 1)
            /\ i + 1 < L - (m - 1)
        BY <3>2, <3>4, <1>3
      <3>6. t[w[L - m]] = w[(L - m) + 1]
        BY <3>5, <1>3
      <3>7. m - 1 \in Bad
        BY <3>2, <3>3, <3>5, <3>6
      <3>8. m <= m - 1
        BY <3>1, <3>7
      <3> QED BY <3>0, <3>8
    <2>2. ASSUME NEW i \in 1 .. L, NEW j \in 1 .. L, w[i] = w[j], i < j PROVE FALSE
      <3>1. L - j \in 0 .. L - 1 /\ L - (L - j) = j
        BY <1>3
      <3>2. L - j \in Bad
        BY <3>1, <2>2
      <3> QED BY <3>2, <2>1
    <2> HIDE DEF Bad
    <2>3. ASSUME NEW i \in 1 .. L, NEW j \in 1 .. L, w[i] = w[j] PROVE i = j
      <3>1. i < j \/ j < i \/ i = j
        BY <1>3
      <3> QED BY <3>1, <2>2, <2>3
    <2> QED BY <2>3 DEF Distinct
  <1>5. Chained(t, w, 0, EOF)
    BY <1>3 DEF Chained
  <1> QED BY <1>3, <1>4, <1>5 DEF t

(* Where it stays.                                                         *)
LEMMA WalkStays ==
  ASSUME NEW v, NEW S, NEW c \in S, Stays(v.fat, S)
  PROVE  LET w == Chain(v, c) IN \A i \in DOMAIN w : w[i] \in S
  <1>1. Follows(v.fat, S, c, LastCluster, Chain(v, c))
    BY ChainFollows
  <1> QED BY <1>1 DEF Follows
-----------------------------------------------------------------------------
(* The table does not lead from a chain to clusters of others.             *)
LEMMA ChainedStays ==
  ASSUME NEW t, NEW w \in Seq(Cluster), NEW n \in Nat, NEW end \in {0, EOF}, Chained(t, w, n, end)
  PROVE  /\ \A c \in Owned(w) : t[c] \in Owned(w) \union {0, EOF}
         /\ n = 0 /\ end = EOF => \A c \in Owned(w) : t[c] # 0
  <1>1. Len(w) \in Nat /\ \A i \in 1 .. Len(w) : w[i] \in Cluster
    OBVIOUS
  <1>2. ASSUME NEW i \in 1 .. Len(w)
        PROVE  t[w[i]] \in Owned(w) \union {0, EOF} /\ (n = 0 /\ end = EOF => t[w[i]] # 0)
    <2>1. CASE i <= n
      BY <2>1, <1>1 DEF Chained
    <2>2. CASE i > n /\ i = Len(w)
      BY <2>2, <1>1, ClusterIs DEF Chained
    <2>3. CASE i > n /\ i # Len(w)
      <3>1. i \in 1 .. Len(w) - 1 /\ i + 1 \in 1 .. Len(w)
        BY <2>3, <1>1
      <3>2. t[w[i]] = w[i + 1]
        BY <2>3, <3>1 DEF Chained
      <3> QED BY <3>1, <3>2, <1>1, ClusterIs DEF Owned
    <2> QED BY <2>1, <2>2, <2>3, <1>1
  <1> QED BY <1>2 DEF Owned

(* Only the entries of its clusters make a chain.                          *)
LEMMA ChainedSame ==
  ASSUME NEW t, NEW u, NEW w \in Seq(Cluster), NEW n \in Nat, NEW end, Chained(t, w, n, end),
         \A c \in Owned(w) : u[c] = t[c]
  PROVE  Chained(u, w, n, end)
  <1>1. Len(w) \in Nat /\ \A i \in 1 .. Len(w) : u[w[i]] = t[w[i]]
    BY DEF Owned
  <1>2. \A i \in 1 .. Len(w) - 1 : i \in 1 .. Len(w)
    BY <1>1
  <1>3. Len(w) > n => Len(w) \in 1 .. Len(w)
    BY <1>1
  <1> QED BY <1>1, <1>2, <1>3 DEF Chained

(* File f of volume v has the chain w.                                     *)
Has(v, f, w, end) ==
  /\ w \in Seq(Cluster) /\ Distinct(w) /\ Len(w) > 0 /\ w[1] = v.dirent[f].start
  /\ Chained(v.fat, w, 0, end)

LEMMA HasIs ==
  ASSUME NEW v, NEW f, NEW w, NEW end \in {0, EOF}, Has(v, f, w, end)
  PROVE  FileChain(v, f) = w /\ LastOf(v, f) = w[Len(w)] /\ ClustersOf(v, f) = Owned(w)
  <1>1. FileChain(v, f) = w
    BY ChainIs DEF Has, FileChain
  <1>2. DOMAIN w = 1 .. Len(w)
    BY DEF Has
  <1> QED BY <1>1, <1>2 DEF LastOf, ClustersOf, Owned

(* What is in a file depends on its entry and its clusters only.           *)
LEMMA SameContent ==
  ASSUME NEW u, NEW v, NEW f, NEW w, NEW end \in {0, EOF}, Exists(v, f) => Has(v, f, w, end),
         u.dirent[f] = v.dirent[f], v.dirent[f].size \in Nat,
         \A c \in Owned(w) : u.fat[c] = v.fat[c] /\ u.data[c] = v.data[c]
  PROVE  Content(u, f) = Content(v, f)
  <1>1. CASE ~ Exists(v, f)
    BY <1>1 DEF Content, Exists
  <1>2. CASE Exists(v, f)
    <2>1. /\ w \in Seq(Cluster) /\ Len(w) \in Nat /\ Len(w) > 0
          /\ \A i \in 1 .. Len(w) : w[i] \in Owned(w)
      BY <1>2 DEF Has, Owned
    <2>2. Has(v, f, w, end)
      BY <1>2
    <2>3. Chained(u.fat, w, 0, end)
      <3>1. Chained(v.fat, w, 0, end)
        BY <2>2 DEF Has
      <3> QED BY <2>1, <3>1, ChainedSame
    <2>4. Has(u, f, w, end)
      BY <2>2, <2>3 DEF Has
    <2>5. FileChain(u, f) = w /\ FileChain(v, f) = w
      BY <2>2, <2>4, HasIs
    <2>6. \A i \in 1 .. Len(w) : u.data[w[i]] = v.data[w[i]]
      BY <2>1
    <2>7. ASSUME NEW k \in Nat PROVE Filled(u, f, k) = Filled(v, f, k)
      <3> DEFINE m == IF k < Len(w) THEN k ELSE Len(w)
      <3>1. [i \in 1 .. m |-> u.data[w[i]]] = [i \in 1 .. m |-> v.data[w[i]]]
        <4>1. \A i \in 1 .. m : u.data[w[i]] = v.data[w[i]]
          <5>1. 1 .. m \subseteq 1 .. Len(w)
            BY <2>1
          <5> QED BY <5>1, <2>6
        <4> QED BY <4>1
      <3> QED BY <3>1, <2>5 DEF Filled
    <2> QED BY <2>7, <1>2 DEF Content, Exists
  <1> QED BY <1>1, <1>2

(* What a file holds is a sequence of what its clusters hold.              *)
LEMMA FilledIsHeld ==
  ASSUME NEW v, v.data \in [Cluster -> File \union {Junk}], NEW f, NEW w, NEW end \in {0, EOF},
         Has(v, f, w, end), NEW k \in Nat
  PROVE  Filled(v, f, k) \in Held
  <1> DEFINE m == IF k < Len(w) THEN k ELSE Len(w)
             s == [i \in 1 .. m |-> v.data[w[i]]]
  <1>1. FileChain(v, f) = w
    BY HasIs
  <1>2. w \in Seq(Cluster) /\ Len(w) \in Nat
    BY DEF Has
  <1>3. m \in Nat /\ 1 .. m \subseteq 1 .. Len(w)
    BY <1>2
  <1>4. \A i \in 1 .. m : v.data[w[i]] \in File \union {Junk}
    BY <1>2, <1>3
  <1>5. s \in Seq(File \union {Junk})
    BY <1>3, <1>4
  <1>6. Filled(v, f, k) = [known |-> TRUE, there |-> TRUE, content |-> s]
    BY <1>1 DEF Filled
  <1> HIDE DEF s
  <1> QED BY <1>5, <1>6 DEF Held
-----------------------------------------------------------------------------
(* The chains of the files while nothing is being deleted.                 *)
LEMMA Owns ==
  ASSUME TypeOK, NEW ch, NEW n, Good(ch, n), task.op # "delete"
  PROVE  /\ \A f \in File : Exists(cached, f) => Has(cached, f, ch[f], End(f))
         /\ task.op # "append" =>
              \A f \in File : Exists(cached, f) => Has(cached, f, ch[f], EOF)
  <1>1. ASSUME NEW f \in File, Exists(cached, f) PROVE Has(cached, f, ch[f], End(f))
    <2>1. Freed(f, n) = 0
      BY <1>1 DEF Freed, Working, Good, TaskOK
    <2>2. ch[f] \in Seq(Cluster) /\ Distinct(ch[f])
      BY DEF Good, ChainsOK
    <2>3. Len(ch[f]) > 0 /\ ch[f][1] = cached.dirent[f].start /\ Chained(cached.fat, ch[f], 0, End(f))
      BY <1>1, <2>1 DEF Good, CachedOK
    <2> QED BY <2>2, <2>3 DEF Has
  <1> QED BY <1>1 DEF End

LEMMA IdleOK ==
  ASSUME TypeOK, NEW ch, NEW n, Good(ch, n), task = Idle, NEW f \in File
  PROVE  /\ ch[f] \in Seq(Cluster) /\ Distinct(ch[f]) /\ Chained(cached.fat, ch[f], 0, EOF)
         /\ Len(ch[f]) \in Nat
         /\ Exists(cached, f) => Len(ch[f]) > 0 /\ ch[f][1] = cached.dirent[f].start
         /\ ~ Exists(cached, f) => Len(ch[f]) = 0
         /\ Exists(cached, f) => cached.dirent[f].size <= Len(ch[f])
         /\ Owned(ch[f]) \subseteq Cluster
         /\ \A c \in Owned(ch[f]) : cached.fat[c] \in Owned(ch[f]) \union {EOF} /\ cached.fat[c] # 0
  <1>1. task.op = "none" /\ ~ Working(f) /\ Freed(f, n) = 0 /\ End(f) = EOF
    BY DEF Idle, Working, Freed, End
  <1>2. ch[f] \in Seq(Cluster) /\ Distinct(ch[f])
    BY DEF Good, ChainsOK
  <1>3. Chained(cached.fat, ch[f], 0, EOF)
    BY <1>1 DEF Good, CachedOK
  <1>4. /\ Exists(cached, f) => Len(ch[f]) > 0 /\ ch[f][1] = cached.dirent[f].start
        /\ ~ Exists(cached, f) => Len(ch[f]) = 0
        /\ Exists(cached, f) => cached.dirent[f].size <= Len(ch[f])
    BY <1>1 DEF Good, CachedOK
  <1>5. \A c \in Owned(ch[f]) : cached.fat[c] \in Owned(ch[f]) \union {0, EOF} /\ cached.fat[c] # 0
    BY <1>2, <1>3, ChainedStays
  <1>6. Owned(ch[f]) \subseteq Cluster /\ Len(ch[f]) \in Nat
    BY <1>2 DEF Owned
  <1> QED BY <1>2, <1>3, <1>4, <1>5, <1>6

(* A free cluster is of no file.                                           *)
LEMMA FreeIsUnowned ==
  ASSUME TypeOK, NEW ch, NEW n, Good(ch, n), task = Idle, NEW c \in Free(cached)
  PROVE  c \in Cluster /\ \A f \in File : c \notin Owned(ch[f])
  BY IdleOK DEF Free
-----------------------------------------------------------------------------
LEMMA OpenOK ==
  ASSUME TypeOK, NEW ch, NEW n, Good(ch, n), NEW f \in File, Open(f)
  PROVE  TypeOK' /\ Good(ch, n)'
  <1>1. TypeOK'
    BY DEF TypeOK, Open, Volume
  <1>2. /\ cached' = cached /\ medium' = medium /\ task' = Idle /\ task = Idle /\ kept' = kept
        /\ truncated' = truncated /\ Exists(cached, f)
        /\ handle' = [handle EXCEPT ![f] = [open |-> TRUE, size |-> cached.dirent[f].size, changed |-> FALSE]]
    BY DEF Open
  <1>3. CachedOK(ch, n)' /\ KeptOK(ch)' /\ MediumOK(ch)'
    BY <1>2 DEF Good, CachedOK, KeptOK, MediumOK, Freed, Working, End
  <1>4. HandlesOK(ch)'
    <2>1. ASSUME NEW g \in File
          PROVE  handle'[g] = IF g = f THEN [open |-> TRUE, size |-> cached.dirent[f].size, changed |-> FALSE]
                              ELSE handle[g]
      BY <1>2 DEF TypeOK
    <2>2. cached.dirent[f].size <= Len(ch[f])
      BY <1>2 DEF Good, CachedOK
    <2>3. HandlesOK(ch)
      BY DEF Good
    <2> QED BY <1>2, <2>1, <2>2, <2>3 DEF HandlesOK
  <1>5. TaskOK(ch, n)'
    <2>1. n \in Nat
      BY DEF Good, TaskOK
    <2> QED BY <1>2, <2>1 DEF TaskOK, Idle
  <1> QED BY <1>1, <1>3, <1>4, <1>5 DEF Good, ChainsOK

LEMMA CreateOK ==
  ASSUME TypeOK, NEW ch, NEW n, Good(ch, n), NEW f \in File, Create(f)
  PROVE  TypeOK' /\ \E d : Good(d, n)'
  <1>1. PICK c \in Free(cached) :
          cached' = [cached EXCEPT !.fat[c] = EOF, !.dirent[f] = [start |-> c, size |-> 0]]
    BY DEF Create
  <1>2. /\ medium' = medium /\ task' = Idle /\ task = Idle /\ ~ Exists(cached, f)
        /\ truncated' = truncated /\ sound' = sound
        /\ handle' = [handle EXCEPT ![f] = [open |-> TRUE, size |-> 0, changed |-> FALSE]]
        /\ kept' = [kept EXCEPT ![f] = Nothing]
    BY DEF Create
  <1>3. c \in Cluster /\ \A g \in File : c \notin Owned(ch[g])
    BY <1>2, FreeIsUnowned
  <1>4. /\ cached' \in Volume /\ cached'.data = cached.data
        /\ cached'.fat = [cached.fat EXCEPT ![c] = EOF]
        /\ cached'.dirent = [cached.dirent EXCEPT ![f] = [start |-> c, size |-> 0]]
    <2>1. cached \in Volume
      BY DEF TypeOK
    <2>2. /\ cached'.data = cached.data
          /\ cached'.fat = [cached.fat EXCEPT ![c] = EOF]
          /\ cached'.dirent = [cached.dirent EXCEPT ![f] = [start |-> c, size |-> 0]]
          /\ cached' = [dirent |-> cached'.dirent, fat |-> cached'.fat, data |-> cached'.data]
      BY <1>1, <2>1 DEF Volume
    <2>3. EOF \in {0} \union 2 .. EOF /\ 0 \in 0 .. MaxSize
      BY PowerCutAssumption DEF EOF
    <2>4. cached'.fat \in [Cluster -> {0} \union 2 .. EOF]
      BY <2>1, <2>2, <2>3 DEF Volume
    <2>5. cached'.dirent \in [File -> [start : Cluster \union {0}, size : 0 .. MaxSize]]
      BY <2>1, <2>2, <2>3, <1>3 DEF Volume
    <2> QED BY <2>1, <2>2, <2>4, <2>5 DEF Volume
  <1>5. TypeOK'
    <2>1. 0 \in 0 .. MaxSize
      BY PowerCutAssumption
    <2>2. handle' \in [File -> {Closed} \union [open : {TRUE}, size : 0 .. MaxSize, changed : BOOLEAN]]
      BY <1>2, <2>1 DEF TypeOK
    <2>3. kept' \in [File -> {Nothing} \union Held]
      BY <1>2 DEF TypeOK
    <2> QED BY <1>2, <1>4, <2>2, <2>3 DEF TypeOK
  <1>6. PICK d : d = [ch EXCEPT ![f] = <<c>>]
    OBVIOUS
  <1>7. ch \in [File -> Seq(Cluster)] /\ d \in [File -> Seq(Cluster)]
    BY <1>3, <1>6 DEF Good, ChainsOK
  <1>8. /\ d[f] = <<c>> /\ Len(d[f]) = 1 /\ d[f][1] = c /\ Owned(d[f]) = {c}
        /\ \A g \in File : g # f => d[g] = ch[g]
    BY <1>6, <1>7 DEF Owned
  <1>9. ChainsOK(d)
    <2>1. \A g \in File : Distinct(d[g])
      BY <1>8 DEF Good, ChainsOK, Distinct
    <2>2. \A g, h \in File : g # h => Owned(d[g]) \intersect Owned(d[h]) = {}
      <3>1. \A g, h \in File : g # h => Owned(ch[g]) \intersect Owned(ch[h]) = {}
        BY DEF Good, ChainsOK
      <3>2. \A g \in File : Owned(d[g]) = IF g = f THEN {c} ELSE Owned(ch[g])
        BY <1>8
      <3> QED BY <1>3, <3>1, <3>2
    <2> QED BY <1>7, <2>1, <2>2 DEF ChainsOK
  <1>10. \A g \in File : g # f =>
           /\ cached'.dirent[g] = cached.dirent[g]
           /\ \A x \in Owned(ch[g]) : cached'.fat[x] = cached.fat[x] /\ cached'.data[x] = cached.data[x]
    <2> SUFFICES ASSUME NEW g \in File, g # f
                 PROVE  /\ cached'.dirent[g] = cached.dirent[g]
                        /\ \A x \in Owned(ch[g]) : cached'.fat[x] = cached.fat[x]
      BY <1>4
    <2>1. cached.fat \in [Cluster -> {0} \union 2 .. EOF] /\ DOMAIN cached.dirent = File
      BY DEF TypeOK, Volume
    <2>2. Owned(ch[g]) \subseteq Cluster
      BY <1>2, IdleOK
    <2> QED BY <1>3, <1>4, <2>1, <2>2
  <1>11. cached'.dirent[f] = [start |-> c, size |-> 0] /\ cached'.fat[c] = EOF
    BY <1>3, <1>4 DEF TypeOK, Volume
  <1>12. CachedOK(d, n)'
    <2> SUFFICES ASSUME NEW g \in File
                 PROVE  /\ Exists(cached', g) => Len(d[g]) > 0 /\ d[g][1] = cached'.dirent[g].start
                        /\ ~ Exists(cached', g) => Len(d[g]) = 0
                        /\ Exists(cached', g) => cached'.dirent[g].size <= Len(d[g])
                        /\ Chained(cached'.fat, d[g], 0, EOF)
      BY <1>2 DEF CachedOK, Freed, Working, End, Idle
    <2>1. CASE g = f
      BY <2>1, <1>8, <1>11, <1>3, ClusterIs DEF Exists, Chained
    <2>2. CASE g # f
      <3>1. d[g] = ch[g] /\ cached'.dirent[g] = cached.dirent[g]
        BY <2>2, <1>8, <1>10
      <3>2. Chained(cached'.fat, d[g], 0, EOF)
        <4>1. ch[g] \in Seq(Cluster) /\ Chained(cached.fat, ch[g], 0, EOF)
          BY <1>2, IdleOK
        <4>2. \A x \in Owned(ch[g]) : cached'.fat[x] = cached.fat[x]
          BY <2>2, <1>10
        <4> QED BY <3>1, <4>1, <4>2, ChainedSame
      <3> QED BY <1>2, <3>1, <3>2, IdleOK DEF Exists
    <2> QED BY <2>1, <2>2
  <1>13. HandlesOK(d)'
    <2>1. ASSUME NEW g \in File
          PROVE  handle'[g] = IF g = f THEN [open |-> TRUE, size |-> 0, changed |-> FALSE] ELSE handle[g]
      BY <1>2 DEF TypeOK
    <2>2. HandlesOK(ch)
      BY DEF Good
    <2> QED BY <1>2, <1>3, <1>8, <1>10, <1>11, <2>1, <2>2, ClusterIs DEF HandlesOK, Exists, TypeOK
  <1>14. TaskOK(d, n)'
    BY <1>2 DEF Good, TaskOK, Idle
  <1>15. KeptOK(d)'
    <2>1. \A g \in File : kept'[g] = IF g = f THEN Nothing ELSE kept[g]
      BY <1>2 DEF TypeOK
    <2> QED BY <1>2, <1>8, <1>10, <2>1 DEF Good, KeptOK
  <1>16. MediumOK(d)'
    <2> SUFFICES ASSUME ~ truncated
                 PROVE  /\ \A g \in File : /\ medium.dirent[g].start \in Owned(d[g]) \union {0}
                                           /\ \A x \in Owned(d[g]) : medium.fat[x] \in Owned(d[g]) \union {0, EOF}
                        /\ \A x \in Cluster : (\A g \in File : x \notin Owned(d[g]))
                                                => medium.fat[x] = cached'.fat[x]
      BY <1>2 DEF MediumOK
    <2>1. /\ \A g \in File : /\ medium.dirent[g].start \in Owned(ch[g]) \union {0}
                             /\ \A x \in Owned(ch[g]) : medium.fat[x] \in Owned(ch[g]) \union {0, EOF}
          /\ \A x \in Cluster : (\A g \in File : x \notin Owned(ch[g])) => medium.fat[x] = cached.fat[x]
      BY DEF Good, MediumOK
    <2>2. Owned(ch[f]) = {}
      BY <1>2, IdleOK DEF Owned
    <2>3. medium.fat[c] = 0
      BY <1>3, <2>1 DEF Free
    <2>4. \A x \in Cluster : x # c => cached'.fat[x] = cached.fat[x]
      BY <1>4 DEF TypeOK, Volume
    <2> QED BY <1>8, <2>1, <2>2, <2>3, <2>4
  <1> QED BY <1>5, <1>9, <1>12, <1>13, <1>14, <1>15, <1>16 DEF Good

LEMMA TruncateOK ==
  ASSUME TypeOK, NEW ch, NEW n, Good(ch, n), NEW f \in File, Truncate(f)
  PROVE  TypeOK' /\ Good(ch, 0)'
  <1> DEFINE c == cached.dirent[f].start
  <1>1. /\ cached' = cached /\ medium' = medium /\ handle' = handle /\ sound' = sound
        /\ task = Idle /\ task' = [op |-> "delete", file |-> f, cluster |-> c, start |-> c]
        /\ ~ handle[f].open /\ Exists(cached, f)
        /\ kept' = [kept EXCEPT ![f] = Nothing] /\ truncated' = TRUE
    BY DEF Truncate
  <1>2. c \in Cluster /\ c # 0 /\ Len(ch[f]) > 0 /\ ch[f][1] = c
    BY <1>1, IdleOK DEF Exists, TypeOK, Volume
  <1> HIDE DEF c
  <1>3. TypeOK'
    <2>1. kept' \in [File -> {Nothing} \union Held]
      BY <1>1 DEF TypeOK
    <2>2. task' \in [op : {"delete"}, file : File, cluster : Cluster, start : Cluster \union {0}]
      BY <1>1, <1>2
    <2> QED BY <1>1, <2>1, <2>2 DEF TypeOK
  <1>4. \A g \in File : kept'[g] = IF g = f THEN Nothing ELSE kept[g]
    BY <1>1 DEF TypeOK
  <1>5. CachedOK(ch, 0)'
    <2> SUFFICES ASSUME NEW g \in File
                 PROVE  /\ Exists(cached, g) => Len(ch[g]) > 0 /\ ch[g][1] = cached.dirent[g].start
                        /\ ~ Exists(cached, g) => Len(ch[g]) = 0
                        /\ Exists(cached, g) => cached.dirent[g].size <= Len(ch[g])
                        /\ Chained(cached.fat, ch[g], 0, EOF)
      BY <1>1 DEF CachedOK, Freed, End
    <2> QED BY <1>1, IdleOK
  <1>6. HandlesOK(ch)'
    BY <1>1, <1>4 DEF Good, HandlesOK
  <1>7. TaskOK(ch, 0)'
    BY <1>1, <1>2, <1>4 DEF TaskOK, c
  <1>8. KeptOK(ch)'
    BY <1>1, <1>4 DEF Good, KeptOK
  <1>9. MediumOK(ch)'
    BY <1>1 DEF MediumOK
  <1> QED BY <1>3, <1>5, <1>6, <1>7, <1>8, <1>9 DEF Good, ChainsOK

(* Data goes into a cluster of f: nothing else can tell.                   *)
LEMMA WriteOK ==
  ASSUME TypeOK, NEW ch, NEW n, Good(ch, n), NEW f \in File, NEW c \in Owned(ch[f]), task = Idle,
         cached'.fat = cached.fat, cached'.dirent = cached.dirent,
         cached' \in Volume, \A x \in Cluster : x # c => cached'.data[x] = cached.data[x],
         UNCHANGED <<medium, task, truncated>>, kept' = [kept EXCEPT ![f] = Nothing]
  PROVE  /\ kept' \in [File -> {Nothing} \union Held]
         /\ \A g \in File : kept'[g] = IF g = f THEN Nothing ELSE kept[g]
         /\ CachedOK(ch, n)' /\ TaskOK(ch, n)' /\ KeptOK(ch)' /\ MediumOK(ch)'
  <1>1. kept' \in [File -> {Nothing} \union Held]
        /\ \A g \in File : kept'[g] = IF g = f THEN Nothing ELSE kept[g]
    BY DEF TypeOK
  <1>2. CachedOK(ch, n)'
    BY DEF Good, CachedOK, Exists, Freed, End, Working
  <1>3. TaskOK(ch, n)'
    BY DEF Good, TaskOK, Idle
  <1>4. ASSUME NEW g \in File, g # f, NEW x \in Owned(ch[g]) PROVE cached'.data[x] = cached.data[x]
    <2>1. x # c
      BY <1>4 DEF Good, ChainsOK
    <2>2. x \in Cluster
      BY IdleOK
    <2> QED BY <2>1, <2>2
  <1>5. KeptOK(ch)'
    BY <1>1, <1>4 DEF Good, KeptOK
  <1>6. MediumOK(ch)'
    BY DEF Good, MediumOK
  <1> QED BY <1>1, <1>2, <1>3, <1>5, <1>6

LEMMA OpenIs ==
  ASSUME TypeOK, NEW f \in File, handle[f].open
  PROVE  /\ handle[f] \in [open : {TRUE}, size : 0 .. MaxSize, changed : BOOLEAN]
         /\ handle[f].size \in 0 .. MaxSize /\ handle[f].size \in Nat
  <1>1. handle[f] \in {Closed} \union [open : {TRUE}, size : 0 .. MaxSize, changed : BOOLEAN]
    BY DEF TypeOK
  <1>2. handle[f] # Closed
    <2>1. Closed.open = FALSE
      BY DEF Closed
    <2> QED BY <2>1
  <1>3. handle[f] \in [open : {TRUE}, size : 0 .. MaxSize, changed : BOOLEAN]
    BY <1>1, <1>2
  <1>4. handle[f].size \in 0 .. MaxSize
    BY <1>3
  <1>5. handle[f].size \in Nat
    BY <1>4, PowerCutAssumption
  <1> QED BY <1>3, <1>4, <1>5

LEMMA OverwriteOK ==
  ASSUME TypeOK, NEW ch, NEW n, Good(ch, n), NEW f \in File, Overwrite(f)
  PROVE  TypeOK' /\ Good(ch, n)'
  <1>1. PICK i \in 1 .. handle[f].size : cached' = [cached EXCEPT !.data[FileChain(cached, f)[i]] = f]
    BY DEF Overwrite
  <1>2. /\ task = Idle /\ handle[f].open /\ medium' = medium /\ handle' = handle /\ task' = task
        /\ truncated' = truncated /\ sound' = sound /\ kept' = [kept EXCEPT ![f] = Nothing]
    BY DEF Overwrite
  <1>3. Exists(cached, f) /\ handle[f].size <= Len(ch[f])
    BY <1>2 DEF Good, HandlesOK
  <1>4. FileChain(cached, f) = ch[f]
    BY <1>2, <1>3, Owns, HasIs DEF Idle
  <1>5. PICK c : c = ch[f][i]
    OBVIOUS
  <1>6. c \in Owned(ch[f]) /\ c \in Cluster
    <2>1. handle[f].size \in Nat
      BY <1>2, OpenIs
    <2>2. Len(ch[f]) \in Nat /\ i \in 1 .. Len(ch[f])
      BY <1>2, <1>3, <2>1, IdleOK
    <2> QED BY <1>2, <1>5, <2>2, IdleOK DEF Owned
  <1>7. /\ cached'.fat = cached.fat /\ cached'.dirent = cached.dirent /\ cached' \in Volume
        /\ \A x \in Cluster : x # c => cached'.data[x] = cached.data[x]
    BY <1>1, <1>4, <1>5, <1>6 DEF TypeOK, Volume
  <1>8. /\ kept' \in [File -> {Nothing} \union Held]
        /\ \A g \in File : kept'[g] = IF g = f THEN Nothing ELSE kept[g]
        /\ CachedOK(ch, n)' /\ TaskOK(ch, n)' /\ KeptOK(ch)' /\ MediumOK(ch)'
    BY <1>2, <1>6, <1>7, WriteOK
  <1>9. HandlesOK(ch)'
    BY <1>2, <1>7, <1>8 DEF Good, HandlesOK, Exists
  <1>10. TypeOK'
    BY <1>2, <1>7, <1>8 DEF TypeOK
  <1> QED BY <1>8, <1>9, <1>10 DEF Good, ChainsOK

(* The handle of a file that grows.                                        *)
LEMMA GrownIs ==
  ASSUME TypeOK, NEW f \in File, handle[f].open, handle[f].size < MaxSize, handle' = Grown(f)
  PROVE  /\ handle[f].size \in Nat
         /\ handle' \in [File -> {Closed} \union [open : {TRUE}, size : 0 .. MaxSize, changed : BOOLEAN]]
         /\ \A g \in File : g # f => handle'[g] = handle[g]
         /\ handle'[f].open /\ handle'[f].size = handle[f].size + 1 /\ handle'[f].changed = TRUE
  <1> DEFINE R == [open : {TRUE}, size : 0 .. MaxSize, changed : BOOLEAN]
  <1>1. PICK h : h = handle[f]
    OBVIOUS
  <1>2. PICK r : r = [h EXCEPT !.size = h.size + 1, !.changed = TRUE]
    OBVIOUS
  <1>3. h \in R /\ h.size \in Nat
    BY <1>1, OpenIs
  <1>4. h.size + 1 \in 0 .. MaxSize
    BY <1>1, <1>3, PowerCutAssumption
  <1>5. r \in R /\ r.open /\ r.size = h.size + 1 /\ r.changed = TRUE
    BY <1>2, <1>3, <1>4
  <1>6. handle' = [handle EXCEPT ![f] = r]
    BY <1>1, <1>2 DEF Grown, TypeOK
  <1> HIDE DEF R
  <1>7. handle' \in [File -> {Closed} \union R]
    BY <1>5, <1>6 DEF TypeOK, R
  <1>8. /\ handle'[f] = r /\ \A g \in File : g # f => handle'[g] = handle[g]
    BY <1>6 DEF TypeOK
  <1> QED BY <1>1, <1>3, <1>5, <1>7, <1>8 DEF R

LEMMA WriteFirstOK ==
  ASSUME TypeOK, NEW ch, NEW n, Good(ch, n), NEW f \in File, WriteFirst(f)
  PROVE  TypeOK' /\ Good(ch, n)'
  <1>1. PICK c : c = cached.dirent[f].start
    OBVIOUS
  <1>2. /\ task = Idle /\ handle[f].open /\ medium' = medium /\ handle' = Grown(f) /\ task' = task
        /\ handle[f].size = 0 /\ MaxSize > 0 /\ cached' = [cached EXCEPT !.data[c] = f]
        /\ truncated' = truncated /\ sound' = sound /\ kept' = [kept EXCEPT ![f] = Nothing]
    BY <1>1 DEF WriteFirst
  <1>3. Exists(cached, f)
    BY <1>2 DEF Good, HandlesOK
  <1>4. c \in Owned(ch[f]) /\ c \in Cluster /\ Len(ch[f]) \in Nat /\ Len(ch[f]) > 0
    BY <1>1, <1>2, <1>3, IdleOK DEF Owned
  <1>5. /\ cached'.fat = cached.fat /\ cached'.dirent = cached.dirent /\ cached' \in Volume
        /\ \A x \in Cluster : x # c => cached'.data[x] = cached.data[x]
    BY <1>2, <1>4 DEF TypeOK, Volume
  <1>6. /\ kept' \in [File -> {Nothing} \union Held]
        /\ \A g \in File : kept'[g] = IF g = f THEN Nothing ELSE kept[g]
        /\ CachedOK(ch, n)' /\ TaskOK(ch, n)' /\ KeptOK(ch)' /\ MediumOK(ch)'
    BY <1>2, <1>4, <1>5, WriteOK
  <1>7. /\ handle' \in [File -> {Closed} \union [open : {TRUE}, size : 0 .. MaxSize, changed : BOOLEAN]]
        /\ \A g \in File : g # f => handle'[g] = handle[g]
        /\ handle'[f].open /\ handle'[f].size = handle[f].size + 1 /\ handle'[f].changed = TRUE
    BY <1>2, GrownIs
  <1>8. HandlesOK(ch)'
    BY <1>2, <1>3, <1>4, <1>5, <1>6, <1>7 DEF Good, HandlesOK, Exists
  <1>9. TypeOK'
    BY <1>2, <1>5, <1>6, <1>7 DEF TypeOK
  <1> QED BY <1>6, <1>8, <1>9 DEF Good, ChainsOK

LEMMA AppendClusterOK ==
  ASSUME TypeOK, NEW ch, NEW n, Good(ch, n), NEW f \in File, AppendCluster(f)
  PROVE  TypeOK' /\ \E d : Good(d, n)'
  <1>1. PICK c \in Free(cached) :
          /\ cached' = [cached EXCEPT !.fat[LastOf(cached, f)] = c]
          /\ task' = [op |-> "append", file |-> f, cluster |-> c]
    BY DEF AppendCluster
  <1>2. /\ task = Idle /\ handle[f].open /\ handle[f].size \in 1 .. MaxSize - 1
        /\ medium' = medium /\ handle' = handle /\ truncated' = truncated /\ sound' = sound
        /\ kept' = [kept EXCEPT ![f] = Nothing]
    BY DEF AppendCluster
  <1>3. c \in Cluster /\ cached.fat[c] = 0 /\ \A g \in File : c \notin Owned(ch[g])
    BY <1>2, FreeIsUnowned DEF Free
  <1>4. Exists(cached, f) /\ handle[f].size <= Len(ch[f])
    BY <1>2 DEF Good, HandlesOK
  <1>5. PICK w, e : w = ch[f] /\ e = w[Len(w)]
    OBVIOUS
  <1>6. /\ w \in Seq(Cluster) /\ Distinct(w) /\ Len(w) \in Nat /\ Len(w) > 0
        /\ Chained(cached.fat, w, 0, EOF) /\ Owned(w) \subseteq Cluster /\ w[1] = cached.dirent[f].start
        /\ cached.dirent[f].size <= Len(w)
    BY <1>2, <1>4, <1>5, IdleOK
  <1>7. e \in Owned(w) /\ e \in Cluster /\ LastOf(cached, f) = e
    <2>1. e \in Owned(w)
      BY <1>5, <1>6 DEF Owned
    <2>2. LastOf(cached, f) = e
      BY <1>2, <1>4, <1>5, Owns, HasIs DEF Idle
    <2> QED BY <2>1, <2>2, <1>6
  <1>8. /\ cached' \in Volume /\ cached'.data = cached.data /\ cached'.dirent = cached.dirent
        /\ cached'.fat = [cached.fat EXCEPT ![e] = c]
    <2>1. cached \in Volume
      BY DEF TypeOK
    <2>2. /\ cached'.data = cached.data /\ cached'.dirent = cached.dirent
          /\ cached'.fat = [cached.fat EXCEPT ![e] = c]
          /\ cached' = [dirent |-> cached'.dirent, fat |-> cached'.fat, data |-> cached'.data]
      BY <1>1, <1>7, <2>1 DEF Volume
    <2>3. c \in {0} \union 2 .. EOF
      BY <1>3, ClusterIs
    <2>4. cached'.fat \in [Cluster -> {0} \union 2 .. EOF]
      BY <2>1, <2>2, <2>3 DEF Volume
    <2> QED BY <2>1, <2>2, <2>4 DEF Volume
  <1>9. cached'.fat[e] = c /\ \A x \in Cluster : x # e => cached'.fat[x] = cached.fat[x]
    BY <1>7, <1>8 DEF TypeOK, Volume
  <1>10. \A g \in File : kept'[g] = IF g = f THEN Nothing ELSE kept[g]
    BY <1>2 DEF TypeOK
  <1>11. TypeOK'
    <2>1. task' \in [op : {"append"}, file : File, cluster : Cluster]
      BY <1>1, <1>3
    <2>2. kept' \in [File -> {Nothing} \union Held]
      BY <1>2 DEF TypeOK
    <2> QED BY <1>2, <1>8, <2>1, <2>2 DEF TypeOK
  <1>12. PICK u : u = Append(w, c)
    OBVIOUS
  <1>13. /\ u \in Seq(Cluster) /\ Len(u) = Len(w) + 1 /\ u[Len(u)] = c
         /\ \A i \in 1 .. Len(w) : u[i] = w[i]
    BY <1>3, <1>6, <1>12
  <1>14. Owned(u) = Owned(w) \union {c}
    BY <1>6, <1>13 DEF Owned
  <1>15. Distinct(u)
    <2>1. \A i \in 1 .. Len(w) : w[i] # c
      BY <1>3, <1>5 DEF Owned
    <2>2. \A i \in 1 .. Len(u) : i \in 1 .. Len(w) \/ i = Len(u)
      BY <1>6, <1>13
    <2> QED BY <1>6, <1>13, <2>1, <2>2 DEF Distinct
  <1>16. Chained(cached'.fat, u, 0, 0)
    <2>1. \A i \in 1 .. Len(w) - 1 : i \in 1 .. Len(w) /\ i + 1 \in 1 .. Len(w) /\ w[i] # e /\ w[i] \in Cluster
      <3>1. Len(w) \in 1 .. Len(w) /\ \A i \in 1 .. Len(w) - 1 : i \in 1 .. Len(w) /\ i # Len(w) /\ i + 1 \in 1 .. Len(w)
        BY <1>6
      <3> QED BY <1>5, <1>6, <3>1 DEF Distinct, Owned
    <2>2. \A i \in 1 .. Len(w) - 1 : cached'.fat[u[i]] = u[i + 1]
      <3>1. \A i \in 1 .. Len(w) - 1 : cached.fat[w[i]] = w[i + 1]
        BY <1>6 DEF Chained
      <3> QED BY <1>9, <1>13, <2>1, <3>1
    <2>3. cached'.fat[u[Len(w)]] = u[Len(w) + 1]
      BY <1>5, <1>6, <1>9, <1>13
    <2>4. cached'.fat[u[Len(u)]] = 0
      BY <1>3, <1>5, <1>7, <1>9, <1>13
    <2>5. \A i \in 1 .. Len(u) - 1 : i \in 1 .. Len(w) - 1 \/ i = Len(w)
      BY <1>6, <1>13
    <2>6. \A i \in 1 .. Len(u) : ~ (i <= 0)
      BY <1>6, <1>13
    <2> QED BY <2>2, <2>3, <2>4, <2>5, <2>6 DEF Chained
  <1>17. PICK d : d = [ch EXCEPT ![f] = u]
    OBVIOUS
  <1>18. d \in [File -> Seq(Cluster)] /\ d[f] = u /\ \A g \in File : g # f => d[g] = ch[g]
    BY <1>13, <1>17 DEF Good, ChainsOK
  <1>19. ChainsOK(d)
    <2>1. \A g, h \in File : g # h => Owned(d[g]) \intersect Owned(d[h]) = {}
      <3>1. \A g, h \in File : g # h => Owned(ch[g]) \intersect Owned(ch[h]) = {}
        BY DEF Good, ChainsOK
      <3>2. \A g \in File : Owned(d[g]) = Owned(ch[g]) \union (IF g = f THEN {c} ELSE {})
        BY <1>5, <1>14, <1>18
      <3> QED BY <1>3, <3>1, <3>2
    <2>2. \A g \in File : Distinct(d[g])
      BY <1>15, <1>18 DEF Good, ChainsOK
    <2> QED BY <1>18, <2>1, <2>2 DEF ChainsOK
  <1>20. \A g \in File : g # f => \A x \in Owned(ch[g]) : cached'.fat[x] = cached.fat[x]
    <2> SUFFICES ASSUME NEW g \in File, g # f, NEW x \in Owned(ch[g]) PROVE cached'.fat[x] = cached.fat[x]
      OBVIOUS
    <2>1. x # e
      BY <1>5, <1>7 DEF Good, ChainsOK
    <2>2. x \in Cluster
      BY <1>2, IdleOK
    <2> QED BY <1>9, <2>1, <2>2
  <1>21. CachedOK(d, n)'
    <2> SUFFICES ASSUME NEW g \in File
                 PROVE  /\ Exists(cached', g) => Len(d[g]) > 0 /\ d[g][1] = cached'.dirent[g].start
                        /\ ~ Exists(cached', g) => Len(d[g]) = 0
                        /\ Exists(cached', g) => cached'.dirent[g].size <= Len(d[g])
                        /\ Chained(cached'.fat, d[g], 0, IF g = f THEN 0 ELSE EOF)
      BY <1>1 DEF CachedOK, Freed, Working, End
    <2>1. CASE g = f
      <3>1. cached.dirent[f].size \in Nat
        BY PowerCutAssumption DEF TypeOK, Volume
      <3>2. u[1] = w[1] /\ Len(u) > 0 /\ cached.dirent[f].size <= Len(u)
        BY <1>6, <1>13, <3>1
      <3> QED BY <2>1, <3>2, <1>4, <1>6, <1>8, <1>16, <1>18 DEF Exists
    <2>2. CASE g # f
      <3>1. ch[g] \in Seq(Cluster) /\ Chained(cached.fat, ch[g], 0, EOF)
        BY <1>2, IdleOK
      <3>2. Chained(cached'.fat, ch[g], 0, EOF)
        BY <2>2, <3>1, <1>20, ChainedSame
      <3> QED BY <2>2, <3>2, <1>2, <1>8, <1>18, IdleOK DEF Exists
    <2> QED BY <2>1, <2>2
  <1>22. HandlesOK(d)'
    <2>1. handle[f].size \in Nat
      BY <1>2, OpenIs
    <2>2. \A g \in File : Len(ch[g]) <= Len(d[g]) /\ (g = f => handle[f].size <= Len(d[g]))
      BY <1>2, <1>4, <1>5, <1>6, <1>13, <1>18, <2>1, IdleOK
    <2>3. \A g \in File : handle[g].open => handle[g].size <= Len(d[g])
      BY <2>2, <1>18 DEF Good, HandlesOK
    <2> QED BY <2>3, <1>2, <1>8, <1>10 DEF Good, HandlesOK, Exists
  <1>23. TaskOK(d, n)'
    <2>1. handle[f].size \in Nat /\ handle[f].size + 1 <= Len(u) /\ handle[f].size + 1 <= MaxSize
      BY <1>2, <1>4, <1>5, <1>6, <1>13, OpenIs, PowerCutAssumption
    <2>2. n \in Nat
      BY DEF Good, TaskOK
    <2>3. /\ task'.op = "append" /\ task'.file = f /\ task'.cluster = c
          /\ handle'[f].open /\ kept'[f] = Nothing /\ d[f] = u
      BY <1>1, <1>2, <1>10, <1>18
    <2> QED BY <2>1, <2>2, <2>3, <1>2, <1>13 DEF TaskOK
  <1>24. KeptOK(d)'
    BY <1>2, <1>8, <1>10, <1>18, <1>20 DEF Good, KeptOK
  <1>25. MediumOK(d)'
    <2> SUFFICES ASSUME ~ truncated
                 PROVE  /\ \A g \in File : /\ medium.dirent[g].start \in Owned(d[g]) \union {0}
                                           /\ \A x \in Owned(d[g]) : medium.fat[x] \in Owned(d[g]) \union {0, EOF}
                        /\ \A x \in Cluster : (\A g \in File : x \notin Owned(d[g]))
                                                => medium.fat[x] = cached'.fat[x]
      BY <1>2 DEF MediumOK
    <2>1. /\ \A g \in File : /\ medium.dirent[g].start \in Owned(ch[g]) \union {0}
                             /\ \A x \in Owned(ch[g]) : medium.fat[x] \in Owned(ch[g]) \union {0, EOF}
          /\ \A x \in Cluster : (\A g \in File : x \notin Owned(ch[g])) => medium.fat[x] = cached.fat[x]
      BY DEF Good, MediumOK
    <2>2. medium.fat[c] = 0
      BY <1>3, <2>1
    <2> QED BY <1>5, <1>7, <1>9, <1>14, <1>18, <2>1, <2>2
  <1> QED BY <1>11, <1>19, <1>21, <1>22, <1>23, <1>24, <1>25 DEF Good

LEMMA WriteAppendedOK ==
  ASSUME TypeOK, NEW ch, NEW n, Good(ch, n), WriteAppended
  PROVE  TypeOK' /\ Good(ch, n)'
  <1>1. PICK f, c, w, k, x : f = task.file /\ c = task.cluster /\ w = ch[f] /\ k = handle[f].size /\ x = w[k + 1]
    OBVIOUS
  <1>2. f \in File /\ c \in Cluster
    <2>1. task.op = "append"
      BY DEF WriteAppended
    <2> QED BY <1>1, <2>1 DEF TypeOK, Idle
  <1>3. /\ task.op = "append" /\ handle[f].open /\ kept[f] = Nothing
        /\ k + 1 <= Len(w) /\ k + 1 <= MaxSize /\ w[Len(w)] = c
    BY <1>1 DEF WriteAppended, Good, TaskOK
  <1>4. k \in Nat
    BY <1>1, <1>2, <1>3, OpenIs
  <1>5. w \in Seq(Cluster) /\ Distinct(w) /\ Len(w) \in Nat /\ Owned(w) \subseteq Cluster
    BY <1>1, <1>2 DEF Good, ChainsOK, Owned
  <1>6. x \in Owned(w) /\ x \in Cluster /\ c \in Owned(w) /\ Len(w) > 0
    BY <1>1, <1>3, <1>4, <1>5 DEF Owned
  <1>7. Exists(cached, f) /\ Has(cached, f, w, 0) /\ cached.dirent[f].size <= Len(w)
    BY <1>1, <1>2, <1>3, Owns DEF End, Good, HandlesOK, CachedOK
  <1>8. PICK ended : ended = [cached EXCEPT !.fat[c] = EOF]
    OBVIOUS
  <1>9. /\ cached' = [ended EXCEPT !.data[FileChain(ended, f)[k + 1]] = f]
        /\ medium' = medium /\ handle' = Grown(f) /\ task' = Idle /\ kept' = kept
        /\ truncated' = truncated /\ sound' = sound
    BY <1>1, <1>8, Zenon DEF WriteAppended
  <1>10. /\ ended.dirent = cached.dirent /\ ended.data = cached.data
         /\ ended.fat = [cached.fat EXCEPT ![c] = EOF] /\ ended \in Volume
    <2>1. cached \in Volume
      BY DEF TypeOK
    <2>2. /\ ended.dirent = cached.dirent /\ ended.data = cached.data
          /\ ended.fat = [cached.fat EXCEPT ![c] = EOF]
          /\ ended = [dirent |-> ended.dirent, fat |-> ended.fat, data |-> ended.data]
      BY <1>8, <2>1 DEF Volume
    <2>3. EOF \in {0} \union 2 .. EOF
      BY ClusterIs
    <2>4. ended.fat \in [Cluster -> {0} \union 2 .. EOF]
      BY <2>1, <2>2, <2>3 DEF Volume
    <2> QED BY <2>1, <2>2, <2>4 DEF Volume
  <1>11. ended.fat[c] = EOF /\ \A y \in Cluster : y # c => ended.fat[y] = cached.fat[y]
    BY <1>2, <1>10 DEF TypeOK, Volume
  <1>12. Chained(ended.fat, w, 0, EOF)
    <2>1. Chained(cached.fat, w, 0, 0)
      BY <1>7 DEF Has
    <2>2. \A i \in 1 .. Len(w) - 1 : w[i] \in Cluster /\ w[i] # c
      <3>1. Len(w) \in 1 .. Len(w) /\ \A i \in 1 .. Len(w) - 1 : i \in 1 .. Len(w) /\ i # Len(w)
        BY <1>5, <1>6
      <3> QED BY <1>3, <1>5, <3>1 DEF Distinct, Owned
    <2>3. \A i \in 1 .. Len(w) : ~ (i <= 0)
      BY <1>5
    <2> QED BY <1>3, <1>11, <2>1, <2>2, <2>3 DEF Chained
  <1>13. Has(ended, f, w, EOF)
    BY <1>7, <1>10, <1>12 DEF Has
  <1>14. FileChain(ended, f)[k + 1] = x
    BY <1>1, <1>13, HasIs
  <1>15. cached' = [ended EXCEPT !.data[x] = f]
    BY <1>9, <1>14
  <1>16. /\ cached' \in Volume /\ cached'.dirent = cached.dirent /\ cached'.fat = ended.fat
         /\ \A y \in Cluster : y # x => cached'.data[y] = cached.data[y]
    BY <1>2, <1>6, <1>10, <1>15 DEF Volume
  <1>17. /\ handle' \in [File -> {Closed} \union [open : {TRUE}, size : 0 .. MaxSize, changed : BOOLEAN]]
         /\ \A g \in File : g # f => handle'[g] = handle[g]
         /\ handle'[f].open /\ handle'[f].size = k + 1 /\ handle'[f].changed = TRUE
    <2>1. k < MaxSize
      BY <1>3, <1>4, PowerCutAssumption
    <2> QED BY <1>1, <1>2, <1>3, <1>9, <2>1, GrownIs
  <1>18. TypeOK'
    BY <1>9, <1>16, <1>17 DEF TypeOK
  <1>19. ASSUME NEW g \in File, g # f, NEW y \in Owned(ch[g])
         PROVE  y \in Cluster /\ cached'.fat[y] = cached.fat[y] /\ cached'.data[y] = cached.data[y]
    <2>1. y # x /\ y # c
      BY <1>1, <1>2, <1>6, <1>19 DEF Good, ChainsOK
    <2>2. y \in Cluster
      <3>1. ch[g] \in Seq(Cluster)
        BY DEF Good, ChainsOK
      <3> QED BY <3>1 DEF Owned
    <2> QED BY <1>11, <1>16, <2>1, <2>2
  <1>20. CachedOK(ch, n)'
    <2> SUFFICES ASSUME NEW g \in File
                 PROVE  /\ Exists(cached', g) => Len(ch[g]) > 0 /\ ch[g][1] = cached'.dirent[g].start
                        /\ ~ Exists(cached', g) => Len(ch[g]) = 0
                        /\ Exists(cached', g) => cached'.dirent[g].size <= Len(ch[g])
                        /\ Chained(cached'.fat, ch[g], 0, EOF)
      BY <1>9 DEF CachedOK, Freed, Working, End, Idle
    <2>1. ~ Working(g)
      BY <1>3 DEF Working
    <2>2. /\ Exists(cached', g) => Len(ch[g]) > 0 /\ ch[g][1] = cached'.dirent[g].start
          /\ ~ Exists(cached', g) => Len(ch[g]) = 0
          /\ Exists(cached', g) => cached'.dirent[g].size <= Len(ch[g])
      BY <1>16, <2>1 DEF Good, CachedOK, Exists
    <2>3. CASE g = f
      BY <2>2, <2>3, <1>1, <1>12, <1>16
    <2>4. CASE g # f
      <3>1. Chained(cached.fat, ch[g], 0, EOF)
        BY <2>1, <2>4, <1>1, Zenon DEF Good, CachedOK, Freed, End
      <3>2. ch[g] \in Seq(Cluster) /\ \A y \in Owned(ch[g]) : cached'.fat[y] = cached.fat[y]
        BY <2>4, <1>19 DEF Good, ChainsOK
      <3>3. Chained(cached'.fat, ch[g], 0, EOF)
        BY <3>1, <3>2, ChainedSame
      <3> QED BY <2>2, <3>3
    <2> QED BY <2>3, <2>4
  <1>21. HandlesOK(ch)'
    BY <1>1, <1>3, <1>7, <1>9, <1>16, <1>17 DEF Good, HandlesOK, Exists
  <1>22. TaskOK(ch, n)'
    BY <1>9 DEF Good, TaskOK, Idle
  <1>23. KeptOK(ch)'
    BY <1>3, <1>9, <1>16, <1>19 DEF Good, KeptOK
  <1>24. MediumOK(ch)'
    <2>1. \A y \in Cluster : (\A g \in File : y \notin Owned(ch[g])) => cached'.fat[y] = cached.fat[y]
      BY <1>1, <1>2, <1>6, <1>11, <1>16
    <2> QED BY <1>9, <2>1 DEF Good, MediumOK
  <1> QED BY <1>18, <1>20, <1>21, <1>22, <1>23, <1>24 DEF Good, ChainsOK

LEMMA CloseOK ==
  ASSUME TypeOK, NEW ch, NEW n, Good(ch, n), NEW f \in File, Close(f)
  PROVE  TypeOK' /\ Good(ch, 0)'
  <1>1. PICK k : k = handle[f].size
    OBVIOUS
  <1>2. /\ task = Idle /\ handle[f].open
        /\ cached' = IF handle[f].changed THEN [cached EXCEPT !.dirent[f].size = k] ELSE cached
        /\ handle' = [handle EXCEPT ![f] = Closed]
        /\ task' = [op |-> "flush", file |-> f, held |-> Filled(cached, f, k)]
        /\ medium' = medium /\ kept' = kept /\ truncated' = truncated /\ sound' = sound
    BY <1>1 DEF Close
  <1>3. k \in Nat /\ k \in 0 .. MaxSize
    BY <1>1, <1>2, OpenIs
  <1>4. /\ Exists(cached, f) /\ k <= Len(ch[f])
        /\ handle[f].changed => kept[f] = Nothing
        /\ ~ handle[f].changed => k = cached.dirent[f].size
    BY <1>1, <1>2 DEF Good, HandlesOK
  <1>5. Has(cached, f, ch[f], EOF)
    BY <1>2, <1>4, Owns DEF Idle
  <1>6. /\ cached' \in Volume /\ cached'.fat = cached.fat /\ cached'.data = cached.data
        /\ cached'.dirent[f].start = cached.dirent[f].start /\ cached'.dirent[f].size = k
        /\ \A g \in File : g # f => cached'.dirent[g] = cached.dirent[g]
    <2>1. CASE ~ handle[f].changed
      BY <2>1, <1>2, <1>4 DEF TypeOK
    <2>2. CASE handle[f].changed
      <3>1. PICK e, r : e = cached.dirent[f] /\ r = [e EXCEPT !.size = k]
        OBVIOUS
      <3>2. cached \in Volume
        BY DEF TypeOK
      <3>3. e \in [start : Cluster \union {0}, size : 0 .. MaxSize]
        BY <3>1, <3>2 DEF Volume
      <3>4. r \in [start : Cluster \union {0}, size : 0 .. MaxSize] /\ r.start = e.start /\ r.size = k
        BY <3>1, <3>3, <1>3
      <3>5. /\ cached'.fat = cached.fat /\ cached'.data = cached.data
            /\ cached'.dirent = [cached.dirent EXCEPT ![f] = r]
            /\ cached' = [dirent |-> cached'.dirent, fat |-> cached'.fat, data |-> cached'.data]
        BY <2>2, <1>2, <3>1, <3>2 DEF Volume
      <3>6. cached'.dirent \in [File -> [start : Cluster \union {0}, size : 0 .. MaxSize]]
        BY <3>2, <3>4, <3>5 DEF Volume
      <3>7. cached'.dirent[f] = r /\ \A g \in File : g # f => cached'.dirent[g] = cached.dirent[g]
        BY <3>2, <3>5 DEF Volume
      <3> QED BY <3>1, <3>2, <3>4, <3>5, <3>6, <3>7 DEF Volume
    <2> QED BY <2>1, <2>2
  <1>7. Filled(cached, f, k) \in Held
    BY <1>3, <1>5, FilledIsHeld DEF TypeOK, Volume
  <1>8. TypeOK'
    <2>1. task' \in [op : {"flush"}, file : File, held : Held]
      BY <1>2, <1>7
    <2>2. handle' \in [File -> {Closed} \union [open : {TRUE}, size : 0 .. MaxSize, changed : BOOLEAN]]
      BY <1>2 DEF TypeOK
    <2> QED BY <1>2, <1>6, <2>1, <2>2 DEF TypeOK
  <1>9. Filled(cached, f, k) = Content(cached', f)
    <2>1. Has(cached', f, ch[f], EOF)
      BY <1>5, <1>6 DEF Has
    <2>2. FileChain(cached', f) = ch[f] /\ FileChain(cached, f) = ch[f]
      BY <1>5, <2>1, HasIs
    <2>3. Filled(cached', f, k) = Filled(cached, f, k)
      BY <2>2, <1>6 DEF Filled
    <2> QED BY <2>3, <1>4, <1>6 DEF Content, Exists
  <1>10. CachedOK(ch, 0)'
    <2> SUFFICES ASSUME NEW g \in File
                 PROVE  /\ Exists(cached', g) => Len(ch[g]) > 0 /\ ch[g][1] = cached'.dirent[g].start
                        /\ ~ Exists(cached', g) => Len(ch[g]) = 0
                        /\ Exists(cached', g) => cached'.dirent[g].size <= Len(ch[g])
                        /\ Chained(cached'.fat, ch[g], 0, EOF)
      BY <1>2 DEF CachedOK, Freed, End
    <2>1. Exists(cached', g) <=> Exists(cached, g)
      BY <1>6 DEF Exists
    <2>2. /\ Exists(cached, g) => cached'.dirent[g].size <= Len(ch[g])
          /\ cached'.dirent[g].start = cached.dirent[g].start
      BY <1>2, <1>4, <1>6, IdleOK
    <2> QED BY <2>1, <2>2, <1>2, <1>6, IdleOK
  <1>11. handle'[f] = Closed /\ \A g \in File : g # f => handle'[g] = handle[g]
    BY <1>2 DEF TypeOK
  <1>12. HandlesOK(ch)'
    BY <1>2, <1>6, <1>11 DEF Good, HandlesOK, Exists, Closed
  <1>13. TaskOK(ch, 0)'
    BY <1>2, <1>9, <1>11 DEF TaskOK, Closed
  <1>14. KeptOK(ch)'
    BY <1>2, <1>4, <1>6 DEF Good, KeptOK
  <1>15. MediumOK(ch)'
    BY <1>2, <1>6 DEF Good, MediumOK
  <1> QED BY <1>8, <1>10, <1>12, <1>13, <1>14, <1>15 DEF Good, ChainsOK

LEMMA RemoveOK ==
  ASSUME TypeOK, NEW ch, NEW n, Good(ch, n), NEW f \in File, Remove(f)
  PROVE  TypeOK' /\ Good(ch, 0)'
  <1>1. PICK c : c = cached.dirent[f].start
    OBVIOUS
  <1>2. /\ task = Idle /\ ~ handle[f].open /\ Exists(cached, f)
        /\ task' = [op |-> "delete", file |-> f, cluster |-> c, start |-> 0]
        /\ cached' = [cached EXCEPT !.dirent[f] = NoFile] /\ kept' = [kept EXCEPT ![f] = Nothing]
        /\ medium' = medium /\ handle' = handle /\ truncated' = truncated /\ sound' = sound
    BY <1>1 DEF Remove
  <1>3. c \in Cluster /\ Len(ch[f]) > 0 /\ ch[f][1] = c
    BY <1>1, <1>2, IdleOK DEF Exists, TypeOK, Volume
  <1>4. /\ cached' \in Volume /\ cached'.fat = cached.fat /\ cached'.data = cached.data
        /\ cached'.dirent[f] = NoFile
        /\ \A g \in File : g # f => cached'.dirent[g] = cached.dirent[g]
    <2>1. cached \in Volume
      BY DEF TypeOK
    <2>2. /\ cached'.fat = cached.fat /\ cached'.data = cached.data
          /\ cached'.dirent = [cached.dirent EXCEPT ![f] = NoFile]
          /\ cached' = [dirent |-> cached'.dirent, fat |-> cached'.fat, data |-> cached'.data]
      BY <1>2, <2>1 DEF Volume
    <2>3. NoFile \in [start : Cluster \union {0}, size : 0 .. MaxSize]
      BY PowerCutAssumption DEF NoFile
    <2>4. cached'.dirent \in [File -> [start : Cluster \union {0}, size : 0 .. MaxSize]]
      BY <2>1, <2>2, <2>3 DEF Volume
    <2> QED BY <2>1, <2>2, <2>4 DEF Volume
  <1>5. TypeOK'
    <2>1. task' \in [op : {"delete"}, file : File, cluster : Cluster, start : Cluster \union {0}]
      BY <1>2, <1>3
    <2>2. kept' \in [File -> {Nothing} \union Held]
      BY <1>2 DEF TypeOK
    <2> QED BY <1>2, <1>4, <2>1, <2>2 DEF TypeOK
  <1>6. \A g \in File : kept'[g] = IF g = f THEN Nothing ELSE kept[g]
    BY <1>2 DEF TypeOK
  <1>7. CachedOK(ch, 0)'
    <2> SUFFICES ASSUME NEW g \in File
                 PROVE  /\ Exists(cached', g) => Len(ch[g]) > 0 /\ ch[g][1] = cached'.dirent[g].start
                        /\ ~ Exists(cached', g) /\ g # f => Len(ch[g]) = 0
                        /\ Exists(cached', g) => cached'.dirent[g].size <= Len(ch[g])
                        /\ Chained(cached'.fat, ch[g], 0, EOF)
      BY <1>2 DEF CachedOK, Freed, End, Working
    <2>1. CASE g = f
      BY <2>1, <1>2, <1>4, IdleOK DEF Exists, NoFile
    <2>2. CASE g # f
      BY <2>2, <1>2, <1>4, IdleOK DEF Exists
    <2> QED BY <2>1, <2>2
  <1>8. HandlesOK(ch)'
    BY <1>2, <1>4, <1>6 DEF Good, HandlesOK, Exists
  <1>9. TaskOK(ch, 0)'
    BY <1>2, <1>3, <1>4, <1>6 DEF TaskOK, NoFile
  <1>10. KeptOK(ch)'
    BY <1>2, <1>4, <1>6 DEF Good, KeptOK
  <1>11. MediumOK(ch)'
    BY <1>2, <1>4 DEF Good, MediumOK
  <1> QED BY <1>5, <1>7, <1>8, <1>9, <1>10, <1>11 DEF Good, ChainsOK

(* One entry of a chain is freed.                                          *)
LEMMA DeletedIs ==
  ASSUME TypeOK, NEW ch, NEW n, Good(ch, n), NEW f, f = task.file, task.op = "delete"
  PROVE  /\ f \in File /\ task \in [op : {"delete"}, file : File, cluster : Cluster, start : Cluster \union {0}]
         /\ Len(ch[f]) \in Nat /\ n \in Nat /\ n < Len(ch[f]) /\ task.cluster \in Cluster
         /\ task.cluster \in Owned(ch[f]) /\ ch[f] \in Seq(Cluster) /\ ~ handle[f].open
         /\ IF DeleteLast THEN n + 1 = Len(ch[f])
            ELSE n + 1 < Len(ch[f]) /\ cached.fat[task.cluster] = ch[f][n + 2]
         /\ Deleted \in Volume /\ Deleted.dirent = cached.dirent /\ Deleted.data = cached.data
         /\ \A x \in Cluster : Deleted.fat[x] = IF x = task.cluster THEN 0 ELSE cached.fat[x]
         /\ Chained(Deleted.fat, ch[f], n + 1, EOF)
         /\ \A g \in File : g # f =>
              /\ Chained(Deleted.fat, ch[g], 0, EOF)
              /\ Owned(ch[g]) \subseteq Cluster
              /\ \A x \in Owned(ch[g]) : Deleted.fat[x] = cached.fat[x]
  <1>1. task \in [op : {"delete"}, file : File, cluster : Cluster, start : Cluster \union {0}]
    BY DEF TypeOK, Idle
  <1>2. PICK c : c = task.cluster
    OBVIOUS
  <1>3. f \in File /\ c \in Cluster
    BY <1>1, <1>2
  <1>4. n \in Nat /\ n < Len(ch[f]) /\ c = ch[f][n + 1] /\ ~ handle[f].open
    BY <1>2 DEF Good, TaskOK
  <1>5. PICK w : w = ch[f]
    OBVIOUS
  <1>6. w \in Seq(Cluster) /\ Distinct(w) /\ Len(w) \in Nat
    BY <1>3, <1>5 DEF Good, ChainsOK
  <1>7. n + 1 \in 1 .. Len(w) /\ c = w[n + 1] /\ c \in Owned(w)
    BY <1>4, <1>5, <1>6 DEF Owned
  <1>8. Chained(cached.fat, w, n, EOF)
    BY <1>3, <1>5 DEF Good, CachedOK, Freed, Working, End
  <1>9. IF DeleteLast THEN n + 1 = Len(w)
        ELSE n + 1 < Len(w) /\ cached.fat[c] = w[n + 2]
    <2>1. CASE n + 1 = Len(w)
      <3>1. cached.fat[c] = EOF
        BY <2>1, <1>4, <1>6, <1>7, <1>8 DEF Chained
      <3> QED BY <2>1, <3>1, <1>2 DEF DeleteLast
    <2>2. CASE n + 1 # Len(w)
      <3>1. n + 1 \in 1 .. Len(w) - 1 /\ n + 1 > n /\ (n + 1) + 1 = n + 2 /\ n + 2 \in 1 .. Len(w)
        BY <2>2, <1>4, <1>6, <1>7
      <3>2. cached.fat[c] = w[n + 2]
        BY <3>1, <1>7, <1>8 DEF Chained
      <3>3. cached.fat[c] \in Cluster
        BY <3>1, <3>2, <1>6
      <3> QED BY <3>1, <3>2, <3>3, <1>2, <1>6, ClusterIs DEF DeleteLast
    <2> QED BY <2>1, <2>2
  <1>10. PICK u : u = Deleted
    OBVIOUS
  <1>11. u \in Volume /\ u.dirent = cached.dirent /\ u.data = cached.data
         /\ \A x \in Cluster : u.fat[x] = IF x = c THEN 0 ELSE cached.fat[x]
    <2>1. cached \in Volume
      BY DEF TypeOK
    <2>2. /\ u.dirent = cached.dirent /\ u.data = cached.data
          /\ u.fat = [cached.fat EXCEPT ![c] = 0]
          /\ u = [dirent |-> u.dirent, fat |-> u.fat, data |-> u.data]
      BY <1>2, <1>10, <2>1 DEF Volume, Deleted
    <2>3. u.fat \in [Cluster -> {0} \union 2 .. EOF]
      BY <2>1, <2>2 DEF Volume
    <2>4. \A x \in Cluster : u.fat[x] = IF x = c THEN 0 ELSE cached.fat[x]
      BY <2>1, <2>2 DEF Volume
    <2> QED BY <2>1, <2>2, <2>3, <2>4 DEF Volume
  <1>12. Chained(u.fat, w, n + 1, EOF)
    <2>1. \A i \in 1 .. Len(w) : w[i] \in Cluster
      BY <1>6
    <2>2. \A i \in 1 .. Len(w) : u.fat[w[i]] = IF i = n + 1 THEN 0 ELSE cached.fat[w[i]]
      BY <1>6, <1>7, <1>11, <2>1 DEF Distinct
    <2>3. \A i \in 1 .. Len(w) : i <= n + 1 => i = n + 1 \/ i <= n
      BY <1>4, <1>6
    <2>4. \A i \in 1 .. Len(w) - 1 : i > n + 1 => i > n /\ i \in 1 .. Len(w) /\ i # n + 1
      BY <1>4, <1>6
    <2>5. Len(w) > n + 1 => Len(w) > n /\ Len(w) \in 1 .. Len(w) /\ Len(w) # n + 1
      BY <1>4, <1>6
    <2> QED BY <1>8, <2>2, <2>3, <2>4, <2>5 DEF Chained
  <1>13. ASSUME NEW g \in File, g # f
         PROVE  /\ Owned(ch[g]) \subseteq Cluster
                /\ \A x \in Owned(ch[g]) : u.fat[x] = cached.fat[x]
                /\ Chained(u.fat, ch[g], 0, EOF)
    <2>1. ch[g] \in Seq(Cluster) /\ Owned(ch[g]) \subseteq Cluster
      <3>1. ch[g] \in Seq(Cluster)
        BY DEF Good, ChainsOK
      <3> QED BY <3>1 DEF Owned
    <2>2. c \notin Owned(ch[g])
      BY <1>3, <1>5, <1>7, <1>13 DEF Good, ChainsOK
    <2>3. \A x \in Owned(ch[g]) : u.fat[x] = cached.fat[x]
      BY <1>11, <2>1, <2>2
    <2>4. Chained(cached.fat, ch[g], 0, EOF)
      BY <1>13 DEF Good, CachedOK, Freed, Working, End
    <2>5. Chained(u.fat, ch[g], 0, EOF)
      BY <2>1, <2>3, <2>4, ChainedSame
    <2> QED BY <2>1, <2>3, <2>5
  <1> QED BY <1>1, <1>2, <1>3, <1>4, <1>5, <1>6, <1>7, <1>9, <1>10, <1>11, <1>12, <1>13

LEMMA DeleteOneOK ==
  ASSUME TypeOK, NEW ch, NEW n, Good(ch, n), task.op = "delete", DeleteOne,
         UNCHANGED <<medium, kept, truncated, sound>>
  PROVE  TypeOK' /\ Good(ch, n + 1)'
  <1>1. PICK f, u : f = task.file /\ u = Deleted
    OBVIOUS
  <1>2. /\ ~ DeleteLast /\ cached' = u /\ handle' = handle
        /\ task' = [task EXCEPT !.cluster = cached.fat[task.cluster]]
    BY <1>1 DEF DeleteOne
  <1>3. /\ f \in File /\ task \in [op : {"delete"}, file : File, cluster : Cluster, start : Cluster \union {0}]
        /\ Len(ch[f]) \in Nat /\ n \in Nat /\ ch[f] \in Seq(Cluster) /\ ~ handle[f].open
        /\ n + 1 < Len(ch[f]) /\ cached.fat[task.cluster] = ch[f][n + 2]
        /\ u \in Volume /\ u.dirent = cached.dirent /\ u.data = cached.data
        /\ task.cluster \in Owned(ch[f])
        /\ \A x \in Cluster : u.fat[x] = IF x = task.cluster THEN 0 ELSE cached.fat[x]
        /\ Chained(u.fat, ch[f], n + 1, EOF)
        /\ \A g \in File : g # f =>
              /\ Chained(u.fat, ch[g], 0, EOF)
              /\ \A x \in Owned(ch[g]) : u.fat[x] = cached.fat[x]
    BY <1>1, <1>2, DeletedIs
  <1>4. /\ task' \in [op : {"delete"}, file : File, cluster : Cluster, start : Cluster \union {0}]
        /\ task'.op = "delete" /\ task'.file = f /\ task'.start = task.start
        /\ task'.cluster = ch[f][n + 2]
    <2>1. ch[f][n + 2] \in Cluster
      BY <1>3
    <2> QED BY <2>1, <1>1, <1>2, <1>3
  <1>5. TypeOK'
    BY <1>2, <1>3, <1>4 DEF TypeOK
  <1>6. CachedOK(ch, n + 1)'
    <2> SUFFICES ASSUME NEW g \in File
                 PROVE  /\ Exists(cached', g) => Len(ch[g]) > 0 /\ ch[g][1] = cached'.dirent[g].start
                        /\ ~ Exists(cached', g) /\ g # f => Len(ch[g]) = 0
                        /\ Exists(cached', g) => cached'.dirent[g].size <= Len(ch[g])
                        /\ Chained(cached'.fat, ch[g], IF g = f THEN n + 1 ELSE 0, EOF)
      BY <1>4 DEF CachedOK, Freed, End, Working
    <2>1. /\ Exists(cached', g) => Len(ch[g]) > 0 /\ ch[g][1] = cached'.dirent[g].start
          /\ ~ Exists(cached', g) /\ g # f => Len(ch[g]) = 0
          /\ Exists(cached', g) => cached'.dirent[g].size <= Len(ch[g])
      BY <1>1, <1>2, <1>3 DEF Good, CachedOK, Exists, Working
    <2> QED BY <2>1, <1>2, <1>3
  <1>7. HandlesOK(ch)'
    BY <1>2, <1>3 DEF Good, HandlesOK, Exists
  <1>8. TaskOK(ch, n + 1)'
    <2>1. kept[f] = Nothing /\ cached.dirent[f].start = task.start /\ (task.start # 0 => truncated)
      BY <1>1 DEF Good, TaskOK
    <2>2. n + 1 \in Nat /\ (n + 1) + 1 = n + 2
      BY <1>3
    <2> QED BY <2>1, <2>2, <1>2, <1>3, <1>4 DEF TaskOK
  <1>9. kept[f] = Nothing
    BY <1>1 DEF Good, TaskOK
  <1>10. KeptOK(ch)'
    BY <1>2, <1>3, <1>9 DEF Good, KeptOK
  <1>11. MediumOK(ch)'
    BY <1>2, <1>3 DEF Good, MediumOK
  <1> QED BY <1>5, <1>6, <1>7, <1>8, <1>10, <1>11 DEF Good, ChainsOK

LEMMA DeleteEntryOK ==
  ASSUME TypeOK, NEW ch, NEW n, Good(ch, n), task.op = "delete", DeleteEntry,
         UNCHANGED <<medium, kept, truncated, sound>>
  PROVE  TypeOK' /\ Good(ch, n + 1)'
  <1>1. PICK f, u : f = task.file /\ u = Deleted
    OBVIOUS
  <1>2. /\ DeleteLast /\ task.start = 0 /\ cached' = u /\ handle' = handle
        /\ task' = [op |-> "flush", file |-> f, held |-> Gone]
    BY <1>1 DEF DeleteEntry
  <1>3. /\ f \in File /\ n \in Nat /\ ~ handle[f].open
        /\ u \in Volume /\ u.dirent = cached.dirent /\ u.data = cached.data
        /\ task.cluster \in Owned(ch[f])
        /\ \A x \in Cluster : u.fat[x] = IF x = task.cluster THEN 0 ELSE cached.fat[x]
        /\ Chained(u.fat, ch[f], n + 1, EOF)
        /\ \A g \in File : g # f =>
              /\ Chained(u.fat, ch[g], 0, EOF)
              /\ \A x \in Owned(ch[g]) : u.fat[x] = cached.fat[x]
    BY <1>1, <1>2, DeletedIs
  <1>4. kept[f] = Nothing /\ cached.dirent[f].start = 0
    BY <1>1, <1>2 DEF Good, TaskOK
  <1>5. TypeOK'
    <2>1. Gone \in Held
      <3>1. <<>> \in Seq(File \union {Junk})
        OBVIOUS
      <3> QED BY <3>1 DEF Gone, Held
    <2>2. task' \in [op : {"flush"}, file : File, held : Held]
      BY <1>2, <1>3, <2>1
    <2> QED BY <1>2, <1>3, <2>2 DEF TypeOK
  <1>6. CachedOK(ch, n + 1)'
    <2> SUFFICES ASSUME NEW g \in File
                 PROVE  /\ Exists(cached', g) => Len(ch[g]) > 0 /\ ch[g][1] = cached'.dirent[g].start
                        /\ ~ Exists(cached', g) /\ g # f => Len(ch[g]) = 0
                        /\ Exists(cached', g) => cached'.dirent[g].size <= Len(ch[g])
                        /\ Chained(cached'.fat, ch[g], IF g = f THEN n + 1 ELSE 0, EOF)
      BY <1>2 DEF CachedOK, Freed, End, Working
    <2>1. /\ Exists(cached', g) => Len(ch[g]) > 0 /\ ch[g][1] = cached'.dirent[g].start
          /\ ~ Exists(cached', g) /\ g # f => Len(ch[g]) = 0
          /\ Exists(cached', g) => cached'.dirent[g].size <= Len(ch[g])
      BY <1>1, <1>2, <1>3 DEF Good, CachedOK, Exists, Working
    <2> QED BY <2>1, <1>2, <1>3
  <1>7. HandlesOK(ch)'
    BY <1>2, <1>3 DEF Good, HandlesOK, Exists
  <1>8. TaskOK(ch, n + 1)'
    <2>1. ~ Exists(cached', f) /\ Content(cached', f) = Gone
      BY <1>2, <1>3, <1>4 DEF Content, Exists
    <2> QED BY <2>1, <1>2, <1>3 DEF TaskOK
  <1>9. KeptOK(ch)'
    BY <1>2, <1>3, <1>4 DEF Good, KeptOK
  <1>10. MediumOK(ch)'
    BY <1>2, <1>3 DEF Good, MediumOK
  <1> QED BY <1>5, <1>6, <1>7, <1>8, <1>9, <1>10 DEF Good, ChainsOK

LEMMA EndTruncateOK ==
  ASSUME TypeOK, NEW ch, NEW n, Good(ch, n), task.op = "delete", EndTruncate,
         UNCHANGED <<medium, kept, truncated, sound>>
  PROVE  TypeOK' /\ \E d : Good(d, n)'
  <1>1. PICK f, u, c : f = task.file /\ u = Deleted /\ c = task.start
    OBVIOUS
  <1>2. /\ DeleteLast /\ c # 0 /\ cached' = [u EXCEPT !.fat[c] = EOF, !.dirent[f].size = 0]
        /\ handle' = [handle EXCEPT ![f] = [open |-> TRUE, size |-> 0, changed |-> FALSE]]
        /\ task' = Idle
    BY <1>1 DEF EndTruncate
  <1>3. /\ f \in File /\ n \in Nat /\ c \in Cluster \union {0}
        /\ u \in Volume /\ u.dirent = cached.dirent /\ u.data = cached.data
        /\ \A g \in File : g # f =>
              /\ Chained(u.fat, ch[g], 0, EOF) /\ Owned(ch[g]) \subseteq Cluster
              /\ \A x \in Owned(ch[g]) : u.fat[x] = cached.fat[x]
    BY <1>1, <1>2, DeletedIs
  <1>4. kept[f] = Nothing /\ cached.dirent[f].start = c /\ truncated
    BY <1>1, <1>2 DEF Good, TaskOK
  <1>5. c \in Cluster /\ Exists(cached, f) /\ c \in Owned(ch[f])
    <2>1. c \in Cluster /\ Exists(cached, f)
      BY <1>2, <1>3, <1>4 DEF Exists
    <2>2. Len(ch[f]) > 0 /\ ch[f][1] = c
      BY <2>1, <1>3, <1>4 DEF Good, CachedOK
    <2>3. Len(ch[f]) \in Nat
      BY <1>3 DEF Good, ChainsOK
    <2> QED BY <2>1, <2>2, <2>3 DEF Owned
  <1>6. /\ cached' \in Volume /\ cached'.data = cached.data
        /\ cached'.dirent[f] = [start |-> c, size |-> 0]
        /\ \A g \in File : g # f => cached'.dirent[g] = cached.dirent[g]
        /\ \A x \in Cluster : cached'.fat[x] = IF x = c THEN EOF ELSE u.fat[x]
    <2>1. PICK r : r = [start |-> c, size |-> 0]
      OBVIOUS
    <2>2. [u.dirent[f] EXCEPT !.size = 0] = r
      <3>1. PICK e : e = cached.dirent[f]
        OBVIOUS
      <3>2. e \in [start : Cluster \union {0}, size : 0 .. MaxSize] /\ e.start = c
        BY <1>3, <1>4, <3>1 DEF TypeOK, Volume
      <3>3. [e EXCEPT !.size = 0] = [start |-> e.start, size |-> 0]
        BY <3>2
      <3> QED BY <2>1, <3>1, <3>2, <3>3, <1>3
    <2>3. /\ cached'.data = u.data /\ cached'.fat = [u.fat EXCEPT ![c] = EOF]
          /\ cached'.dirent = [u.dirent EXCEPT ![f] = [u.dirent[f] EXCEPT !.size = 0]]
          /\ cached' = [dirent |-> cached'.dirent, fat |-> cached'.fat, data |-> cached'.data]
      BY <1>2, <1>3 DEF Volume
    <2>4. cached'.dirent = [u.dirent EXCEPT ![f] = r]
      BY <2>2, <2>3
    <2>5. EOF \in {0} \union 2 .. EOF /\ r \in [start : Cluster \union {0}, size : 0 .. MaxSize]
      BY <1>5, <2>1, ClusterIs, PowerCutAssumption
    <2>6. cached'.fat \in [Cluster -> {0} \union 2 .. EOF]
          /\ \A x \in Cluster : cached'.fat[x] = IF x = c THEN EOF ELSE u.fat[x]
      <3>1. PICK t : t = u.fat
        OBVIOUS
      <3>2. PICK E, T : E = EOF /\ T = {0} \union 2 .. EOF
        OBVIOUS
      <3>3. t \in [Cluster -> T] /\ E \in T /\ cached'.fat = [t EXCEPT ![c] = E]
        BY <1>3, <2>3, <2>5, <3>1, <3>2 DEF Volume
      <3>4. cached'.fat \in [Cluster -> T] /\ \A x \in Cluster : cached'.fat[x] = IF x = c THEN E ELSE t[x]
        BY <3>3
      <3> QED BY <3>1, <3>2, <3>4
    <2>7. /\ cached'.dirent \in [File -> [start : Cluster \union {0}, size : 0 .. MaxSize]]
          /\ cached'.dirent[f] = r
          /\ \A g \in File : g # f => cached'.dirent[g] = cached.dirent[g]
      BY <1>3, <2>4, <2>5 DEF Volume
    <2> QED BY <1>3, <2>1, <2>3, <2>6, <2>7 DEF Volume
  <1>7. TypeOK'
    <2>1. 0 \in 0 .. MaxSize
      BY PowerCutAssumption
    <2>2. handle' \in [File -> {Closed} \union [open : {TRUE}, size : 0 .. MaxSize, changed : BOOLEAN]]
      BY <1>2, <2>1 DEF TypeOK
    <2> QED BY <1>2, <1>6, <2>2 DEF TypeOK
  <1>8. PICK d : d = [ch EXCEPT ![f] = <<c>>]
    OBVIOUS
  <1>9. d \in [File -> Seq(Cluster)]
    BY <1>3, <1>5, <1>8 DEF Good, ChainsOK
  <1>10. /\ d[f] = <<c>> /\ Len(d[f]) = 1 /\ d[f][1] = c /\ Owned(d[f]) = {c}
         /\ \A g \in File : g # f => d[g] = ch[g]
    BY <1>3, <1>8 DEF Owned, Good, ChainsOK
  <1>11. ASSUME NEW g \in File, g # f PROVE c \notin Owned(ch[g])
    BY <1>3, <1>5, <1>11 DEF Good, ChainsOK
  <1>12. ChainsOK(d)
    <2>1. \A g \in File : Distinct(d[g])
      BY <1>10 DEF Good, ChainsOK, Distinct
    <2>2. \A g, h \in File : g # h => Owned(d[g]) \intersect Owned(d[h]) = {}
      <3>1. \A g, h \in File : g # h => Owned(ch[g]) \intersect Owned(ch[h]) = {}
        BY DEF Good, ChainsOK
      <3>2. \A g \in File : Owned(d[g]) = IF g = f THEN {c} ELSE Owned(ch[g])
        BY <1>10
      <3> QED BY <1>11, <3>1, <3>2
    <2> QED BY <1>9, <2>1, <2>2 DEF ChainsOK
  <1>13. \A g \in File : g # f => \A x \in Owned(ch[g]) : cached'.fat[x] = u.fat[x]
    BY <1>3, <1>6, <1>11
  <1>14. CachedOK(d, n)'
    <2> SUFFICES ASSUME NEW g \in File
                 PROVE  /\ Exists(cached', g) => Len(d[g]) > 0 /\ d[g][1] = cached'.dirent[g].start
                        /\ ~ Exists(cached', g) => Len(d[g]) = 0
                        /\ Exists(cached', g) => cached'.dirent[g].size <= Len(d[g])
                        /\ Chained(cached'.fat, d[g], 0, EOF)
      BY <1>2 DEF CachedOK, Freed, Working, End, Idle
    <2>1. CASE g = f
      BY <2>1, <1>2, <1>5, <1>6, <1>10 DEF Exists, Chained
    <2>2. CASE g # f
      <3>1. Chained(cached'.fat, ch[g], 0, EOF)
        <4>1. ch[g] \in Seq(Cluster) /\ Chained(u.fat, ch[g], 0, EOF)
          BY <2>2, <1>3 DEF Good, ChainsOK
        <4> QED BY <2>2, <1>13, <4>1, ChainedSame
      <3> QED BY <3>1, <2>2, <1>1, <1>6, <1>10 DEF Good, CachedOK, Exists, Working
    <2> QED BY <2>1, <2>2
  <1>15. HandlesOK(d)'
    <2>1. ASSUME NEW g \in File
          PROVE  handle'[g] = IF g = f THEN [open |-> TRUE, size |-> 0, changed |-> FALSE] ELSE handle[g]
      BY <1>2 DEF TypeOK
    <2>2. HandlesOK(ch)
      BY DEF Good
    <2> QED BY <1>2, <1>6, <1>10, <2>1, <2>2 DEF HandlesOK, Exists
  <1>16. TaskOK(d, n)'
    BY <1>2, <1>3 DEF TaskOK, Idle
  <1>17. KeptOK(d)'
    BY <1>3, <1>4, <1>6, <1>10, <1>13 DEF Good, KeptOK
  <1>18. MediumOK(d)'
    BY <1>4 DEF MediumOK
  <1> QED BY <1>7, <1>12, <1>14, <1>15, <1>16, <1>17, <1>18 DEF Good

LEMMA FlushOK ==
  ASSUME TypeOK, NEW ch, NEW n, Good(ch, n), Flush
  PROVE  TypeOK' /\ \E d : Good(d, n)'
  <1>1. PICK f : f = task.file
    OBVIOUS
  <1>2. /\ task.op = "flush" /\ medium' = cached /\ truncated' = FALSE /\ task' = Idle
        /\ kept' = [kept EXCEPT ![f] = task.held]
        /\ cached' = cached /\ handle' = handle /\ sound' = sound
    BY <1>1 DEF Flush
  <1>3. f \in File /\ task.held \in Held
    <2>1. task \in [op : {"flush"}, file : File, held : Held]
      BY <1>2 DEF TypeOK, Idle
    <2> QED BY <1>1, <2>1
  <1>4. TypeOK'
    <2>1. kept' \in [File -> {Nothing} \union Held]
      BY <1>2, <1>3 DEF TypeOK
    <2> QED BY <1>2, <2>1 DEF TypeOK
  <1>5. /\ task.held = Content(cached, f) /\ (Exists(cached, f) => n = 0) /\ n \in Nat
        /\ \A g \in File : Exists(cached, g) => Has(cached, g, ch[g], EOF)
    BY <1>1, <1>2, Owns DEF Good, TaskOK
  <1>6. PICK d : d = [g \in File |-> IF Exists(cached, g) THEN ch[g] ELSE <<>>]
    OBVIOUS
  <1>7. \A g \in File : d[g] = IF Exists(cached, g) THEN ch[g] ELSE <<>>
    BY <1>6
  <1>8. ChainsOK(d)
    <2>1. d \in [File -> Seq(Cluster)]
      BY <1>6 DEF Good, ChainsOK
    <2>2. \A g \in File : Distinct(d[g]) /\ (Owned(d[g]) = Owned(ch[g]) \/ Owned(d[g]) = {})
      BY <1>7 DEF Good, ChainsOK, Distinct, Owned
    <2>3. \A g, h \in File : g # h => Owned(ch[g]) \intersect Owned(ch[h]) = {}
      BY DEF Good, ChainsOK
    <2>4. \A g, h \in File : g # h => Owned(d[g]) \intersect Owned(d[h]) = {}
      BY <2>2, <2>3
    <2> QED BY <2>1, <2>2, <2>4 DEF ChainsOK
  <1>9. ASSUME NEW g \in File
        PROVE  /\ Exists(cached, g) => Len(d[g]) > 0 /\ d[g][1] = cached.dirent[g].start
               /\ ~ Exists(cached, g) => Len(d[g]) = 0
               /\ Exists(cached, g) => cached.dirent[g].size <= Len(d[g])
               /\ Chained(cached.fat, d[g], 0, EOF) /\ d[g] \in Seq(Cluster)
    <2>1. CASE Exists(cached, g)
      BY <2>1, <1>5, <1>7 DEF Has, Good, CachedOK
    <2>2. CASE ~ Exists(cached, g)
      <3>1. d[g] = <<>> /\ Len(d[g]) = 0
        BY <2>2, <1>7
      <3>3. d[g] \in Seq(Cluster)
        BY <1>8 DEF ChainsOK
      <3>2. Chained(cached.fat, d[g], 0, EOF)
        BY <3>1 DEF Chained
      <3> QED BY <2>2, <3>1, <3>2, <3>3
    <2> QED BY <2>1, <2>2
  <1>10. CachedOK(d, n)'
    BY <1>2, <1>9 DEF CachedOK, Freed, Working, End, Idle
  <1>11. HandlesOK(d)'
    <2>1. \A g \in File : kept'[g] = IF g = f THEN task.held ELSE kept[g]
      BY <1>2 DEF TypeOK
    <2>2. ~ handle[f].open
      BY <1>1, <1>2 DEF Good, TaskOK
    <2> QED BY <1>2, <1>7, <2>1, <2>2 DEF Good, HandlesOK
  <1>12. TaskOK(d, n)'
    BY <1>2, <1>5 DEF TaskOK, Idle
  <1>13. KeptOK(d)'
    <2> SUFFICES ASSUME NEW g \in File, kept'[g] # Nothing PROVE Content(cached, g) = kept'[g]
      BY <1>2 DEF KeptOK
    <2>1. CASE g = f
      BY <2>1, <1>2, <1>3, <1>5 DEF TypeOK
    <2>2. CASE g # f
      <3>1. kept'[g] = kept[g]
        BY <2>2, <1>2 DEF TypeOK
      <3>2. /\ medium.dirent[g] = cached.dirent[g] /\ Content(medium, g) = kept[g]
            /\ \A c \in Owned(ch[g]) : medium.fat[c] = cached.fat[c] /\ medium.data[c] = cached.data[c]
        BY <3>1 DEF Good, KeptOK
      <3>3. cached.dirent[g].size \in Nat
        BY PowerCutAssumption DEF TypeOK, Volume
      <3>4. Content(medium, g) = Content(cached, g)
        BY <1>5, <3>2, <3>3, SameContent
      <3> QED BY <3>1, <3>2, <3>4
    <2> QED BY <2>1, <2>2
  <1>14. MediumOK(d)'
    <2> SUFFICES ASSUME NEW g \in File
                 PROVE  /\ cached.dirent[g].start \in Owned(d[g]) \union {0}
                        /\ \A c \in Owned(d[g]) : cached.fat[c] \in Owned(d[g]) \union {0, EOF}
      BY <1>2 DEF MediumOK
    <2>1. cached.dirent[g].start \in Owned(d[g]) \union {0}
      <3>1. Len(d[g]) \in Nat
        BY <1>9
      <3> QED BY <3>1, <1>9 DEF Exists, Owned
    <2>2. \A c \in Owned(d[g]) : cached.fat[c] \in Owned(d[g]) \union {0, EOF}
      BY <1>9, ChainedStays
    <2> QED BY <2>1, <2>2
  <1> QED BY <1>4, <1>8, <1>10, <1>11, <1>12, <1>13, <1>14 DEF Good
-----------------------------------------------------------------------------
(* The medium has the chain of a file that was closed.                     *)
LEMMA KeptHas ==
  ASSUME TypeOK, NEW ch, NEW n, Good(ch, n), NEW f \in File, kept[f] # Nothing
  PROVE  /\ Exists(medium, f) => Has(medium, f, ch[f], EOF)
         /\ medium.dirent[f].size \in Nat
  <1>1. /\ medium.dirent[f] = cached.dirent[f]
        /\ \A c \in Owned(ch[f]) : medium.fat[c] = cached.fat[c]
    BY DEF Good, KeptOK
  <1>2. medium.dirent[f].size \in Nat
    BY PowerCutAssumption DEF TypeOK, Volume
  <1>3. ASSUME Exists(medium, f) PROVE Has(medium, f, ch[f], EOF)
    <2>1. Exists(cached, f)
      BY <1>1, <1>3 DEF Exists
    <2>2. Freed(f, n) = 0 /\ End(f) = EOF
      BY <2>1 DEF Freed, End, Working, Good, TaskOK
    <2>3. ch[f] \in Seq(Cluster) /\ Distinct(ch[f]) /\ Len(ch[f]) \in Nat
      BY DEF Good, ChainsOK
    <2>4. Len(ch[f]) > 0 /\ ch[f][1] = cached.dirent[f].start /\ Chained(cached.fat, ch[f], 0, EOF)
      BY <2>1, <2>2 DEF Good, CachedOK
    <2>5. Chained(medium.fat, ch[f], 0, EOF)
      BY <1>1, <2>3, <2>4, ChainedSame
    <2> QED BY <1>1, <2>3, <2>4, <2>5 DEF Has
  <1> QED BY <1>2, <1>3

(* Where the table and the entries in the cache lead.                      *)
LEMMA CachedStays ==
  ASSUME TypeOK, NEW ch, NEW n, Good(ch, n), NEW f \in File
  PROVE  /\ cached.dirent[f].start \in Owned(ch[f]) \union {0}
         /\ \A c \in Owned(ch[f]) : cached.fat[c] \in Owned(ch[f]) \union {0, EOF}
  <1>1. /\ ch[f] \in Seq(Cluster) /\ Freed(f, n) \in Nat /\ End(f) \in {0, EOF}
        /\ Chained(cached.fat, ch[f], Freed(f, n), End(f))
    BY DEF Good, ChainsOK, CachedOK, TaskOK, Freed, End
  <1>2. cached.dirent[f].start \in Owned(ch[f]) \union {0}
    <2>1. Len(ch[f]) \in Nat
      BY <1>1
    <2> QED BY <2>1 DEF Good, CachedOK, Exists, Owned
  <1>3. \A c \in Owned(ch[f]) : cached.fat[c] \in Owned(ch[f]) \union {0, EOF}
    BY <1>1, ChainedStays
  <1> QED BY <1>2, <1>3

(* Any part of what the cache has reaches the device.                      *)
StoredPart ==
  /\ \A f \in File : medium'.dirent[f] \in {medium.dirent[f], cached.dirent[f]}
  /\ \A c \in Cluster : /\ medium'.fat[c] \in {medium.fat[c], cached.fat[c]}
                        /\ medium'.data[c] \in {medium.data[c], cached.data[c]}
  /\ medium' \in Volume
  /\ UNCHANGED <<cached, handle, task, kept, truncated, sound>>

LEMMA StoredPartOK ==
  ASSUME TypeOK, NEW ch, NEW n, Good(ch, n), StoredPart
  PROVE  Good(ch, n)'
  <1>1. cached' = cached /\ handle' = handle /\ task' = task /\ kept' = kept /\ truncated' = truncated
    BY DEF StoredPart
  <1>2. CachedOK(ch, n)' /\ HandlesOK(ch)' /\ TaskOK(ch, n)'
    BY <1>1 DEF Good, CachedOK, HandlesOK, TaskOK, Freed, End, Working
  <1>3. \A f \in File : Owned(ch[f]) \subseteq Cluster
    BY DEF Good, ChainsOK, Owned
  <1>4. KeptOK(ch)'
    <2> SUFFICES ASSUME NEW f \in File, kept[f] # Nothing
                 PROVE  /\ medium'.dirent[f] = cached.dirent[f]
                        /\ \A c \in Owned(ch[f]) : medium'.fat[c] = cached.fat[c] /\ medium'.data[c] = cached.data[c]
                        /\ Content(medium', f) = kept[f]
      BY <1>1 DEF KeptOK
    <2>1. /\ medium.dirent[f] = cached.dirent[f] /\ Content(medium, f) = kept[f]
          /\ \A c \in Owned(ch[f]) : medium.fat[c] = cached.fat[c] /\ medium.data[c] = cached.data[c]
      BY DEF Good, KeptOK
    <2>2. /\ medium'.dirent[f] = medium.dirent[f]
          /\ \A c \in Owned(ch[f]) : medium'.fat[c] = medium.fat[c] /\ medium'.data[c] = medium.data[c]
      BY <1>3, <2>1 DEF StoredPart
    <2>3. Content(medium', f) = Content(medium, f)
      <3>1. (Exists(medium, f) => Has(medium, f, ch[f], EOF)) /\ medium.dirent[f].size \in Nat
        BY KeptHas
      <3>2. PICK u, v : u = medium' /\ v = medium
        OBVIOUS
      <3>3. Content(u, f) = Content(v, f)
        BY <2>2, <3>1, <3>2, SameContent
      <3> QED BY <3>2, <3>3
    <2> QED BY <2>1, <2>2, <2>3
  <1>5. MediumOK(ch)'
    <2> SUFFICES ASSUME ~ truncated
                 PROVE  /\ \A f \in File : /\ medium'.dirent[f].start \in Owned(ch[f]) \union {0}
                                           /\ \A c \in Owned(ch[f]) : medium'.fat[c] \in Owned(ch[f]) \union {0, EOF}
                        /\ \A c \in Cluster : (\A f \in File : c \notin Owned(ch[f])) => medium'.fat[c] = cached.fat[c]
      BY <1>1 DEF MediumOK
    <2>1. /\ \A f \in File : /\ medium.dirent[f].start \in Owned(ch[f]) \union {0}
                             /\ \A c \in Owned(ch[f]) : medium.fat[c] \in Owned(ch[f]) \union {0, EOF}
          /\ \A c \in Cluster : (\A f \in File : c \notin Owned(ch[f])) => medium.fat[c] = cached.fat[c]
      BY DEF Good, MediumOK
    <2>2. \A f \in File : /\ cached.dirent[f].start \in Owned(ch[f]) \union {0}
                          /\ \A c \in Owned(ch[f]) : cached.fat[c] \in Owned(ch[f]) \union {0, EOF}
      BY CachedStays
    <2> QED BY <1>3, <2>1, <2>2 DEF StoredPart
  <1> QED BY <1>2, <1>4, <1>5 DEF Good, ChainsOK

LEMMA StoresAreParts ==
  ASSUME TypeOK, \/ \E f \in File : StoreDirent(f)
                 \/ \E c \in Cluster : StoreFat(FatBlock[c]) \/ StoreData(c)
  PROVE  StoredPart /\ TypeOK'
  <1>1. cached \in Volume /\ medium \in Volume
    BY DEF TypeOK
  <1>2. ASSUME NEW f \in File, StoreDirent(f) PROVE StoredPart
    <2>1. /\ medium'.fat = medium.fat /\ medium'.data = medium.data
          /\ medium'.dirent = [medium.dirent EXCEPT ![f] = cached.dirent[f]]
          /\ medium' = [dirent |-> medium'.dirent, fat |-> medium'.fat, data |-> medium'.data]
      BY <1>1, <1>2 DEF StoreDirent, Volume
    <2>2. medium'.dirent \in [File -> [start : Cluster \union {0}, size : 0 .. MaxSize]]
      BY <1>1, <2>1 DEF Volume
    <2>3. \A g \in File : medium'.dirent[g] \in {medium.dirent[g], cached.dirent[g]}
      BY <1>1, <2>1 DEF Volume
    <2> QED BY <1>1, <1>2, <2>1, <2>2, <2>3 DEF StoredPart, StoreDirent, Volume
  <1>3. ASSUME NEW b, StoreFat(b) PROVE StoredPart
    <2>1. /\ medium'.dirent = medium.dirent /\ medium'.data = medium.data
          /\ medium'.fat = [c \in Cluster |-> IF FatBlock[c] = b THEN cached.fat[c] ELSE medium.fat[c]]
          /\ medium' = [dirent |-> medium'.dirent, fat |-> medium'.fat, data |-> medium'.data]
      BY <1>1, <1>3 DEF StoreFat, Volume
    <2>2. medium'.fat \in [Cluster -> {0} \union 2 .. EOF]
      BY <1>1, <2>1 DEF Volume
    <2>3. \A c \in Cluster : medium'.fat[c] \in {medium.fat[c], cached.fat[c]}
      BY <2>1
    <2> QED BY <1>1, <1>3, <2>1, <2>2, <2>3 DEF StoredPart, StoreFat, Volume
  <1>4. ASSUME NEW c \in Cluster, StoreData(c) PROVE StoredPart
    <2>1. /\ medium'.fat = medium.fat /\ medium'.dirent = medium.dirent
          /\ medium'.data = [medium.data EXCEPT ![c] = cached.data[c]]
          /\ medium' = [dirent |-> medium'.dirent, fat |-> medium'.fat, data |-> medium'.data]
      BY <1>1, <1>4 DEF StoreData, Volume
    <2>2. medium'.data \in [Cluster -> File \union {Junk}]
      BY <1>1, <2>1 DEF Volume
    <2>3. \A x \in Cluster : medium'.data[x] \in {medium.data[x], cached.data[x]}
      BY <1>1, <2>1 DEF Volume
    <2> QED BY <1>1, <1>4, <2>1, <2>2, <2>3 DEF StoredPart, StoreData, Volume
  <1>5. StoredPart
    BY <1>2, <1>3, <1>4
  <1>6. TypeOK'
    BY <1>5 DEF StoredPart, TypeOK
  <1> QED BY <1>5, <1>6

(* Whatever the medium has of the chains is taken as it is, if it is sound.*)
LEMMA PowerCutOK ==
  ASSUME TypeOK, NEW ch, NEW n, Good(ch, n), PowerCut
  PROVE  TypeOK' /\ (sound' => \E d : Good(d, 0)')
  <1>1. /\ cached' = medium /\ handle' = [f \in File |-> Closed] /\ task' = Idle /\ truncated' = FALSE
        /\ medium' = medium /\ kept' = kept
        /\ sound' = (sound /\ Disjoint(medium) /\ Complete(medium))
    BY DEF PowerCut
  <1>2. TypeOK'
    <2>1. sound' \in BOOLEAN
      BY <1>1
    <2> QED BY <1>1, <2>1 DEF TypeOK
  <1> SUFFICES ASSUME Disjoint(medium), Complete(medium) PROVE \E d : Good(d, 0)'
    BY <1>1, <1>2
  <1>3. medium \in Volume
    BY DEF TypeOK
  <1>4. PICK d : d = [f \in File |-> IF Exists(medium, f) THEN FileChain(medium, f) ELSE <<>>]
    OBVIOUS
  <1>5. ASSUME NEW f \in File
        PROVE  /\ d[f] \in Seq(Cluster) /\ Distinct(d[f]) /\ Chained(medium.fat, d[f], 0, EOF)
               /\ Exists(medium, f) => /\ Len(d[f]) > 0 /\ d[f][1] = medium.dirent[f].start
                                       /\ medium.dirent[f].size <= Len(d[f])
                                       /\ ClustersOf(medium, f) = Owned(d[f])
               /\ ~ Exists(medium, f) => Len(d[f]) = 0 /\ Owned(d[f]) = {}
    <2>1. CASE Exists(medium, f)
      <3>1. PICK c, w : c = medium.dirent[f].start /\ w = Chain(medium, c)
        OBVIOUS
      <3>2. d[f] = w /\ w = FileChain(medium, f)
        BY <2>1, <1>4, <3>1 DEF FileChain
      <3>3. c \in Cluster
        BY <1>3, <2>1, <3>1 DEF Exists, Volume
      <3>4. medium.fat[w[Len(w)]] = EOF /\ medium.dirent[f].size <= Len(w)
        BY <2>1, <3>2 DEF Complete, LastOf
      <3>5. medium.fat \in [Cluster -> {0} \union 2 .. EOF]
        BY <1>3 DEF Volume
      <3>6. w \in Seq(Cluster) /\ Len(w) > 0 /\ w[1] = c /\ Distinct(w) /\ Chained(medium.fat, w, 0, EOF)
        BY <3>1, <3>3, <3>4, <3>5, WalkIsChain
      <3>7. ClustersOf(medium, f) = Owned(w)
        BY <3>2, <3>6 DEF ClustersOf, Owned
      <3> QED BY <2>1, <3>1, <3>2, <3>4, <3>6, <3>7
    <2>2. CASE ~ Exists(medium, f)
      <3>1. d[f] = <<>> /\ Len(d[f]) = 0
        BY <2>2, <1>4
      <3>2. <<>> \in Seq(Cluster)
        OBVIOUS
      <3>3. Chained(medium.fat, d[f], 0, EOF) /\ Distinct(d[f]) /\ Owned(d[f]) = {}
        BY <3>1 DEF Chained, Distinct, Owned
      <3> QED BY <2>2, <3>1, <3>2, <3>3
    <2> QED BY <2>1, <2>2
  <1>6. ChainsOK(d)
    <2>1. d \in [File -> Seq(Cluster)]
      <3>1. DOMAIN d = File /\ d = [f \in File |-> d[f]]
        BY <1>4
      <3> QED BY <3>1, <1>5
    <2>2. ASSUME NEW f \in File, NEW g \in File, f # g PROVE Owned(d[f]) \intersect Owned(d[g]) = {}
      <3>1. CASE Exists(medium, f) /\ Exists(medium, g)
        <4>1. ClustersOf(medium, f) \intersect ClustersOf(medium, g) = {}
          BY <2>2, <3>1 DEF Disjoint
        <4> QED BY <3>1, <4>1, <1>5
      <3>2. CASE ~ Exists(medium, f) \/ ~ Exists(medium, g)
        BY <3>2, <1>5
      <3> QED BY <3>1, <3>2
    <2> QED BY <1>5, <2>1, <2>2 DEF ChainsOK
  <1>7. CachedOK(d, 0)'
    BY <1>1, <1>5 DEF CachedOK, Freed, Working, End, Idle
  <1>8. HandlesOK(d)'
    BY <1>1 DEF HandlesOK, Closed
  <1>9. TaskOK(d, 0)'
    BY <1>1 DEF TaskOK, Idle
  <1>10. KeptOK(d)'
    BY <1>1 DEF Good, KeptOK
  <1>11. MediumOK(d)'
    <2> SUFFICES ASSUME NEW f \in File
                 PROVE  /\ medium.dirent[f].start \in Owned(d[f]) \union {0}
                        /\ \A c \in Owned(d[f]) : medium.fat[c] \in Owned(d[f]) \union {0, EOF}
      BY <1>1 DEF MediumOK
    <2>1. medium.dirent[f].start \in Owned(d[f]) \union {0}
      <3>1. Len(d[f]) \in Nat
        BY <1>5
      <3> QED BY <3>1, <1>5 DEF Exists, Owned
    <2>2. \A c \in Owned(d[f]) : medium.fat[c] \in Owned(d[f]) \union {0, EOF}
      BY <1>5, ChainedStays
    <2> QED BY <2>1, <2>2
  <1> QED BY <1>6, <1>7, <1>8, <1>9, <1>10, <1>11 DEF Good
-----------------------------------------------------------------------------
LEMMA InitOK ==
  ASSUME Init
  PROVE  Inv
  <1>1. /\ cached = [dirent |-> [f \in File |-> NoFile], fat |-> [c \in Cluster |-> 0],
                     data |-> [c \in Cluster |-> Junk]]
        /\ medium = cached /\ handle = [f \in File |-> Closed] /\ task = Idle
        /\ kept = [f \in File |-> Nothing] /\ truncated = FALSE /\ sound = TRUE
    BY DEF Init
  <1>2. /\ cached.dirent = [f \in File |-> NoFile] /\ cached.fat = [c \in Cluster |-> 0]
        /\ cached.data = [c \in Cluster |-> Junk]
    BY <1>1
  <1>3. cached \in Volume
    <2>1. NoFile \in [start : Cluster \union {0}, size : 0 .. MaxSize]
      BY PowerCutAssumption DEF NoFile
    <2>2. /\ cached.dirent \in [File -> [start : Cluster \union {0}, size : 0 .. MaxSize]]
          /\ cached.fat \in [Cluster -> {0} \union 2 .. EOF]
          /\ cached.data \in [Cluster -> File \union {Junk}]
      BY <1>2, <2>1
    <2>3. cached = [dirent |-> cached.dirent, fat |-> cached.fat, data |-> cached.data]
      BY <1>1
    <2> QED BY <2>2, <2>3 DEF Volume
  <1>4. TypeOK
    BY <1>1, <1>3 DEF TypeOK
  <1>5. PICK ch : ch = [f \in File |-> <<>>]
    OBVIOUS
  <1>6. \A f \in File : ch[f] = <<>> /\ Len(ch[f]) = 0 /\ Owned(ch[f]) = {} /\ Distinct(ch[f])
    BY <1>5 DEF Owned, Distinct
  <1>7. ChainsOK(ch)
    <2>1. ch \in [File -> Seq(Cluster)]
      BY <1>5
    <2> QED BY <2>1, <1>6 DEF ChainsOK
  <1>8. \A f \in File : ~ Exists(cached, f)
    BY <1>2 DEF Exists, NoFile
  <1>9. CachedOK(ch, 0)
    BY <1>1, <1>6, <1>8 DEF CachedOK, Chained, Freed, Working, Idle
  <1>10. HandlesOK(ch) /\ TaskOK(ch, 0) /\ KeptOK(ch)
    BY <1>1 DEF HandlesOK, TaskOK, KeptOK, Closed, Idle
  <1>11. MediumOK(ch)
    BY <1>1, <1>6, <1>8 DEF MediumOK, Exists
  <1>12. Good(ch, 0)
    BY <1>7, <1>9, <1>10, <1>11 DEF Good
  <1> QED BY <1>4, <1>12 DEF Inv

LEMMA NextOK ==
  ASSUME Inv, [Next]_vars
  PROVE  Inv'
  <1>1. TypeOK /\ (sound => \E ch, n : Good(ch, n))
    BY DEF Inv
  <1>2. CASE UNCHANGED vars
    <2>1. UNCHANGED <<cached, medium, handle, task, kept, truncated, sound>>
      BY <1>2 DEF vars
    <2>2. TypeOK'
      BY <1>1, <2>1 DEF TypeOK
    <2>3. ASSUME NEW ch, NEW n, Good(ch, n) PROVE Good(ch, n)'
      <3>1. CachedOK(ch, n)' /\ HandlesOK(ch)' /\ TaskOK(ch, n)'
        BY <2>1, <2>3 DEF Good, CachedOK, HandlesOK, TaskOK, Freed, Working, End
      <3>2. KeptOK(ch)' /\ MediumOK(ch)'
        BY <2>1, <2>3 DEF Good, KeptOK, MediumOK
      <3> QED BY <2>3, <3>1, <3>2 DEF Good, ChainsOK
    <2> QED BY <1>1, <2>1, <2>2, <2>3 DEF Inv
  <1>3. ASSUME sound, Call PROVE Inv'
    <2>1. PICK ch, n : Good(ch, n)
      BY <1>1, <1>3
    <2> SUFFICES ASSUME TRUE PROVE TypeOK' /\ \E d, m : Good(d, m)'
      BY DEF Inv
    <2>2. ASSUME NEW f \in File, Open(f) PROVE TypeOK' /\ \E d, m : Good(d, m)'
      BY <1>1, <2>1, <2>2, OpenOK
    <2>3. ASSUME NEW f \in File, Create(f) PROVE TypeOK' /\ \E d, m : Good(d, m)'
      BY <1>1, <2>1, <2>3, CreateOK
    <2>4. ASSUME NEW f \in File, Truncate(f) PROVE TypeOK' /\ \E d, m : Good(d, m)'
      BY <1>1, <2>1, <2>4, TruncateOK
    <2>5. ASSUME NEW f \in File, Remove(f) PROVE TypeOK' /\ \E d, m : Good(d, m)'
      BY <1>1, <2>1, <2>5, RemoveOK
    <2>6. ASSUME NEW f \in File, Overwrite(f) PROVE TypeOK' /\ \E d, m : Good(d, m)'
      BY <1>1, <2>1, <2>6, OverwriteOK
    <2>7. ASSUME NEW f \in File, WriteFirst(f) PROVE TypeOK' /\ \E d, m : Good(d, m)'
      BY <1>1, <2>1, <2>7, WriteFirstOK
    <2>8. ASSUME NEW f \in File, AppendCluster(f) PROVE TypeOK' /\ \E d, m : Good(d, m)'
      BY <1>1, <2>1, <2>8, AppendClusterOK
    <2>9. ASSUME NEW f \in File, Close(f) PROVE TypeOK' /\ \E d, m : Good(d, m)'
      BY <1>1, <2>1, <2>9, CloseOK
    <2>10. ASSUME WriteAppended PROVE TypeOK' /\ \E d, m : Good(d, m)'
      BY <1>1, <2>1, <2>10, WriteAppendedOK
    <2>11. ASSUME Delete PROVE TypeOK' /\ \E d, m : Good(d, m)'
      <3>1. /\ task.op = "delete" /\ UNCHANGED <<medium, kept, truncated, sound>>
            /\ DeleteOne \/ DeleteEntry \/ EndTruncate
        BY <2>11 DEF Delete
      <3>2. CASE DeleteOne
        BY <1>1, <2>1, <3>1, <3>2, DeleteOneOK
      <3>3. CASE DeleteEntry
        BY <1>1, <2>1, <3>1, <3>3, DeleteEntryOK
      <3>4. CASE EndTruncate
        BY <1>1, <2>1, <3>1, <3>4, EndTruncateOK
      <3> QED BY <3>1, <3>2, <3>3, <3>4
    <2>12. ASSUME Flush PROVE TypeOK' /\ \E d, m : Good(d, m)'
      BY <1>1, <2>1, <2>12, FlushOK
    <2> QED BY <1>3, <2>2, <2>3, <2>4, <2>5, <2>6, <2>7, <2>8, <2>9, <2>10, <2>11, <2>12 DEF Call
  <1>4. ASSUME \/ \E f \in File : StoreDirent(f)
               \/ \E c \in Cluster : StoreFat(FatBlock[c]) \/ StoreData(c)
        PROVE  Inv'
    <2>1. StoredPart /\ TypeOK'
      BY <1>1, <1>4, StoresAreParts
    <2>2. sound' = sound
      BY <2>1 DEF StoredPart
    <2>3. ASSUME sound PROVE \E ch, n : Good(ch, n)'
      <3>1. PICK ch, n : Good(ch, n)
        BY <1>1, <2>3
      <3>2. Good(ch, n)'
        BY <1>1, <2>1, <3>1, StoredPartOK
      <3> QED BY <3>2
    <2> QED BY <2>1, <2>2, <2>3 DEF Inv
  <1>5. CASE PowerCut
    <2>1. CASE sound
      <3>1. PICK ch, n : Good(ch, n)
        BY <1>1, <2>1
      <3>2. TypeOK' /\ (sound' => \E d : Good(d, 0)')
        BY <1>1, <1>5, <3>1, PowerCutOK
      <3> QED BY <3>2 DEF Inv
    <2>2. CASE ~ sound
      <3>1. sound' = FALSE /\ TypeOK'
        BY <1>1, <1>5, <2>2 DEF PowerCut, TypeOK
      <3> QED BY <3>1 DEF Inv
    <2> QED BY <2>1, <2>2
  <1> QED BY <1>2, <1>3, <1>4, <1>5 DEF Next

(* The invariant of the proofs: every file has its own chain in the table, *)
(* and the medium no more than parts of them.                              *)
THEOREM PowerCutInvariant == Spec => []Inv
  <1>1. Init => Inv
    BY InitOK
  <1>2. Inv /\ [Next]_vars => Inv'
    BY NextOK
  <1> QED BY <1>1, <1>2, PTL DEF Spec

(* The type invariant, whatever a power cut leaves on the medium.          *)
THEOREM PowerCutTypeOK == Spec => []TypeOK
  <1>1. Inv => TypeOK
    BY DEF Inv
  <1> QED BY <1>1, PowerCutInvariant, PTL

(* What was closed or removed is on the medium as it was then, whatever    *)
(* other files do and whenever the power goes.                             *)
THEOREM ClosedFilesAreKept == Spec => []ClosedIsKept
  <1>1. Inv => ClosedIsKept
    BY DEF Inv, Good, KeptOK, ClosedIsKept
  <1> QED BY <1>1, PowerCutInvariant, PTL

(* No two files on the medium share a cluster, in whatever order the       *)
(* blocks reach it, unless a file was truncated since the last flush.      *)
THEOREM MediumStaysDisjoint == Spec => []MediumDisjoint
  <1>1. ASSUME Inv PROVE MediumDisjoint
    <2> SUFFICES ASSUME sound, ~ truncated PROVE Disjoint(medium)
      BY DEF MediumDisjoint
    <2>1. PICK ch, n : Good(ch, n)
      BY <1>1 DEF Inv
    <2>2. ASSUME NEW f \in File, Exists(medium, f) PROVE ClustersOf(medium, f) \subseteq Owned(ch[f])
      <3>1. /\ medium.dirent[f].start \in Owned(ch[f])
            /\ \A c \in Owned(ch[f]) : medium.fat[c] \in Owned(ch[f]) \union {0, EOF}
        BY <2>1, <2>2 DEF Good, MediumOK, Exists
      <3>2. Stays(medium.fat, Owned(ch[f]))
        BY <3>1 DEF Stays
      <3>3. \A i \in DOMAIN FileChain(medium, f) : FileChain(medium, f)[i] \in Owned(ch[f])
        BY <3>1, <3>2, WalkStays DEF FileChain
      <3> QED BY <3>3 DEF ClustersOf
    <2>3. \A f, g \in File : f # g => Owned(ch[f]) \intersect Owned(ch[g]) = {}
      BY <2>1 DEF Good, ChainsOK
    <2> QED BY <2>2, <2>3 DEF Disjoint
  <1> QED BY <1>1, PowerCutInvariant, PTL
=================================================================================
