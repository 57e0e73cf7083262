----------------------------- MODULE FatFilesProofs -----------------------------
(***************************************************************************)
(* Proofs about FatFiles, for any number of clusters, files and slots, any *)
(* sizes of cbuf and of the stack: chains stay apart, no cluster is lost   *)
(* and the seek tables of open files are right.                            *)
(*                                                                         *)
(* The invariant gives each file a set of clusters of its own (Owns): the  *)
(* table does not lead out of it, no two of its clusters lead to the same  *)
(* one and none to the first, and every copy of a number of a cluster - in *)
(* cbuf, in a slot, in the call under way - is of the set of its file.     *)
(*                                                                         *)
(* For the seek tables the clusters are numbered along the chains as well  *)
(* (Measured): a cluster has one more than the one before it, the last one *)
(* of a file has what the size says, and each entry of a table has in      *)
(* index the number of its cluster.                                        *)
(* A transfer uses the clusters that have the numbers of its positions     *)
(* (TransferOK), if files fit cbuf.                                        *)
(***************************************************************************)
EXTENDS FatFiles, TLAPS, FiniteSetTheorems, SequenceTheorems

(* A set of numbers has a least member: the library's theorem about strict *)
(* subsets, for the sets 1 .. i.                                           *)
LEMMA LeastOf ==
  ASSUME NEW S, S \subseteq Nat, S # {}
  PROVE  \E m \in S : \A j \in S : m <= j
  <1> DEFINE T == {1 .. i : i \in S}
  <1>1. T \subseteq FiniteSubsetsOf(Nat) /\ T # {}
    <2>1. \A i \in S : 1 .. i \subseteq Nat /\ IsFiniteSet(1 .. i)
      BY FS_Interval
    <2> QED BY <2>1 DEF FiniteSubsetsOf
  <1>2. PICK i \in S : \A j \in S : ~ (1 .. j \subseteq 1 .. i /\ 1 .. j # 1 .. i)
    <2>1. PICK x \in T : \A y \in T : ~ (<<y, x>> \in StrictSubsetOrdering(Nat))
      BY <1>1, FS_StrictSubsetOrderingWellFounded, WFMin
    <2>2. PICK i \in S : x = 1 .. i
      OBVIOUS
    <2>3. \A j \in S : 1 .. j \in T /\ 1 .. j \in SUBSET Nat
      OBVIOUS
    <2> QED BY <2>1, <2>2, <2>3 DEF StrictSubsetOrdering
  <1>3. \A j \in S : i <= j
    <2> SUFFICES ASSUME NEW j \in S, j < i PROVE FALSE
      OBVIOUS
    <2>1. 1 .. j \subseteq 1 .. i
      OBVIOUS
    <2>2. i \in 1 .. i /\ i \notin 1 .. j
      OBVIOUS
    <2> QED BY <1>2, <2>1, <2>2
  <1> QED BY <1>3

Step(f, w) == IF f[w[Len(w)]] = EOF THEN w ELSE Append(w, f[w[Len(w)]])

IsWalk(g, f, c, n) == g = [i \in 1 .. n |-> IF i = 1 THEN <<c>> ELSE Step(f, g[i - 1])]

(* The recursion in ChainFrom defines a function.                          *)
LEMMA WalkExists ==
  ASSUME NEW f, NEW c, NEW n \in Nat \ {0}
  PROVE  \E g : IsWalk(g, f, c, n)
  <1> DEFINE Bad == {m \in Nat \ {0} : ~ \E g : IsWalk(g, f, c, m)}
  <1> SUFFICES ASSUME Bad # {} PROVE FALSE
    OBVIOUS
  <1>1. PICK m \in Bad : \A j \in Bad : m <= j
    BY LeastOf, Bad \subseteq Nat
  <1>2. CASE m = 1
    <2>1. IsWalk([i \in 1 .. 1 |-> <<c>>], f, c, 1)
      BY DEF IsWalk
    <2> QED BY <1>2, <2>1
  <1>3. CASE m # 1
    <2>1. m - 1 \in Nat \ {0} /\ m - 1 \notin Bad
      BY <1>1, <1>3
    <2>2. PICK g : IsWalk(g, f, c, m - 1)
      BY <2>1
    <2> DEFINE h == [i \in 1 .. m |-> IF i < m THEN g[i] ELSE Step(f, g[m - 1])]
    <2>3. \A i \in 1 .. m : h[i] = IF i = 1 THEN <<c>> ELSE Step(f, h[i - 1])
      <3> SUFFICES ASSUME NEW i \in 1 .. m
                   PROVE  h[i] = IF i = 1 THEN <<c>> ELSE Step(f, h[i - 1])
        OBVIOUS
      <3>1. CASE i = m
        <4>1. h[i] = Step(f, g[m - 1]) /\ h[m - 1] = g[m - 1]
          BY <3>1, <2>1
        <4> QED BY <3>1, <4>1, <1>3
      <3>2. CASE i < m
        <4>1. i \in 1 .. m - 1
          BY <3>2
        <4>2. g[i] = IF i = 1 THEN <<c>> ELSE Step(f, g[i - 1])
          BY <4>1, <2>2, <2>1 DEF IsWalk
        <4>3. h[i] = g[i] /\ (i # 1 => h[i - 1] = g[i - 1])
          BY <3>2
        <4> QED BY <4>2, <4>3
      <3> QED BY <3>1, <3>2
    <2>4. IsWalk(h, f, c, m)
      <3> HIDE DEF h
      <3>1. h = [i \in 1 .. m |-> h[i]]
        BY DEF h
      <3> QED BY <3>1, <2>3 DEF IsWalk
    <2> QED BY <2>4
  <1> QED BY <1>2, <1>3

(* ChainFrom is the last step of a walk along the chain.                   *)
LEMMA ChainIsWalk ==
  ASSUME NEW f, NEW c, NEW n \in Nat \ {0}
  PROVE  \E g : IsWalk(g, f, c, n) /\ ChainFrom(f, c, n) = g[n]
  <1>1. IsWalk(CHOOSE g : IsWalk(g, f, c, n), f, c, n)
    BY WalkExists
  <1>2. ChainFrom(f, c, n) = (CHOOSE g : IsWalk(g, f, c, n))[n]
    BY Zenon DEF ChainFrom, IsWalk, Step
  <1> QED BY <1>1, <1>2

Follows(f, S, c, n, w) ==
  /\ w \in Seq(S) /\ Len(w) \in 1 .. n /\ w[1] = c
  /\ \A i \in 1 .. Len(w) - 1 : w[i + 1] = f[w[i]]
  /\ Len(w) < n => f[w[Len(w)]] = EOF

(* One more step of a walk.                                                *)
LEMMA StepFollows ==
  ASSUME NEW f, NEW S, NEW c, NEW n \in Nat \ {0}, NEW w, Follows(f, S, c, n, w),
         \A x \in S : f[x] = EOF \/ f[x] \in S
  PROVE  Follows(f, S, c, n + 1, Step(f, w))
  <1> DEFINE e == w[Len(w)]
  <1>1. e \in S /\ Len(w) \in Nat /\ Len(w) >= 1 /\ Len(w) <= n
    BY DEF Follows
  <1>2. CASE f[e] = EOF
    BY <1>1, <1>2 DEF Follows, Step
  <1>3. CASE f[e] # EOF
    <2>1. f[e] \in S /\ Len(w) = n
      BY <1>1, <1>3 DEF Follows
    <2>2. Step(f, w) = Append(w, f[e])
      BY <1>3 DEF Step
    <2> DEFINE v == Append(w, f[e])
    <2>3. v \in Seq(S) /\ Len(v) = n + 1
      BY <2>1 DEF Follows
    <2>4. \A i \in 1 .. n : v[i] = w[i]
      BY <2>1 DEF Follows
    <2>5. v[n + 1] = f[e] /\ e = v[n]
      BY <2>1, <2>4 DEF Follows
    <2>6. \A i \in 1 .. Len(v) - 1 : v[i + 1] = f[v[i]]
      <3> SUFFICES ASSUME NEW i \in 1 .. n PROVE v[i + 1] = f[v[i]]
        BY <2>3
      <3>1. CASE i = n
        BY <3>1, <2>5
      <3>2. CASE i # n
        BY <3>2, <2>4, <2>1 DEF Follows
      <3> QED BY <3>1, <3>2
    <2>7. v[1] = c
      BY <2>4 DEF Follows
    <2> HIDE DEF v
    <2> QED BY <2>2, <2>3, <2>6, <2>7 DEF Follows, v
  <1> QED BY <1>2, <1>3

(* What ChainFrom gives for a set of clusters that the table does not      *)
(* leave.                                                                  *)
LEMMA ChainFollows ==
  ASSUME NEW f, NEW S, NEW c \in S, \A x \in S : f[x] = EOF \/ f[x] \in S,
         NEW n \in Nat \ {0}
  PROVE  Follows(f, S, c, n, ChainFrom(f, c, n))
  <1>1. PICK g : IsWalk(g, f, c, n) /\ ChainFrom(f, c, n) = g[n]
    BY ChainIsWalk
  <1> DEFINE Bad == {i \in 1 .. n : ~ Follows(f, S, c, i, g[i])}
  <1> SUFFICES ASSUME Bad # {} PROVE FALSE
    BY <1>1
  <1>2. PICK m \in Bad : \A j \in Bad : m <= j
    BY LeastOf, Bad \subseteq Nat
  <1>3. g[m] = IF m = 1 THEN <<c>> ELSE Step(f, g[m - 1])
    BY <1>1 DEF IsWalk
  <1>4. CASE m = 1
    <2>1. Follows(f, S, c, 1, <<c>>)
      BY DEF Follows
    <2> QED BY <1>2, <1>3, <1>4, <2>1
  <1>5. CASE m # 1
    <2>1. m - 1 \in 1 .. n /\ m - 1 \in Nat \ {0} /\ m = (m - 1) + 1
      BY <1>5
    <2>2. Follows(f, S, c, m - 1, g[m - 1])
      BY <2>1, <1>2
    <2>3. Follows(f, S, c, (m - 1) + 1, Step(f, g[m - 1]))
      BY <2>1, <2>2, StepFollows
    <2> QED BY <1>2, <1>3, <1>5, <2>1, <2>3
  <1> QED BY <1>4, <1>5
-----------------------------------------------------------------------------
Inside(t, S) == \A c \in S : t[c] = EOF \/ t[c] \in S
Injective(t, S) == \A c, d \in S : t[c] = t[d] => t[c] = EOF \/ c = d
NoPred(t, S, c) == \A x \in S : t[x] # c

Reached(t, S, r) ==
  \A T \in SUBSET Cluster : r \in T /\ (\A x \in T : t[x] \in Cluster => t[x] \in T) => S \subseteq T

(* The numbers of clusters, the entries of the table and the marks.        *)
LEMMA ClusterIs ==
  /\ Cluster \subseteq FatIndex /\ FatIndex \subseteq Nat /\ EOF \notin FatIndex
  /\ 0 \notin Cluster /\ NoChain \notin FatIndex /\ EOF \in Nat /\ EOF # 0
  /\ FatValue = FatIndex \union {EOF}
  BY FatAssumption DEF Cluster, FatIndex, EOF, NoChain, FatValue

(* A walk from a cluster that no other leads to never meets a cluster      *)
(* twice.                                                                  *)
LEMMA RootedIsDistinct ==
  ASSUME NEW t, NEW S \in SUBSET Cluster, NEW c, NEW n \in Nat \ {0}, NEW w, Follows(t, S, c, n, w),
         Injective(t, S), NoPred(t, S, c)
  PROVE  \A i, j \in 1 .. Len(w) : w[i] = w[j] => i = j
  <1> DEFINE Bad == {i \in 1 .. Len(w) : \E j \in 1 .. Len(w) : i < j /\ w[i] = w[j]}
  <1>1. Len(w) \in Nat /\ (\A i \in 1 .. Len(w) : w[i] \in S)
    BY DEF Follows
  <1>2. ASSUME Bad # {} PROVE FALSE
    <2>1. PICK m \in Bad : \A j \in Bad : m <= j
      BY <1>1, <1>2, LeastOf, Bad \subseteq Nat
    <2>2. PICK j \in 1 .. Len(w) : m < j /\ w[m] = w[j]
      OBVIOUS
    <2>3. j - 1 \in 1 .. Len(w) - 1 /\ w[j] = t[w[j - 1]] /\ w[j - 1] \in S /\ w[j] \in S
      <3>1. j - 1 \in 1 .. Len(w) - 1 /\ j - 1 \in 1 .. Len(w) /\ j = (j - 1) + 1
        BY <2>2, <1>1
      <3> QED BY <3>1, <1>1 DEF Follows
    <2>4. m # 1
      BY <2>2, <2>3 DEF Follows, NoPred
    <2>5. m - 1 \in 1 .. Len(w) - 1 /\ m - 1 \in 1 .. Len(w) /\ w[m] = t[w[m - 1]] /\ w[m - 1] \in S
      <3>1. m - 1 \in 1 .. Len(w) - 1 /\ m - 1 \in 1 .. Len(w) /\ m = (m - 1) + 1
        BY <2>4, <1>1
      <3> QED BY <3>1, <1>1 DEF Follows
    <2>6. w[m - 1] = w[j - 1]
      BY <2>2, <2>3, <2>5, ClusterIs DEF Injective
    <2>7. m - 1 \in Bad /\ m - 1 < m
      BY <2>5, <2>6, <2>3, <2>2, <1>1
    <2> QED BY <2>7, <2>1, <1>1
  <1> QED BY <1>2, <1>1

(* A walk stays in the clusters of the file, and finds all of them if all  *)
(* can be reached: there are fewer clusters than steps (the pigeonhole     *)
(* principle), so it ends or repeats itself.                               *)
LEMMA ChainCovers ==
  ASSUME NEW t, NEW S \in SUBSET Cluster, NEW c \in S, Inside(t, S)
  PROVE  LET w == ChainFrom(t, c, LastCluster)
             T == {w[i] : i \in DOMAIN w}
         IN  /\ T \subseteq S
             /\ Reached(t, S, c) => T = S
             /\ w \in Seq(S) /\ Len(w) \in Nat \ {0} /\ w[1] = c
  <1> DEFINE w == ChainFrom(t, c, LastCluster)
             T == {w[i] : i \in DOMAIN w}
  <1>1. Follows(t, S, c, LastCluster, w)
    BY ChainFollows, FatAssumption DEF Inside
  <1> HIDE DEF w
  <1>2. /\ w \in Seq(S) /\ Len(w) \in Nat \ {0} /\ Len(w) <= LastCluster
        /\ DOMAIN w = 1 .. Len(w) /\ (\A i \in 1 .. Len(w) : w[i] \in S)
    BY <1>1, FatAssumption DEF Follows
  <1>3. T \subseteq S
    BY <1>2
  <1>4. ASSUME NEW k \in 1 .. Len(w), t[w[k]] = EOF \/ (\E i \in 1 .. k : w[i] = t[w[k]]),
               Reached(t, S, c)
        PROVE  S \subseteq T
    <2> DEFINE P == {w[i] : i \in 1 .. k}
    <2>1. P \subseteq T /\ P \in SUBSET Cluster /\ c \in P
      BY <1>1, <1>2 DEF Follows
    <2>2. \A x \in P : t[x] \in Cluster => t[x] \in P
      <3> SUFFICES ASSUME NEW i \in 1 .. k, t[w[i]] \in Cluster PROVE t[w[i]] \in P
        OBVIOUS
      <3>1. CASE i = k
        BY <3>1, <1>4, ClusterIs
      <3>2. CASE i # k
        <4>1. i \in 1 .. Len(w) - 1 /\ i + 1 \in 1 .. k
          BY <3>2, <1>2
        <4> QED BY <4>1, <1>1 DEF Follows
      <3> QED BY <3>1, <3>2
    <2> HIDE DEF P
    <2> QED BY <2>1, <2>2, <1>4 DEF Reached
  <1>5. ASSUME Reached(t, S, c) PROVE S \subseteq T
    <2>1. CASE Len(w) < LastCluster
      BY <2>1, <1>1, <1>2, <1>4, <1>5 DEF Follows
    <2>2. CASE Len(w) = LastCluster
      <3>1. IsFiniteSet(1 .. Len(w)) /\ IsFiniteSet(Cluster)
            /\ Cardinality(1 .. Len(w)) = LastCluster /\ Cardinality(Cluster) = LastCluster - 1
        BY <1>2, <2>2, FS_Interval, FatAssumption DEF Cluster
      <3> DEFINE g == [i \in 1 .. Len(w) |-> w[i]]
      <3>2. g \in [1 .. Len(w) -> Cluster] /\ \A i \in 1 .. Len(w) : g[i] = w[i]
        BY <1>2
      <3>3. Cardinality(Cluster) < Cardinality(1 .. Len(w))
        BY <3>1, FatAssumption
      <3>4. \E x, y \in 1 .. Len(w) : x # y /\ w[x] = w[y]
        <4> HIDE DEF g
        <4>1. \E x, y \in 1 .. Len(w) : x # y /\ g[x] = g[y]
          BY ONLY <3>1, <3>2, <3>3, FS_PigeonHole
        <4> QED BY <4>1, <3>2
      <3>5. PICK x, y \in 1 .. Len(w) : x < y /\ w[x] = w[y]
        BY <3>4, <1>2
      <3>6. y - 1 \in 1 .. Len(w) - 1 /\ y - 1 \in 1 .. Len(w) /\ x \in 1 .. y - 1 /\ y = (y - 1) + 1
        BY <3>5, <1>2
      <3>7. w[x] = t[w[y - 1]]
        BY <3>5, <3>6, <1>1 DEF Follows
      <3> QED BY <3>6, <3>7, <1>4, <1>5
    <2>3. Len(w) < LastCluster \/ Len(w) = LastCluster
      <3> DEFINE L == Len(w)
      <3>1. L \in Nat /\ L <= LastCluster /\ LastCluster \in Nat
        BY <1>2, FatAssumption
      <3> HIDE DEF L
      <3>2. L < LastCluster \/ L = LastCluster
        BY ONLY <3>1
      <3> QED BY <3>2 DEF L
    <2> QED BY ONLY <2>1, <2>2, <2>3
  <1> QED BY <1>1, <1>2, <1>3, <1>5 DEF w, Follows
-----------------------------------------------------------------------------
(* The first n clusters of cbuf are of S, in the order of the chain: what  *)
(* leads to one of them is the one before, and none but the first may be   *)
(* the start st of the chain.                                              *)
Buffered(t, S, st, buf, n) ==
  \A i \in 1 .. n : buf[i] \in S /\ (i > 1 => buf[i] # st /\ \A x \in S : t[x] = buf[i] => x = buf[i - 1])

FromRoot(c, buf, n) == buf[1] = c /\ \A i, j \in 1 .. n : buf[i] = buf[j] => i = j

Forward(t, buf, n) == \A i \in 1 .. n - 1 : buf[i + 1] = t[buf[i]]

Filled(w, old) == [i \in 1 .. BufSize |-> IF i <= Len(w) THEN w[i] ELSE old[i]]

(* A walk that is copied into cbuf is the beginning of the chain there.    *)
LEMMA ChainBuffered ==
  ASSUME NEW t, NEW S \in SUBSET Cluster, Inside(t, S), Injective(t, S), NEW st, NoPred(t, S, st),
         NEW w \in Seq(S), Len(w) \in 1 .. BufSize, Forward(t, w, Len(w)),
         NEW old \in [1 .. BufSize -> FatIndex]
  PROVE  /\ Filled(w, old) \in [1 .. BufSize -> FatIndex]
         /\ Buffered(t, S, st, Filled(w, old), Len(w))
         /\ Forward(t, Filled(w, old), Len(w))
         /\ \A c : FromRoot(c, w, Len(w)) => FromRoot(c, Filled(w, old), Len(w))
         /\ \A i \in 1 .. Len(w) : Filled(w, old)[i] = w[i]
  <1> DEFINE b == Filled(w, old)
             L == Len(w)
  <1>1. L \in Nat /\ L >= 1 /\ L <= BufSize /\ BufSize \in Nat
    BY FatAssumption
  <1>2. \A i \in 1 .. L : w[i] \in S
    OBVIOUS
  <1>3. b \in [1 .. BufSize -> FatIndex]
    <2>1. \A i \in 1 .. BufSize : (IF i <= L THEN w[i] ELSE old[i]) \in FatIndex
      <3>1. \A i \in 1 .. L : w[i] \in FatIndex
        BY <1>2, ClusterIs
      <3> HIDE DEF L
      <3>2. ASSUME NEW i \in 1 .. BufSize PROVE i <= L => i \in 1 .. L
        BY <1>1
      <3> QED BY <3>1, <3>2
    <2> QED BY <2>1 DEF Filled
  <1>4. \A i \in 1 .. L : b[i] = w[i]
    BY <1>1 DEF Filled
  <1> HIDE DEF b
  <1>5. Buffered(t, S, st, b, L)
    <2> SUFFICES ASSUME NEW i \in 1 .. L
                 PROVE  /\ b[i] \in S
                        /\ i > 1 => b[i] # st /\ \A x \in S : t[x] = b[i] => x = b[i - 1]
      BY DEF Buffered
    <2>1. CASE i = 1
      BY <2>1, <1>2, <1>4
    <2>2. CASE i # 1
      <3>1. i - 1 \in 1 .. L - 1 /\ i - 1 \in 1 .. L /\ i = (i - 1) + 1
        BY <2>2, <1>1
      <3>2. b[i] = t[b[i - 1]] /\ b[i - 1] \in S /\ b[i] \in S
        BY <3>1, <1>2, <1>4 DEF Forward
      <3> QED BY <3>2, ClusterIs DEF NoPred, Injective
    <2> QED BY <2>1, <2>2
  <1>6. Forward(t, b, L)
    <2> SUFFICES ASSUME NEW i \in 1 .. L - 1 PROVE b[i + 1] = t[b[i]]
      BY DEF Forward
    <2>1. i \in 1 .. L /\ i + 1 \in 1 .. L
      BY <1>1
    <2> QED BY <2>1, <1>4 DEF Forward
  <1>7. ASSUME NEW c, FromRoot(c, w, L) PROVE FromRoot(c, b, L)
    BY <1>1, <1>4, <1>7 DEF FromRoot
  <1> QED BY <1>3, <1>4, <1>5, <1>6, <1>7 DEF b

(* The same walk without its first cluster.                                *)
LEMMA TailFollows ==
  ASSUME NEW t, NEW S, NEW c, NEW n \in Nat \ {0}, NEW v, Follows(t, S, c, n + 1, v)
  PROVE  /\ Tail(v) \in Seq(S) /\ Len(Tail(v)) \in 0 .. n
         /\ Forward(t, Tail(v), Len(Tail(v)))
         /\ Len(Tail(v)) \in 1 .. n - 1 => t[Tail(v)[Len(Tail(v))]] = EOF
  <1> DEFINE L == Len(v)
             u == Tail(v)
  <1>1. v \in Seq(S) /\ L \in Nat /\ L >= 1 /\ L <= n + 1
    BY DEF Follows
  <1>2. u \in Seq(S) /\ Len(u) = L - 1 /\ \A i \in 1 .. L - 1 : u[i] = v[i + 1]
    <2>1. v # <<>>
      BY <1>1
    <2> QED BY <1>1, <2>1, HeadTailProperties
  <1> HIDE DEF L, u
  <1>3. Forward(t, u, L - 1)
    <2> SUFFICES ASSUME NEW i \in 1 .. (L - 1) - 1 PROVE u[i + 1] = t[u[i]]
      BY DEF Forward
    <2>1. i \in 1 .. L - 1 /\ i + 1 \in 1 .. L - 1 /\ i + 1 \in 1 .. L
      BY <1>1
    <2> QED BY <2>1, <1>2 DEF Follows, L
  <1>4. ASSUME Len(u) \in 1 .. n - 1 PROVE t[u[Len(u)]] = EOF
    <2>1. L - 1 \in 1 .. L - 1 /\ (L - 1) + 1 = L /\ L < n + 1
      BY <1>1, <1>2, <1>4
    <2>2. t[v[L]] = EOF
      BY <2>1 DEF Follows, L
    <2> QED BY <1>2, <2>1, <2>2
  <1> QED BY <1>1, <1>2, <1>3, <1>4 DEF u

(* What fat_getClusterChain leaves in cbuf.  One that is about the last    *)
(* cluster of a chain and without it leaves what was there.                *)
LEMMA GotChain ==
  ASSUME NEW S \in SUBSET Cluster, Inside(fat, S), Injective(fat, S),
         NEW st, NoPred(fat, S, st), NEW c \in S, NEW start \in BOOLEAN,
         cbuf \in [1 .. BufSize -> FatIndex],
         c = lastChain => lastResult \in 0 .. BufSize - 1,
         c = lastChain => Buffered(fat, S, st, cbuf, ChainSize(lastResult)),
         c # lastChain /\ ~ start => Buffered(fat, S, st, cbuf, BufSize)
  PROVE  LET got == GetClusterChain(c, start)
             n == ChainSize(got.result)
         IN  /\ got.buf \in [1 .. BufSize -> FatIndex]
             /\ got.result \in 0 .. BufSize - 1
             /\ Buffered(fat, S, st, got.buf, n)
             /\ (/\ start /\ NoPred(fat, S, c)
                 /\ c = lastChain => FromRoot(c, cbuf, ChainSize(lastResult)))
                => FromRoot(c, got.buf, n)
             /\ (/\ c = lastChain => /\ Forward(fat, cbuf, ChainSize(lastResult))
                                     /\ lastResult # 0 => fat[cbuf[lastResult]] = EOF
                 /\ c # lastChain /\ ~ start => Forward(fat, cbuf, BufSize))
                => /\ Forward(fat, got.buf, n)
                   /\ got.result # 0 => fat[got.buf[got.result]] = EOF
  <1> DEFINE got == GetClusterChain(c, start)
             n == ChainSize(got.result)
  <1>1. CASE c = lastChain
    <2>1. got = [buf |-> cbuf, result |-> lastResult]
      BY <1>1 DEF GetClusterChain
    <2>2. got.buf = cbuf /\ got.result = lastResult /\ n = ChainSize(lastResult)
      BY <2>1
    <2> HIDE DEF got, n
    <2>3. /\ got.buf \in [1 .. BufSize -> FatIndex] /\ got.result \in 0 .. BufSize - 1
          /\ Buffered(fat, S, st, got.buf, n)
          /\ (FromRoot(c, cbuf, ChainSize(lastResult)) => FromRoot(c, got.buf, n))
          /\ (Forward(fat, cbuf, ChainSize(lastResult)) => Forward(fat, got.buf, n))
          /\ ((lastResult # 0 => fat[cbuf[lastResult]] = EOF)
                => (got.result # 0 => fat[got.buf[got.result]] = EOF))
      BY <1>1, <2>2
    <2> QED BY <1>1, <2>3 DEF got, n
  <1>2. CASE c # lastChain
    <2> DEFINE w == IF start THEN ChainFrom(fat, c, BufSize)
                             ELSE Tail(ChainFrom(fat, c, BufSize + 1))
               L == Len(w)
               r == IF L = BufSize THEN 0 ELSE L
    <2>1. got = [buf |-> Filled(w, cbuf), result |-> r]
      BY <1>2 DEF GetClusterChain, Filled
    <2>2. /\ w \in Seq(S) /\ L \in 0 .. BufSize /\ Forward(fat, w, L)
          /\ start => L # 0 /\ w[1] = c
          /\ L \in 1 .. BufSize - 1 => fat[w[L]] = EOF
          /\ start /\ NoPred(fat, S, c) => FromRoot(c, w, L)
      <3>0. BufSize \in Nat \ {0} /\ BufSize + 1 \in Nat \ {0}
        BY FatAssumption
      <3>1. CASE start
        <4>1. w = ChainFrom(fat, c, BufSize)
          BY <3>1
        <4> HIDE DEF w
        <4>2. Follows(fat, S, c, BufSize, w)
          BY <3>0, <4>1, ChainFollows DEF Inside
        <4>3. NoPred(fat, S, c) => FromRoot(c, w, L)
          BY <3>0, <4>2, RootedIsDistinct DEF Follows, FromRoot
        <4> QED BY <3>0, <3>1, <4>2, <4>3 DEF Follows, Forward
      <3>2. CASE ~ start
        <4> DEFINE v == ChainFrom(fat, c, BufSize + 1)
        <4>1. Follows(fat, S, c, BufSize + 1, v)
          BY <3>0, ChainFollows DEF Inside
        <4>2. w = Tail(v)
          BY <3>2
        <4> HIDE DEF v, w
        <4> QED BY <3>0, <3>2, <4>1, <4>2, TailFollows
      <3> QED BY <3>1, <3>2
    <2> HIDE DEF w
    <2>3. CASE L = 0
      <3>1. ~ start /\ r = 0 /\ ChainSize(r) = BufSize
        BY <2>2, <2>3, FatAssumption DEF ChainSize
      <3>2. Filled(w, cbuf) = cbuf
        BY <2>3 DEF Filled
      <3>3. got.buf = cbuf /\ got.result = 0 /\ n = BufSize
        BY <2>1, <3>1, <3>2
      <3> HIDE DEF got, n, L, r
      <3>4. 0 \in 0 .. BufSize - 1
        BY FatAssumption
      <3> QED BY <1>2, <3>1, <3>3, <3>4 DEF got, n
    <2>4. CASE L # 0
      <3>1. /\ L \in 1 .. BufSize /\ r \in 0 .. BufSize - 1 /\ ChainSize(r) = L
            /\ r # 0 => r = L /\ L \in 1 .. BufSize - 1
        BY <2>2, <2>4, FatAssumption DEF ChainSize
      <3> HIDE DEF got, L, r
      <3>2. /\ Filled(w, cbuf) \in [1 .. BufSize -> FatIndex]
            /\ Buffered(fat, S, st, Filled(w, cbuf), L)
            /\ Forward(fat, Filled(w, cbuf), L)
            /\ (\A x : FromRoot(x, w, L) => FromRoot(x, Filled(w, cbuf), L))
            /\ \A i \in 1 .. L : Filled(w, cbuf)[i] = w[i]
        BY <2>2, <3>1, ChainBuffered DEF L
      <3>3. r # 0 => fat[Filled(w, cbuf)[r]] = EOF
        BY <2>2, <3>1, <3>2
      <3>4. start /\ NoPred(fat, S, c) => FromRoot(c, Filled(w, cbuf), L)
        BY <2>2, <3>2
      <3>5. got.buf = Filled(w, cbuf) /\ got.result = r /\ n = L
        BY <2>1, <3>1 DEF n
      <3> HIDE DEF got, n
      <3> QED BY <1>2, <3>1, <3>2, <3>3, <3>4, <3>5 DEF got, n
    <2> QED BY <2>3, <2>4
  <1> QED BY <1>1, <1>2
-----------------------------------------------------------------------------
(* What happens to the clusters S of a file when the table changes from t  *)
(* to u: nothing, if its entries stay.                                     *)
LEMMA SameChain ==
  ASSUME NEW t, NEW u, NEW S \in SUBSET Cluster, \A x \in S : u[x] = t[x], Inside(t, S)
  PROVE  /\ Inside(u, S)
         /\ Injective(t, S) => Injective(u, S)
         /\ \A c : NoPred(t, S, c) => NoPred(u, S, c)
         /\ \A st, buf, n : Buffered(t, S, st, buf, n) => Buffered(u, S, st, buf, n)
         /\ \A r \in S : Reached(t, S, r) => Reached(u, S, r)
  <1>1. Inside(u, S) /\ (Injective(t, S) => Injective(u, S))
    BY DEF Inside, Injective
  <1>2. ASSUME NEW c, NoPred(t, S, c) PROVE NoPred(u, S, c)
    BY <1>2 DEF NoPred
  <1>3. ASSUME NEW st, NEW buf, NEW n, Buffered(t, S, st, buf, n) PROVE Buffered(u, S, st, buf, n)
    BY <1>3 DEF Buffered
  <1>4. ASSUME NEW r \in S, Reached(t, S, r) PROVE Reached(u, S, r)
    <2> SUFFICES ASSUME NEW T \in SUBSET Cluster, r \in T, \A x \in T : u[x] \in Cluster => u[x] \in T
                 PROVE  S \subseteq T
      BY DEF Reached
    <2> DEFINE P == T \intersect S
    <2>1. P \in SUBSET Cluster /\ r \in P
      OBVIOUS
    <2>2. \A x \in P : t[x] \in Cluster => t[x] \in P
      BY ClusterIs DEF Inside
    <2>3. S \subseteq P
      BY <1>4, <2>1, <2>2 DEF Reached
    <2> QED BY <2>3
  <1> QED BY <1>1, <1>2, <1>3, <1>4

(* A cluster c of no file is linked behind cluster cur of S.               *)
LEMMA GrownChain ==
  ASSUME NEW t, NEW u, NEW S \in SUBSET Cluster, Inside(t, S), NEW cur \in S,
         NEW c \in Cluster, c \notin S,
         u[cur] = c, u[c] = EOF, \A x \in S \ {cur} : u[x] = t[x]
  PROVE  /\ Inside(u, S \union {c})
         /\ Injective(t, S) => Injective(u, S \union {c})
         /\ \A st : NoPred(t, S, st) /\ st # c /\ st # EOF => NoPred(u, S \union {c}, st)
         /\ \A st, buf, n : Buffered(t, S, st, buf, n) => Buffered(u, S \union {c}, st, buf, n)
         /\ \A r \in S : Reached(t, S, r) /\ t[cur] = EOF => Reached(u, S \union {c}, r)
  <1> DEFINE Q == S \union {c}
  <1>0. c # EOF /\ c # cur /\ EOF \notin Cluster
    BY ClusterIs
  <1>1. Inside(u, Q)
    BY <1>0 DEF Inside
  <1>2. ASSUME Injective(t, S) PROVE Injective(u, Q)
    <2> SUFFICES ASSUME NEW x \in Q, NEW y \in Q, u[x] = u[y], u[x] # EOF PROVE x = y
      BY DEF Injective
    <2>1. x \in S /\ y \in S
      OBVIOUS
    <2>2. \A z \in S \ {cur} : u[z] # c
      BY <1>0 DEF Inside
    <2> QED BY <1>2, <2>1, <2>2 DEF Injective
  <1>3. ASSUME NEW st, NoPred(t, S, st), st # c, st # EOF PROVE NoPred(u, Q, st)
    BY <1>3 DEF NoPred
  <1>4. ASSUME NEW st, NEW buf, NEW n, Buffered(t, S, st, buf, n) PROVE Buffered(u, Q, st, buf, n)
    <2> SUFFICES ASSUME NEW i \in 1 .. n
                 PROVE  /\ buf[i] \in Q
                        /\ i > 1 => buf[i] # st /\ \A x \in Q : u[x] = buf[i] => x = buf[i - 1]
      BY DEF Buffered
    <2>1. buf[i] \in S /\ (i > 1 => buf[i] # st /\ \A x \in S : t[x] = buf[i] => x = buf[i - 1])
      BY <1>4 DEF Buffered
    <2>2. \A x \in Q : u[x] = buf[i] => x \in S /\ t[x] = buf[i]
      BY <1>0, <2>1
    <2> QED BY <2>1, <2>2
  <1>5. ASSUME NEW r \in S, Reached(t, S, r), t[cur] = EOF PROVE Reached(u, Q, r)
    <2> SUFFICES ASSUME NEW T \in SUBSET Cluster, r \in T, \A x \in T : u[x] \in Cluster => u[x] \in T
                 PROVE  Q \subseteq T
      BY DEF Reached
    <2> DEFINE P == T \intersect S
    <2>1. P \in SUBSET Cluster /\ r \in P
      OBVIOUS
    <2>2. \A x \in P : t[x] \in Cluster => t[x] \in P
      BY <1>0, <1>5 DEF Inside
    <2>3. S \subseteq P
      BY <1>5, <2>1, <2>2 DEF Reached
    <2> QED BY <2>3
  <1> QED BY <1>1, <1>2, <1>3, <1>4, <1>5

(* The first n - 1 clusters of the chain of S are freed, the last one that *)
(* was read is its start from then on.                                     *)
LEMMA ShrunkChain ==
  ASSUME NEW t, NEW u, NEW S \in SUBSET Cluster, Inside(t, S), Injective(t, S),
         NEW c, NoPred(t, S, c), NEW st, NEW buf, NEW n \in Nat, n >= 2,
         Buffered(t, S, st, buf, n), FromRoot(c, buf, n),
         NEW D, D = {buf[i] : i \in 1 .. n - 1}, \A x \in S \ D : u[x] = t[x]
  PROVE  /\ buf[n] \in S \ D
         /\ Inside(u, S \ D) /\ Injective(u, S \ D)
         /\ NoPred(u, S \ D, buf[n])
         /\ NoPred(t, S, st) => NoPred(u, S \ D, st)
         /\ Forward(t, buf, n) /\ Reached(t, S, c) => Reached(u, S \ D, buf[n])
  <1> DEFINE R == S \ D
  <1>1. n \in 1 .. n /\ n - 1 \in 1 .. n - 1 /\ n > 1
    OBVIOUS
  <1>2. buf[n] \in R
    <2>1. buf[n] \in S
      BY <1>1 DEF Buffered
    <2>2. ASSUME NEW i \in 1 .. n - 1, buf[n] = buf[i] PROVE FALSE
      <3>1. i \in 1 .. n /\ i # n
        OBVIOUS
      <3> QED BY <1>1, <2>2, <3>1 DEF FromRoot
    <2> QED BY <2>1, <2>2
  <1>3. \A x \in R : t[x] \notin D
    <2> SUFFICES ASSUME NEW x \in R, NEW i \in 1 .. n - 1, t[x] = buf[i] PROVE FALSE
      OBVIOUS
    <2>1. CASE i = 1
      BY <2>1 DEF FromRoot, NoPred
    <2>2. CASE i # 1
      <3>1. i \in 1 .. n /\ i > 1 /\ i - 1 \in 1 .. n - 1
        BY <2>2
      <3>2. x = buf[i - 1]
        BY <3>1 DEF Buffered
      <3> QED BY <3>1, <3>2
    <2> QED BY <2>1, <2>2
  <1>4. Inside(u, R) /\ Injective(u, R)
    BY <1>3 DEF Inside, Injective
  <1>5. NoPred(u, R, buf[n])
    <2> SUFFICES ASSUME NEW x \in R, u[x] = buf[n] PROVE FALSE
      BY DEF NoPred
    <2>1. x = buf[n - 1]
      BY <1>1 DEF Buffered
    <2> QED BY <1>1, <2>1
  <1>6. NoPred(t, S, st) => NoPred(u, R, st)
    BY DEF NoPred
  <1>7. ASSUME Forward(t, buf, n), Reached(t, S, c) PROVE Reached(u, R, buf[n])
    <2> SUFFICES ASSUME NEW T \in SUBSET Cluster, buf[n] \in T,
                        \A x \in T : u[x] \in Cluster => u[x] \in T
                 PROVE  R \subseteq T
      BY DEF Reached
    <2> DEFINE P == D \union (T \intersect R)
    <2>1. P \in SUBSET Cluster
      <3>1. \A i \in 1 .. n - 1 : i \in 1 .. n
        OBVIOUS
      <3> QED BY <3>1 DEF Buffered
    <2>2. c \in P
      <3>1. 1 \in 1 .. n - 1
        OBVIOUS
      <3> QED BY <3>1 DEF FromRoot
    <2>3. \A x \in P : t[x] \in Cluster => t[x] \in P
      <3>1. ASSUME NEW i \in 1 .. n - 1 PROVE t[buf[i]] \in P
        <4>1. t[buf[i]] = buf[i + 1]
          BY <1>7 DEF Forward
        <4>2. CASE i = n - 1
          <5>1. i + 1 = n
            BY <4>2
          <5> QED BY <4>1, <5>1, <1>2
        <4>3. CASE i # n - 1
          <5>1. i + 1 \in 1 .. n - 1
            BY <4>3
          <5> QED BY <4>1, <5>1
        <4> QED BY <4>2, <4>3
      <3>2. ASSUME NEW x \in T \intersect R, t[x] \in Cluster PROVE t[x] \in P
        BY <3>2, ClusterIs DEF Inside
      <3> QED BY <3>1, <3>2
    <2> HIDE DEF P
    <2>4. S \subseteq P
      BY <1>7, <2>1, <2>2, <2>3 DEF Reached
    <2> QED BY <2>4 DEF P
  <1> QED BY <1>2, <1>4, <1>5, <1>6, <1>7

(* A chain that was read to its end was read completely.                   *)
LEMMA WholeChain ==
  ASSUME NEW t, NEW S \in SUBSET Cluster, NEW c, Reached(t, S, c), NEW st, NEW buf,
         NEW n \in Nat, n >= 1, Buffered(t, S, st, buf, n), buf[1] = c,
         Forward(t, buf, n), t[buf[n]] = EOF
  PROVE  S \subseteq {buf[i] : i \in 1 .. n}
  <1> DEFINE P == {buf[i] : i \in 1 .. n}
  <1>1. P \in SUBSET Cluster
    BY DEF Buffered
  <1>2. c \in P
    OBVIOUS
  <1>3. \A x \in P : t[x] \in Cluster => t[x] \in P
    <2> SUFFICES ASSUME NEW i \in 1 .. n, t[buf[i]] \in Cluster PROVE t[buf[i]] \in P
      OBVIOUS
    <2>1. CASE i = n
      BY <2>1, ClusterIs
    <2>2. CASE i # n
      <3>1. i \in 1 .. n - 1 /\ i + 1 \in 1 .. n
        BY <2>2
      <3> QED BY <3>1 DEF Forward
    <2> QED BY <2>1, <2>2
  <1> HIDE DEF P
  <1> QED BY <1>1, <1>2, <1>3 DEF Reached, P
-----------------------------------------------------------------------------
(* The clusters of each file, own: what its chain consists of, and what    *)
(* was behind it when a write ran out of space.                            *)
Deleting(f) == task.op = "delete" /\ task.file = f

Root(f) == IF Deleting(f) THEN task.cluster ELSE dirent[f].start

OwnersOK(own) ==
  /\ own \in [File -> SUBSET Cluster]
  /\ \A f, g \in File : f # g => own[f] \intersect own[g] = {}
  /\ \A f \in File : /\ Inside(fat, own[f]) /\ Injective(fat, own[f])
                     /\ NoPred(fat, own[f], dirent[f].start)
                     /\ own[f] \intersect clStack = {}

StartsOK(own) ==
  \A f \in File : Exists(f) =>
    /\ dirent[f].start \notin clStack
    /\ \A g \in File \ {f} : dirent[f].start \notin own[g]
    /\ ~ Deleting(f) => dirent[f].start \in own[f]

CacheOf(own, f) ==
  /\ lastChain \in own[f]
  /\ Buffered(fat, own[f], dirent[f].start, cbuf, ChainSize(lastResult))
  /\ lastChain = dirent[f].start => FromRoot(lastChain, cbuf, ChainSize(lastResult))

CacheOK(own) ==
  lastChain \in Cluster => lastResult \in 0 .. BufSize - 1 /\ \E f \in File : CacheOf(own, f)

HandleOK(own, h) ==
  /\ Exists(h.file) /\ ~ Deleting(h.file)
  /\ h.lastCluster \in own[h.file]
  /\ \A j \in Seek : h.chain[j].cluster \in own[h.file]
  /\ h.chain[0].index = 0

HandlesOK(own) == \A s \in Slot : handle[s].open => HandleOK(own, handle[s])

OpenOnce ==
  \A s, t \in Slot : s # t /\ handle[s].open /\ handle[t].open => handle[s].file # handle[t].file

TaskOK(own) ==
  /\ task.op \in {"table", "grow", "io"} => handle[task.slot].open
  /\ task.op = "table" => task.cluster \in own[handle[task.slot].file]
  /\ task.op = "grow" => /\ task.cur \in own[handle[task.slot].file]
                         /\ task.size # 0 /\ task.pos + task.size <= MaxSize
  /\ task.op = "io" =>
       /\ task.cluster \in own[handle[task.slot].file]
       /\ ~ task.start /\ task.cluster # lastChain =>
            /\ lastChain \in own[handle[task.slot].file]
            /\ lastResult = 0 /\ task.cluster = cbuf[BufSize]
  /\ task.op = "delete" =>
       /\ task.cluster \in own[task.file]
       /\ NoPred(fat, own[task.file], task.cluster)
       /\ task.truncate # 0 <=> Exists(task.file)
       /\ task.cluster = lastChain => FromRoot(lastChain, cbuf, ChainSize(lastResult))

(* As long as no write ran out of space these clusters are the chains, and *)
(* no others are in use.                                                   *)
AllOwned(own) == \A c \in Cluster : fat[c] # 0 => \E f \in File : c \in own[f]

AllReached(own) ==
  \A f \in File : IF Exists(f) \/ Deleting(f) THEN Reached(fat, own[f], Root(f)) ELSE own[f] = {}

Changing(s) == task.op \in {"table", "grow"} /\ task.slot = s

EndsOK ==
  /\ \A s \in Slot : handle[s].open /\ ~ Changing(s) => fat[handle[s].lastCluster] = EOF
  /\ task.op = "grow" => fat[task.cur] = EOF

CacheIsChain ==
  lastChain \in Cluster => /\ Forward(fat, cbuf, ChainSize(lastResult))
                           /\ lastResult # 0 => fat[cbuf[lastResult]] = EOF

Lossless(own) ==
  ~ ranOut => /\ AllOwned(own) /\ AllReached(own) /\ EndsOK
              /\ task.op # "grow" => CacheIsChain

Owns(own) ==
  OwnersOK(own) /\ StartsOK(own) /\ CacheOK(own) /\ HandlesOK(own) /\ OpenOnce
  /\ TaskOK(own) /\ Lossless(own)

FilesInv == TypeOK /\ \E own : Owns(own)
-----------------------------------------------------------------------------
(* What the call under way is called says what it consists of.             *)
LEMMA TaskIs ==
  ASSUME TypeOK
  PROVE  /\ task.op \in {"none", "table", "grow", "io", "delete"}
         /\ task.op = "none" <=> task = Idle
         /\ task.op = "table" => task \in TableTask
         /\ task.op = "grow" => task \in GrowTask
         /\ task.op = "io" => task \in IOTask
         /\ task.op = "delete" => task \in DeleteTask
  BY DEF TypeOK, Task, Idle, TableTask, GrowTask, IOTask, DeleteTask

(* A slot is open or closed.                                               *)
LEMMA OpenIs ==
  ASSUME TypeOK, NEW s \in Slot
  PROVE  /\ handle[s].open => handle[s] \in OpenFile
         /\ ~ handle[s].open => handle[s] = Closed
  <1>1. CASE handle[s] \in OpenFile
    BY <1>1 DEF OpenFile
  <1>2. CASE handle[s] = Closed
    BY <1>2 DEF Closed
  <1> QED BY <1>1, <1>2 DEF TypeOK

(* A slot that was just filled is an open file.                            *)
LEMMA NewHandleIs ==
  ASSUME NEW f \in File, NEW c \in FatIndex, NEW n \in Size
  PROVE  NewHandle(f, c, n) \in OpenFile
  BY DEF NewHandle, OpenFile, SeekRecord, Position

(* A cluster of a file is of no other.                                     *)
LEMMA Owner ==
  ASSUME NEW own, OwnersOK(own), NEW f \in File, NEW c \in own[f]
  PROVE  c \in Cluster /\ c \in FatIndex /\ \A g \in File : c \in own[g] => g = f
  BY ClusterIs DEF OwnersOK

(* What a step that leaves the table, cbuf and the stack leaves.           *)
LEMMA OwnersStay ==
  ASSUME NEW own, OwnersOK(own), StartsOK(own), UNCHANGED <<fat, clStack>>,
         \A f \in File : dirent'[f].start \in {dirent[f].start, 0},
         \A f \in File : Deleting(f) => Deleting(f)'
  PROVE  OwnersOK(own)' /\ StartsOK(own)'
  <1>1. \A f \in File : NoPred(fat, own[f], 0)
    <2> SUFFICES ASSUME NEW f \in File, NEW x \in own[f], fat[x] = 0 PROVE FALSE
      BY DEF NoPred
    <2>1. fat[x] = EOF \/ fat[x] \in Cluster
      BY DEF OwnersOK, Inside
    <2> QED BY <2>1, ClusterIs
  <1>2. OwnersOK(own)'
    <2>1. \A f \in File : NoPred(fat, own[f], dirent'[f].start)
      BY <1>1 DEF OwnersOK
    <2> QED BY <2>1 DEF OwnersOK
  <1>3. StartsOK(own)'
    BY DEF StartsOK, Exists
  <1> QED BY <1>2, <1>3

(* A step that leaves the table and cbuf leaves cbuf good.                 *)
LEMMA CacheStays ==
  ASSUME NEW own, OwnersOK(own), CacheOK(own), UNCHANGED <<fat, chainVars>>,
         \A f \in File : dirent'[f].start \in {dirent[f].start, 0}
  PROVE  CacheOK(own)'
  <1> SUFFICES ASSUME lastChain \in Cluster PROVE CacheOK(own)'
    BY DEF CacheOK, chainVars
  <1>1. PICK f \in File : CacheOf(own, f)
    BY DEF CacheOK
  <1>2. \A i \in 1 .. ChainSize(lastResult) : cbuf[i] # 0
    BY <1>1, ClusterIs DEF CacheOf, Buffered, OwnersOK
  <1>3. CacheOf(own, f)'
    BY <1>1, <1>2, ClusterIs DEF CacheOf, Buffered, chainVars
  <1> QED BY <1>3 DEF CacheOK, chainVars
(* What a call that reads a buffer of the chain of f finds in cbuf, and    *)
(* that cbuf is still good with it.                                        *)
LEMMA ReadBuffer ==
  ASSUME TypeOK, NEW own, OwnersOK(own), CacheOK(own),
         NEW f \in File, NEW c \in own[f], NEW start \in BOOLEAN,
         ~ start /\ c # lastChain => /\ lastChain \in own[f]
                                     /\ lastResult = 0 /\ c = cbuf[BufSize]
  PROVE  LET got == GetClusterChain(c, start)
             n == ChainSize(got.result)
         IN  /\ got.buf \in [1 .. BufSize -> FatIndex]
             /\ got.result \in 0 .. BufSize - 1 /\ n \in 1 .. BufSize
             /\ got.result = 0 => n = BufSize
             /\ got.result # 0 => n = got.result
             /\ Buffered(fat, own[f], dirent[f].start, got.buf, n)
             /\ c = dirent[f].start => FromRoot(c, got.buf, n)
             /\ (/\ start /\ NoPred(fat, own[f], c)
                 /\ c = lastChain => FromRoot(c, cbuf, ChainSize(lastResult)))
                => FromRoot(c, got.buf, n)
             /\ CacheIsChain => /\ Forward(fat, got.buf, n)
                                /\ got.result # 0 => fat[got.buf[got.result]] = EOF
  <1> DEFINE S == own[f]
             st == dirent[f].start
             got == GetClusterChain(c, start)
             n == ChainSize(got.result)
  <1>1. /\ S \in SUBSET Cluster /\ Inside(fat, S) /\ Injective(fat, S) /\ NoPred(fat, S, st)
        /\ cbuf \in [1 .. BufSize -> FatIndex]
    BY DEF OwnersOK, TypeOK, FatTypeOK
  <1>2. ASSUME lastChain \in S
        PROVE  /\ lastResult \in 0 .. BufSize - 1
               /\ Buffered(fat, S, st, cbuf, ChainSize(lastResult))
               /\ lastChain = st => FromRoot(lastChain, cbuf, ChainSize(lastResult))
               /\ CacheIsChain => /\ Forward(fat, cbuf, ChainSize(lastResult))
                                  /\ lastResult # 0 => fat[cbuf[lastResult]] = EOF
    <2>1. lastChain \in Cluster /\ lastChain \in FatIndex
      BY <1>1, <1>2, ClusterIs
    <2>2. PICK g \in File : CacheOf(own, g)
      BY <2>1 DEF CacheOK
    <2>3. g = f
      BY <1>2, <2>2 DEF CacheOf, OwnersOK
    <2> QED BY <2>1, <2>2, <2>3 DEF CacheOK, CacheOf, CacheIsChain
  <1>3. CASE c = lastChain
    <2>1. got.buf = cbuf /\ got.result = lastResult
      BY <1>3 DEF GetClusterChain
    <2>2. lastChain \in S
      BY <1>3
    <2>3. /\ ChainSize(lastResult) \in 1 .. BufSize
          /\ lastResult = 0 => ChainSize(lastResult) = BufSize
          /\ lastResult # 0 => ChainSize(lastResult) = lastResult
      BY <1>2, <2>2, FatAssumption DEF ChainSize
    <2> HIDE DEF got, S, st
    <2>4. n = ChainSize(lastResult)
      BY <2>1
    <2> HIDE DEF n
    <2> QED BY <1>1, <1>2, <1>3, <2>1, <2>2, <2>3, <2>4 DEF got, S, st, n
  <1>4. CASE c # lastChain
    <2>1. ~ start => Buffered(fat, S, st, cbuf, BufSize) /\ (CacheIsChain => Forward(fat, cbuf, BufSize))
      BY <1>2, <1>4 DEF ChainSize
    <2>2. c = st => start
      <3> SUFFICES ASSUME ~ start, c = st PROVE FALSE
        OBVIOUS
      <3>1. BufSize \in 1 .. BufSize /\ BufSize > 1
        BY FatAssumption
      <3> QED BY <1>4, <2>1, <3>1 DEF Buffered
    <2> HIDE DEF S, st
    <2>3. c \in S
      BY DEF S
    <2>4. LET g == GetClusterChain(c, start)
              m == ChainSize(g.result)
         IN  /\ g.buf \in [1 .. BufSize -> FatIndex]
             /\ g.result \in 0 .. BufSize - 1
             /\ Buffered(fat, S, st, g.buf, m)
             /\ (/\ start /\ NoPred(fat, S, c)
                 /\ c = lastChain => FromRoot(c, cbuf, ChainSize(lastResult)))
                => FromRoot(c, g.buf, m)
             /\ (/\ c = lastChain => /\ Forward(fat, cbuf, ChainSize(lastResult))
                                     /\ lastResult # 0 => fat[cbuf[lastResult]] = EOF
                 /\ c # lastChain /\ ~ start => Forward(fat, cbuf, BufSize))
                => /\ Forward(fat, g.buf, m)
                   /\ g.result # 0 => fat[g.buf[g.result]] = EOF
      BY <1>1, <1>4, <2>1, <2>3, GotChain
    <2> HIDE DEF got
    <2>5. /\ got.buf \in [1 .. BufSize -> FatIndex]
          /\ got.result \in 0 .. BufSize - 1
          /\ Buffered(fat, S, st, got.buf, n)
          /\ start /\ NoPred(fat, S, c) => FromRoot(c, got.buf, n)
          /\ (~ start => Forward(fat, cbuf, BufSize))
             => /\ Forward(fat, got.buf, n)
                /\ got.result # 0 => fat[got.buf[got.result]] = EOF
      BY <2>4, <1>4 DEF got
    <2>6. /\ n \in 1 .. BufSize
          /\ got.result = 0 => n = BufSize
          /\ got.result # 0 => n = got.result
      BY <2>5, FatAssumption DEF ChainSize
    <2> HIDE DEF n
    <2> QED BY <1>1, <1>4, <2>1, <2>2, <2>5, <2>6 DEF got, n, S, st
  <1> QED BY <1>3, <1>4

(* After reading a buffer of the chain of f the clusters in cbuf are of f. *)
LEMMA CacheLoaded ==
  ASSUME TypeOK, NEW own, OwnersOK(own), CacheOK(own),
         NEW f \in File, NEW c \in own[f], NEW start \in BOOLEAN,
         ~ start /\ c # lastChain => /\ lastChain \in own[f]
                                     /\ lastResult = 0 /\ c = cbuf[BufSize],
         Loaded(GetClusterChain(c, start), c), UNCHANGED <<fat, dirent>>
  PROVE  CacheOK(own)' /\ (CacheIsChain => CacheIsChain')
  <1> DEFINE got == GetClusterChain(c, start)
  <1>1. cbuf' = got.buf /\ lastChain' = c /\ lastResult' = got.result
    BY DEF Loaded
  <1>2. /\ got.result \in 0 .. BufSize - 1
        /\ Buffered(fat, own[f], dirent[f].start, got.buf, ChainSize(got.result))
        /\ c = dirent[f].start => FromRoot(c, got.buf, ChainSize(got.result))
        /\ CacheIsChain => /\ Forward(fat, got.buf, ChainSize(got.result))
                           /\ got.result # 0 => fat[got.buf[got.result]] = EOF
    BY ReadBuffer
  <1> HIDE DEF got
  <1>3. CacheOf(own, f)'
    BY <1>1, <1>2 DEF CacheOf
  <1>4. CacheOK(own)'
    BY <1>1, <1>2, <1>3 DEF CacheOK
  <1>5. CacheIsChain => CacheIsChain'
    BY <1>1, <1>2 DEF CacheIsChain
  <1> QED BY <1>4, <1>5
-----------------------------------------------------------------------------
(* The calls and the steps that change neither the table nor the chains    *)
(* of files.                                                               *)
LEMMA IdleIs ==
  ASSUME task = Idle
  PROVE  /\ task.op = "none" /\ \A f \in File : ~ Deleting(f)
         /\ \A s \in Slot : ~ Changing(s)
  BY DEF Idle, Deleting, Changing

(* Names without a path: a file that is not busy is in no slot.            *)
LEMMA NotBusy ==
  ASSUME ~ ByPath, NEW f \in File, ~ Busy(f), NEW s \in Slot, handle[s].open
  PROVE  handle[s].file # f
  BY DEF Busy, FindByName

(* A slot that was just filled points to a cluster of its file only.       *)
LEMMA NewHandleOK ==
  ASSUME NEW own, NEW f, NEW c \in own[f], NEW n, NEW h, h = NewHandle(f, c, n)
  PROVE  /\ h.open /\ h.file = f /\ h.lastCluster \in own[f]
         /\ \A j \in Seek : h.chain[j].cluster \in own[f]
         /\ h.chain[0].index = 0
  <1>1. 0 \in Seek
    BY FilesAssumption DEF Seek
  <1> QED BY <1>1 DEF NewHandle

(* fs_open.                                                                *)
LEMMA OpenStep ==
  ASSUME TypeOK, ~ ByPath, NEW own, Owns(own), NEW s \in Slot, NEW f \in File, Open(s, f)
  PROVE  Owns(own)'
  <1> USE DEF Owns
  <1>1. /\ task = Idle /\ task.op = "none" /\ \A g \in File : ~ Deleting(g)
        /\ task' = [op |-> "table", slot |-> s, cluster |-> dirent[f].start, index |-> 0]
        /\ UNCHANGED <<fat, chainVars, clStack, dirent, ranOut>>
        /\ \A g \in File : ~ Deleting(g)'
    BY IdleIs DEF Open, ReadTable, fatVars, chainVars, Deleting
  <1>2. dirent[f].start \in own[f] /\ Exists(f)
    BY <1>1 DEF StartsOK, Open
  <1>3. \A t \in Slot : handle'[t] =
          IF t = s THEN NewHandle(f, dirent[f].start, dirent[f].size) ELSE handle[t]
    BY DEF Open, TypeOK
  <1>4. OwnersOK(own)' /\ StartsOK(own)'
    BY <1>1, OwnersStay
  <1>5. CacheOK(own)'
    BY <1>1, CacheStays
  <1>6. HandlesOK(own)'
    <2>1. \A t \in Slot : t # s /\ handle[t].open => handle[t].file \in File
      BY OpenIs DEF OpenFile
    <2>2. ASSUME NEW t \in Slot, t # s, handle'[t].open PROVE HandleOK(own, handle[t])'
      BY <1>1, <1>3, <2>1, <2>2 DEF HandlesOK, HandleOK, Exists
    <2> DEFINE h == NewHandle(f, dirent[f].start, dirent[f].size)
    <2>3. handle'[s] = h /\ h = NewHandle(f, dirent[f].start, dirent[f].size)
      BY <1>3
    <2> HIDE DEF h
    <2>4. /\ h.file = f /\ h.lastCluster \in own[f] /\ h.chain[0].index = 0
          /\ \A j \in Seek : h.chain[j].cluster \in own[f]
      BY <1>2, <2>3, NewHandleOK
    <2>5. HandleOK(own, handle[s])'
      BY <1>1, <1>2, <2>3, <2>4 DEF HandleOK, Exists
    <2> QED BY <2>2, <2>5 DEF HandlesOK
  <1>7. OpenOnce'
    <2>1. \A t \in Slot : handle[t].open => handle[t].file # f
      BY NotBusy DEF Open
    <2> QED BY <2>1, <1>3 DEF OpenOnce, NewHandle
  <1>8. TaskOK(own)'
    BY <1>1, <1>2, <1>3 DEF TaskOK, NewHandle
  <1>9. Lossless(own)'
    <2> SUFFICES ASSUME ~ ranOut PROVE Lossless(own)'
      BY <1>1 DEF Lossless
    <2>1. AllOwned(own)' /\ CacheIsChain'
      BY <1>1 DEF Lossless, AllOwned, CacheIsChain, chainVars
    <2>2. AllReached(own)'
      BY <1>1 DEF Lossless, AllReached, Exists, Root
    <2>3. EndsOK'
      BY <1>1, <1>3, IdleIs DEF Lossless, EndsOK, Changing
    <2> QED BY <2>1, <2>2, <2>3 DEF Lossless
  <1> QED BY <1>4, <1>5, <1>6, <1>7, <1>8, <1>9

(* fs_open with O_TRUNC, up to the first round of deleting.                *)
LEMMA OpenTruncatedStep ==
  ASSUME TypeOK, ~ ByPath, NEW own, Owns(own), NEW s \in Slot, NEW f \in File, OpenTruncated(s, f)
  PROVE  Owns(own)'
  <1> USE DEF Owns
  <1>1. /\ task = Idle /\ task.op = "none" /\ (\A g \in File : ~ Deleting(g))
        /\ task' = [op |-> "delete", file |-> f, cluster |-> dirent[f].start, truncate |-> s]
        /\ UNCHANGED <<fat, chainVars, clStack, dirent, handle, ranOut>>
        /\ \A g \in File : Deleting(g)' <=> g = f
    BY IdleIs DEF OpenTruncated, fatVars, chainVars, Deleting
  <1>2. dirent[f].start \in own[f] /\ Exists(f) /\ NoPred(fat, own[f], dirent[f].start) /\ s # 0
    BY <1>1 DEF StartsOK, OwnersOK, OpenTruncated, Slot
  <1>4. OwnersOK(own)' /\ StartsOK(own)'
    BY <1>1, OwnersStay
  <1>5. CacheOK(own)'
    BY <1>1, CacheStays
  <1>6. \A t \in Slot : handle[t].open => handle[t].file # f
    BY NotBusy DEF OpenTruncated
  <1>7. HandlesOK(own)' /\ OpenOnce'
    BY <1>1, <1>6 DEF HandlesOK, HandleOK, OpenOnce, Exists, Deleting
  <1>8. TaskOK(own)'
    <2>1. dirent[f].start = lastChain => FromRoot(lastChain, cbuf, ChainSize(lastResult))
      <3> SUFFICES ASSUME dirent[f].start = lastChain PROVE FromRoot(lastChain, cbuf, ChainSize(lastResult))
        OBVIOUS
      <3>1. lastChain \in Cluster
        BY <1>2 DEF OwnersOK
      <3>2. PICK g \in File : CacheOf(own, g)
        BY <3>1 DEF CacheOK
      <3>3. g = f
        BY <1>2, <3>2, Owner DEF CacheOf
      <3> QED BY <3>2, <3>3 DEF CacheOf
    <2> QED BY <1>1, <1>2, <2>1 DEF TaskOK, Exists, chainVars
  <1>9. Lossless(own)'
    <2> SUFFICES ASSUME ~ ranOut PROVE Lossless(own)'
      BY <1>1 DEF Lossless
    <2>1. AllOwned(own)' /\ CacheIsChain'
      BY <1>1 DEF Lossless, AllOwned, CacheIsChain, chainVars
    <2>2. AllReached(own)'
      BY <1>1, <1>2 DEF Lossless, AllReached, Exists, Root
    <2>3. EndsOK'
      BY <1>1, IdleIs DEF Lossless, EndsOK, Changing
    <2> QED BY <2>1, <2>2, <2>3 DEF Lossless
  <1> QED BY <1>4, <1>5, <1>7, <1>8, <1>9

(* fs_close.                                                               *)
LEMMA CloseStep ==
  ASSUME TypeOK, NEW own, Owns(own), NEW s \in Slot, Close(s)
  PROVE  Owns(own)'
  <1> USE DEF Owns
  <1>1. /\ task = Idle /\ task.op = "none" /\ (\A g \in File : ~ Deleting(g))
        /\ UNCHANGED <<fat, chainVars, clStack, task, ranOut>>
        /\ \A g \in File : ~ Deleting(g)'
    BY IdleIs DEF Close, fatVars, chainVars, Deleting
  <1>2. \A g \in File : dirent'[g].start = dirent[g].start
    BY DEF Close, TypeOK, Dirent
  <1>3. \A t \in Slot : handle'[t] = IF t = s THEN Closed ELSE handle[t]
    BY DEF Close, TypeOK
  <1>4. OwnersOK(own)' /\ StartsOK(own)'
    BY <1>1, <1>2, OwnersStay
  <1>5. CacheOK(own)'
    BY <1>1, <1>2, CacheStays
  <1>6. HandlesOK(own)' /\ OpenOnce'
    <2>1. \A t \in Slot : handle'[t].open => t # s /\ handle'[t] = handle[t] /\ handle[t].open
      BY <1>3 DEF Closed
    <2>2. \A t \in Slot : handle[t].open => handle[t].file \in File
      BY OpenIs DEF OpenFile
    <2> QED BY <1>1, <1>2, <2>1, <2>2 DEF HandlesOK, HandleOK, OpenOnce, Exists
  <1>8. TaskOK(own)'
    BY <1>1 DEF TaskOK
  <1>9. Lossless(own)'
    <2> SUFFICES ASSUME ~ ranOut PROVE Lossless(own)'
      BY <1>1 DEF Lossless
    <2>1. AllOwned(own)' /\ CacheIsChain'
      BY <1>1 DEF Lossless, AllOwned, CacheIsChain, chainVars
    <2>2. AllReached(own)'
      BY <1>1, <1>2 DEF Lossless, AllReached, Exists, Root
    <2>3. EndsOK'
      BY <1>1, <1>3, IdleIs DEF Lossless, EndsOK, Changing, Closed
    <2> QED BY <2>1, <2>2, <2>3 DEF Lossless
  <1> QED BY <1>4, <1>5, <1>6, <1>8, <1>9

(* fs_remove, up to the first round of deleting: the clusters stay with    *)
(* the file although its entry is gone.                                    *)
LEMMA RemoveStep ==
  ASSUME TypeOK, ~ ByPath, NEW own, Owns(own), NEW f \in File, Remove(f)
  PROVE  Owns(own)'
  <1> USE DEF Owns
  <1>1. /\ task = Idle /\ task.op = "none" /\ (\A g \in File : ~ Deleting(g))
        /\ task' = [op |-> "delete", file |-> f, cluster |-> dirent[f].start, truncate |-> 0]
        /\ UNCHANGED <<fat, chainVars, clStack, handle, ranOut>>
        /\ \A g \in File : Deleting(g)' <=> g = f
    BY IdleIs DEF Remove, fatVars, chainVars, Deleting
  <1>2. dirent[f].start \in own[f] /\ Exists(f) /\ NoPred(fat, own[f], dirent[f].start)
    BY <1>1 DEF StartsOK, OwnersOK, Remove
  <1>3. \A g \in File : dirent'[g] = IF g = f THEN NoFile ELSE dirent[g]
    BY DEF Remove, TypeOK
  <1>4. OwnersOK(own)' /\ StartsOK(own)'
    BY <1>1, <1>3, OwnersStay DEF NoFile
  <1>5. CacheOK(own)'
    BY <1>1, <1>3, CacheStays DEF NoFile
  <1>6. \A t \in Slot : handle[t].open => handle[t].file # f /\ handle[t].file \in File
    BY NotBusy, OpenIs DEF Remove, OpenFile
  <1>7. HandlesOK(own)' /\ OpenOnce'
    BY <1>1, <1>3, <1>6 DEF HandlesOK, HandleOK, OpenOnce, Exists, Deleting
  <1>8. TaskOK(own)'
    <2>1. dirent[f].start = lastChain => FromRoot(lastChain, cbuf, ChainSize(lastResult))
      <3> SUFFICES ASSUME dirent[f].start = lastChain PROVE FromRoot(lastChain, cbuf, ChainSize(lastResult))
        OBVIOUS
      <3>1. lastChain \in Cluster
        BY <1>2 DEF OwnersOK
      <3>2. PICK g \in File : CacheOf(own, g)
        BY <3>1 DEF CacheOK
      <3>3. g = f
        BY <1>2, <3>2, Owner DEF CacheOf
      <3> QED BY <3>2, <3>3 DEF CacheOf
    <2>2. ~ Exists(f)'
      BY <1>3 DEF Exists, NoFile
    <2> QED BY <1>1, <1>2, <2>1, <2>2 DEF TaskOK, chainVars
  <1>9. Lossless(own)'
    <2> SUFFICES ASSUME ~ ranOut PROVE Lossless(own)'
      BY <1>1 DEF Lossless
    <2>1. AllOwned(own)' /\ CacheIsChain'
      BY <1>1 DEF Lossless, AllOwned, CacheIsChain, chainVars
    <2>2. AllReached(own)'
      BY <1>1, <1>2, <1>3 DEF Lossless, AllReached, Exists, Root
    <2>3. EndsOK'
      BY <1>1, IdleIs DEF Lossless, EndsOK, Changing
    <2> QED BY <2>1, <2>2, <2>3 DEF Lossless
  <1> QED BY <1>4, <1>5, <1>7, <1>8, <1>9

(* What the solver knows of a quotient.                                    *)
LEMMA Division ==
  ASSUME NEW x \in Int, NEW n \in Nat \ {0}
  PROVE  /\ x \div n \in Int
         /\ n * (x \div n) <= x
         /\ x < n * (x \div n) + n
  BY SMTT(30)

(* A quotient is at least each number that can be multiplied so often.     *)
LEMMA Quotient ==
  ASSUME NEW x \in Int, NEW n \in Nat \ {0}, NEW q \in Int, n * q <= x
  PROVE  q <= x \div n
  <1> DEFINE p == x \div n
  <1>1. p \in Int /\ x < n * p + n
    BY Division
  <1> HIDE DEF p
  <1>2. p + 1 <= q => n * (p + 1) <= n * q
    BY <1>1, SMTT(30)
  <1>3. n * (p + 1) = n * p + n /\ n * p \in Int /\ n * q \in Int
    BY <1>1, SMTT(30)
  <1> QED BY <1>1, <1>2, <1>3 DEF p

(* How many clusters n units take.                                         *)
LEMMA ClustersAre ==
  ASSUME NEW pos \in Nat, NEW n \in Nat
  PROVE  /\ pos \div ClusterBytes \in Nat /\ ClusterBytes * (pos \div ClusterBytes) <= pos
         /\ Clusters(pos + n) \in Nat /\ Clusters(pos + n) >= pos \div ClusterBytes
         /\ n > 0 => Clusters(pos + n) > pos \div ClusterBytes
  <1> DEFINE p == pos \div ClusterBytes
             q == (pos + n + ClusterBytes - 1) \div ClusterBytes
  <1>1. ClusterBytes \in Nat \ {0}
    BY FilesAssumption
  <1>2. p \in Int /\ ClusterBytes * p <= pos
    BY <1>1, Division
  <1>3. 0 <= p
    <2>1. ClusterBytes * 0 <= pos
      BY <1>1
    <2> QED BY <1>1, <2>1, Quotient
  <1>4. q \in Int
    BY <1>1, Division
  <1> HIDE DEF p
  <1>5. p <= q
    <2>1. ClusterBytes * p <= pos + n + ClusterBytes - 1
      BY <1>1, <1>2, SMTT(30)
    <2> QED BY <1>1, <1>2, <2>1, Quotient
  <1>6. ASSUME n > 0 PROVE p + 1 <= q
    <2>1. ClusterBytes * (p + 1) = ClusterBytes * p + ClusterBytes /\ ClusterBytes * p \in Int
      BY <1>1, <1>2, SMTT(30)
    <2>2. ClusterBytes * (p + 1) <= pos + n + ClusterBytes - 1
      BY <1>1, <1>2, <1>6, <2>1
    <2> QED BY <1>1, <1>2, <2>2, Quotient
  <1> HIDE DEF q
  <1>7. q \in Nat /\ q >= p /\ (n > 0 => q > p) /\ p \in Nat
    BY <1>2, <1>3, <1>4, <1>5, <1>6
  <1> QED BY <1>2, <1>7 DEF p, q, Clusters

(* An entry of the seek table that is not behind pos.                      *)
LEMMA SeekEntryIs ==
  ASSUME NEW h \in OpenFile, h.chain[0].index = 0, NEW pos \in Nat
  PROVE  /\ \E j \in Seek : SeekEntry(h, pos) = h.chain[j]
         /\ SeekEntry(h, pos) \in SeekRecord
         /\ SeekEntry(h, pos).index * ClusterBytes <= pos
  <1> DEFINE S == {j \in 0 .. SeekSize - 2 : /\ h.chain[j].index * ClusterBytes <= pos
                                             /\ h.chain[j + 1].index * ClusterBytes > pos}
             top == SeekSize - 1
  <1>1. /\ SeekSize \in Nat /\ SeekSize >= 2 /\ ClusterBytes \in Nat
        /\ top \in Seek /\ 0 \in Seek /\ 0 .. SeekSize - 2 \subseteq Seek
    BY FilesAssumption DEF Seek
  <1>2. \A j \in Seek : h.chain[j] \in SeekRecord /\ h.chain[j].index \in Nat
    BY DEF OpenFile, SeekRecord, Position
  <1>3. CASE S = {}
    <2>1. SeekEntry(h, pos) = h.chain[top]
      BY <1>3 DEF SeekEntry
    <2>2. ASSUME h.chain[top].index * ClusterBytes > pos PROVE FALSE
      <3> DEFINE B == {j \in Seek : h.chain[j].index * ClusterBytes > pos}
      <3>1. PICK m \in B : \A j \in B : m <= j
        <4>1. top \in B
          BY <1>1, <2>2
        <4>2. B \subseteq Nat
          BY DEF Seek
        <4> HIDE DEF B
        <4> QED BY <4>1, <4>2, LeastOf
      <3>2. m # 0
        <4>1. h.chain[0].index * ClusterBytes = 0
          BY <1>1
        <4> QED BY <4>1
      <3>3. m - 1 \in Seek /\ m - 1 \in 0 .. SeekSize - 2 /\ m = (m - 1) + 1 /\ m - 1 < m
        BY <3>2, <1>1 DEF Seek
      <3>4. ~ (h.chain[m - 1].index * ClusterBytes > pos)
        BY <3>1, <3>3
      <3>5. h.chain[m - 1].index * ClusterBytes <= pos
        <4>1. h.chain[m - 1].index * ClusterBytes \in Nat
          BY <1>1, <1>2, <3>3, SMTT(30)
        <4> QED BY <3>4, <4>1
      <3>6. m - 1 \in S
        BY <3>1, <3>3, <3>5
      <3> QED BY <1>3, <3>6
    <2>3. h.chain[top].index * ClusterBytes \in Nat
      BY <1>1, <1>2, SMTT(30)
    <2> QED BY <1>1, <1>2, <2>1, <2>2, <2>3
  <1>4. CASE S # {}
    <2> DEFINE k == CHOOSE j \in S : \A i \in S : j <= i
    <2>1. S \subseteq Nat
      BY <1>1
    <2>2. k \in S
      <3> HIDE DEF S
      <3>1. \E j \in S : \A i \in S : j <= i
        BY <1>4, <2>1, LeastOf
      <3> QED BY <3>1
    <2>3. SeekEntry(h, pos) = h.chain[k]
      BY <1>4 DEF SeekEntry
    <2> HIDE DEF k
    <2>4. k \in Seek /\ h.chain[k].index * ClusterBytes <= pos
      BY <2>2, <1>1
    <2> QED BY <2>3, <2>4, <1>2
  <1> QED BY <1>3, <1>4

(* A transfer begins at a cluster of the file, and what it is to skip and  *)
(* to move are natural numbers.                                            *)
LEMMA StartIOIs ==
  ASSUME TypeOK, NEW own, HandlesOK(own), NEW s \in Slot, handle[s].open,
         NEW pos \in Nat, NEW n \in Nat \ {0}, pos + n <= MaxSize,
         NEW t, \/ t = StartIO(s, pos, n, FALSE, FALSE)
                \/ t = StartIO(s, pos, n, TRUE, FALSE)
                \/ t = StartIO(s, pos, n, TRUE, TRUE)
  PROVE  t \in IOTask /\ t.cluster \in own[handle[s].file]
  <1> DEFINE e == SeekEntry(handle[s], pos)
             p == pos \div ClusterBytes
             q == Clusters(pos + n)
  <1>1. handle[s] \in OpenFile /\ handle[s].chain[0].index = 0
    BY OpenIs DEF HandlesOK, HandleOK
  <1>2. /\ \E j \in Seek : e = handle[s].chain[j]
        /\ e \in SeekRecord /\ e.index * ClusterBytes <= pos
    BY <1>1, SeekEntryIs
  <1>3. p \in Nat /\ q \in Nat /\ q >= p
    BY ClustersAre
  <1>4. \E write, grown \in BOOLEAN :
          t = [op |-> "io", slot |-> s, end |-> pos + n, write |-> write, grown |-> grown,
               cluster |-> e.cluster, index |-> p, skip |-> p - e.index, left |-> q - p,
               start |-> TRUE]
    BY DEF StartIO
  <1> HIDE DEF e, q
  <1>5. e.index \in Nat /\ e.cluster \in FatIndex
    BY <1>2 DEF SeekRecord, Position
  <1>6. e.index <= p
    <2>1. ClusterBytes * e.index <= pos
      BY <1>2, <1>5, FilesAssumption, SMTT(30)
    <2> QED BY <2>1, <1>5, FilesAssumption, Quotient
  <1> HIDE DEF p
  <1>7. p - e.index \in Nat /\ q - p \in Nat
    BY <1>3, <1>5, <1>6
  <1>8. pos + n \in Size
    BY FilesAssumption DEF Size
  <1>9. t \in IOTask
    BY <1>3, <1>4, <1>5, <1>7, <1>8 DEF IOTask, Position
  <1>10. e.cluster \in own[handle[s].file]
    BY <1>2 DEF HandlesOK, HandleOK
  <1> QED BY <1>4, <1>9, <1>10

(* A step that changes only the call under way, from idle or to idle, and  *)
(* does not delete.                                                        *)
LEMMA TaskChanges ==
  ASSUME NEW own, Owns(own), UNCHANGED <<fatVars, dirent, handle>>,
         task.op # "delete", task'.op # "delete", ranOut' = ranOut
  PROVE  /\ OwnersOK(own)' /\ StartsOK(own)' /\ CacheOK(own)' /\ HandlesOK(own)' /\ OpenOnce'
         /\ ~ ranOut => AllOwned(own)' /\ AllReached(own)'
  <1> USE DEF Owns
  <1>1. UNCHANGED <<fat, chainVars, clStack>>
    BY DEF fatVars, chainVars
  <1>2. \A g \in File : ~ Deleting(g) /\ ~ Deleting(g)'
    BY DEF Deleting
  <1>3. OwnersOK(own)' /\ StartsOK(own)'
    BY <1>1, <1>2, OwnersStay
  <1>4. CacheOK(own)'
    BY <1>1, CacheStays
  <1>5. HandlesOK(own)' /\ OpenOnce'
    BY DEF HandlesOK, HandleOK, OpenOnce, Exists, Deleting
  <1>6. ~ ranOut => AllOwned(own)' /\ AllReached(own)'
    BY <1>1, <1>2 DEF Lossless, AllOwned, AllReached, Root, Exists
  <1> QED BY <1>3, <1>4, <1>5, <1>6

(* fs_read, up to its first buffer.                                        *)
LEMMA ReadStep ==
  ASSUME TypeOK, NEW own, Owns(own), NEW s \in Slot, Read(s)
  PROVE  Owns(own)' /\ task' \in Task
  <1> USE DEF Owns
  <1>1. /\ task = Idle /\ task.op = "none" /\ handle[s].open
        /\ UNCHANGED <<fatVars, fat, chainVars, dirent, handle, ranOut>>
    BY IdleIs DEF Read, fatVars, chainVars
  <1>0. PICK pos \in 0 .. handle[s].size :
          \E n \in 1 .. handle[s].size - pos : task' = StartIO(s, pos, n, FALSE, FALSE)
    BY DEF Read
  <1>2. PICK n \in 1 .. handle[s].size - pos : task' = StartIO(s, pos, n, FALSE, FALSE)
    BY <1>0
  <1>3. handle[s].size \in Nat /\ handle[s].size <= MaxSize
    <2>1. handle[s] \in OpenFile
      BY <1>1, OpenIs
    <2>2. handle[s].size \in Size
      BY <2>1 DEF OpenFile
    <2> QED BY <2>1, <2>2, FilesAssumption DEF Size
  <1>4. pos \in Nat /\ n \in Nat \ {0} /\ pos + n <= MaxSize
    BY <1>3, FilesAssumption
  <1>5. /\ task' \in IOTask /\ task'.op = "io" /\ task'.slot = s /\ task'.start
        /\ task'.cluster \in own[handle[s].file]
    <2>1. task' \in IOTask /\ task'.cluster \in own[handle[s].file]
      BY <1>1, <1>2, <1>4, StartIOIs, Zenon
    <2>2. task'.op = "io" /\ task'.slot = s /\ task'.start
      BY <1>2 DEF StartIO
    <2> QED BY <2>1, <2>2
  <1>6. /\ OwnersOK(own)' /\ StartsOK(own)' /\ CacheOK(own)' /\ HandlesOK(own)' /\ OpenOnce'
        /\ ~ ranOut => AllOwned(own)' /\ AllReached(own)'
    BY <1>1, <1>5, TaskChanges
  <1>7. TaskOK(own)'
    BY <1>1, <1>5 DEF TaskOK
  <1>8. Lossless(own)'
    BY <1>1, <1>5, <1>6, IdleIs DEF Lossless, EndsOK, Changing, CacheIsChain, chainVars
  <1> QED BY <1>5, <1>6, <1>7, <1>8 DEF Task

(* fs_write, up to its first buffer or the first cluster it takes.         *)
LEMMA WriteStep ==
  ASSUME TypeOK, NEW own, Owns(own), NEW s \in Slot, Write(s)
  PROVE  Owns(own)' /\ task' \in Task
  <1> USE DEF Owns
  <1>1. /\ task = Idle /\ task.op = "none" /\ handle[s].open
        /\ UNCHANGED <<fatVars, fat, chainVars, dirent, handle, ranOut>>
    BY IdleIs DEF Write, fatVars, chainVars
  <1> DEFINE have == IF handle[s].size = 0 THEN 1 ELSE Clusters(handle[s].size)
             need(pos, n) == Clusters(pos + n) - have
             after(pos, n) == IF need(pos, n) <= 0 THEN StartIO(s, pos, n, TRUE, FALSE)
                              ELSE [op |-> "grow", slot |-> s, pos |-> pos, size |-> n,
                                    need |-> need(pos, n), cur |-> handle[s].lastCluster]
  <1>0. PICK pos \in 0 .. handle[s].size : \E n \in 1 .. MaxSize - pos : task' = after(pos, n)
    BY DEF Write
  <1>2. PICK n \in 1 .. MaxSize - pos : task' = after(pos, n)
    BY <1>0
  <1>3. handle[s] \in OpenFile /\ handle[s].size \in Nat /\ handle[s].size <= MaxSize
    <2>1. handle[s] \in OpenFile
      BY <1>1, OpenIs
    <2>2. handle[s].size \in Size
      BY <2>1 DEF OpenFile
    <2> QED BY <2>1, <2>2, FilesAssumption DEF Size
  <1>4. pos \in Nat /\ n \in Nat \ {0} /\ pos + n <= MaxSize /\ pos \in Size /\ n \in Size
    BY <1>3, FilesAssumption DEF Size
  <1>5. have \in Int /\ need(pos, n) \in Int
    <2>1. Clusters(handle[s].size) \in Nat
      <3>1. handle[s].size = handle[s].size + 0
        BY <1>3
      <3> QED BY <1>3, <3>1, ClustersAre
    <2>2. Clusters(pos + n) \in Nat
      BY <1>4, ClustersAre
    <2> QED BY <2>1, <2>2
  <1>6. HandleOK(own, handle[s])
    BY <1>1 DEF HandlesOK
  <1>7. handle[s].lastCluster \in own[handle[s].file] /\ handle[s].lastCluster \in Cluster
    BY <1>3, <1>6 DEF HandleOK, OpenFile, OwnersOK
  <1>8. CASE need(pos, n) <= 0
    <2>1. /\ task' \in IOTask /\ task'.op = "io" /\ task'.slot = s /\ task'.start
          /\ task'.cluster \in own[handle[s].file]
      <3>1. task' = StartIO(s, pos, n, TRUE, FALSE)
        BY <1>2, <1>8, Zenon
      <3>2. task' \in IOTask /\ task'.cluster \in own[handle[s].file]
        BY <1>1, <1>4, <3>1, StartIOIs, Zenon
      <3>3. task'.op = "io" /\ task'.slot = s /\ task'.start
        BY <3>1 DEF StartIO
      <3> QED BY <3>2, <3>3
    <2>2. /\ OwnersOK(own)' /\ StartsOK(own)' /\ CacheOK(own)' /\ HandlesOK(own)' /\ OpenOnce'
          /\ ~ ranOut => AllOwned(own)' /\ AllReached(own)'
      BY <1>1, <2>1, TaskChanges
    <2>3. TaskOK(own)'
      BY <1>1, <2>1 DEF TaskOK
    <2>4. Lossless(own)'
      BY <1>1, <2>1, <2>2, IdleIs DEF Lossless, EndsOK, Changing, CacheIsChain, chainVars
    <2> QED BY <2>1, <2>2, <2>3, <2>4 DEF Task
  <1>9. CASE need(pos, n) > 0
    <2> DEFINE k == need(pos, n)
    <2>1. k \in Nat /\ ~ (k <= 0)
      BY <1>5, <1>9
    <2>2. task' = [op |-> "grow", slot |-> s, pos |-> pos, size |-> n,
                   need |-> k, cur |-> handle[s].lastCluster]
      BY <1>2, <2>1
    <2> HIDE DEF k, need, have
    <2>3. /\ task' \in GrowTask /\ task'.op = "grow" /\ task'.slot = s
          /\ task'.cur = handle[s].lastCluster /\ task'.pos = pos /\ task'.size = n
      BY <1>4, <1>7, <2>1, <2>2 DEF GrowTask, Position
    <2>4. /\ OwnersOK(own)' /\ StartsOK(own)' /\ CacheOK(own)' /\ HandlesOK(own)' /\ OpenOnce'
          /\ ~ ranOut => AllOwned(own)' /\ AllReached(own)'
      BY <1>1, <2>3, TaskChanges
    <2>5. TaskOK(own)'
      <3>1. n # 0
        BY <1>4
      <3> QED BY <1>1, <1>4, <1>7, <2>3, <3>1 DEF TaskOK
    <2>6. Lossless(own)'
      BY <1>1, <2>3, <2>4, IdleIs DEF Lossless, EndsOK, Changing, CacheIsChain, chainVars
    <2> QED BY <2>3, <2>4, <2>5, <2>6 DEF Task
  <1> QED BY <1>5, <1>8, <1>9

(* fs_write without room: from here on clusters may be lost.               *)
LEMMA GrowFailsStep ==
  ASSUME TypeOK, NEW own, Owns(own), GrowFails
  PROVE  Owns(own)'
  <1> USE DEF Owns
  <1>1. /\ task.op = "grow" /\ task' = Idle /\ task'.op = "none" /\ ranOut' = TRUE
        /\ UNCHANGED <<fat, chainVars, clStack, dirent, handle>>
    BY DEF GrowFails, fatVars, chainVars, Idle
  <1>2. \A g \in File : ~ Deleting(g) /\ ~ Deleting(g)'
    BY <1>1 DEF Deleting
  <1>3. OwnersOK(own)' /\ StartsOK(own)'
    BY <1>1, <1>2, OwnersStay
  <1>4. CacheOK(own)'
    BY <1>1, CacheStays
  <1>5. HandlesOK(own)' /\ OpenOnce'
    BY <1>1 DEF HandlesOK, HandleOK, OpenOnce, Exists, Deleting
  <1>6. TaskOK(own)' /\ Lossless(own)'
    BY <1>1 DEF TaskOK, Lossless
  <1> QED BY <1>3, <1>4, <1>5, <1>6

(* The handle of s changes in its size only.                               *)
LEMMA TransferDoneStep ==
  ASSUME TypeOK, NEW own, Owns(own), TransferDone
  PROVE  Owns(own)' /\ TypeOK'
  <1> USE DEF Owns
  <1> DEFINE s == task.slot
             h == handle[s]
             longer == task.write /\ task.end > h.size
  <1>1. /\ task.op = "io" /\ s \in Slot /\ task.end \in Size /\ task \in IOTask
        /\ h.open /\ h \in OpenFile /\ h.file \in File /\ HandleOK(own, h)
    <2>1. task.op = "io" /\ task \in IOTask
      BY TaskIs DEF TransferDone
    <2>2. s \in Slot /\ task.end \in Size
      BY <2>1 DEF IOTask
    <2>3. h.open
      BY <2>1 DEF TaskOK
    <2>4. h \in OpenFile
      BY <2>2, <2>3, OpenIs
    <2> QED BY <2>1, <2>2, <2>3, <2>4 DEF HandlesOK, OpenFile
  <1>2. UNCHANGED <<fat, chainVars, clStack, dirent, ranOut>> /\ touched' = {} /\ UNCHANGED fatVars
    BY DEF TransferDone, EndIO, fatVars, chainVars
  <1>3. /\ handle' \in [Slot -> OpenFile \union {Closed}]
        /\ \A t \in Slot \ {s} : handle'[t] = handle[t]
        /\ handle'[s].open /\ handle'[s].file = h.file
        /\ handle'[s].lastCluster = h.lastCluster /\ handle'[s].chain = h.chain
    <2>1. CASE longer
      <3>1. handle' = [handle EXCEPT ![s].size = task.end, ![s].sizeChange = TRUE]
        BY <2>1 DEF TransferDone, EndIO
      <3>2. handle'[s] = [h EXCEPT !.size = task.end, !.sizeChange = TRUE]
        BY <1>1, <3>1 DEF TypeOK
      <3>3. \A t \in Slot \ {s} : handle'[t] = handle[t]
        BY <3>1 DEF TypeOK
      <3> HIDE DEF s, h
      <3>4. handle'[s] \in OpenFile
        BY <1>1, <3>2 DEF OpenFile
      <3>5. DOMAIN handle' = Slot /\ handle' = [t \in Slot |-> handle'[t]]
        BY <3>1 DEF TypeOK
      <3>6. \A t \in Slot : handle'[t] \in OpenFile \union {Closed}
        BY <3>3, <3>4 DEF TypeOK
      <3>7. handle'[s].open /\ handle'[s].file = h.file
            /\ handle'[s].lastCluster = h.lastCluster /\ handle'[s].chain = h.chain
        BY <1>1, <3>2 DEF OpenFile
      <3> QED BY <3>3, <3>5, <3>6, <3>7
    <2>2. CASE ~ longer
      <3>1. handle' = handle
        BY <2>2 DEF TransferDone, EndIO
      <3> QED BY <1>1, <3>1 DEF TypeOK
    <2> QED BY <2>1, <2>2
  <1>4. \/ task' = Idle
        \/ task' = [op |-> "table", slot |-> s, cluster |-> h.chain[0].cluster, index |-> 0]
    BY DEF TransferDone, EndIO, ReadTable
  <1> HIDE DEF s, h
  <1>5. \A g \in File : ~ Deleting(g) /\ ~ Deleting(g)'
    BY <1>1, <1>4 DEF Deleting, Idle
  <1>6. OwnersOK(own)' /\ StartsOK(own)'
    BY <1>2, <1>5, OwnersStay
  <1>7. CacheOK(own)'
    BY <1>2, CacheStays
  <1>8. \A t \in Slot : handle[t].open => handle[t].file \in File
    BY OpenIs DEF OpenFile
  <1>9. HandlesOK(own)'
    <2>1. ASSUME NEW t \in Slot, handle'[t].open PROVE HandleOK(own, handle[t])'
      <3>1. CASE t = s
        BY <1>1, <1>2, <1>3, <1>5, <3>1 DEF HandleOK, Exists
      <3>2. CASE t # s
        BY <1>2, <1>3, <1>5, <1>8, <2>1, <3>2 DEF HandlesOK, HandleOK, Exists
      <3> QED BY <3>1, <3>2
    <2> QED BY <2>1 DEF HandlesOK
  <1>10. OpenOnce'
    <2>1. \A t \in Slot : handle'[t].open => handle[t].open /\ handle'[t].file = handle[t].file
      BY <1>1, <1>3 DEF h
    <2> QED BY <2>1 DEF OpenOnce
  <1>11. h.chain[0].cluster \in own[h.file] /\ h.chain[0].cluster \in FatIndex
    <2>1. 0 \in Seek
      BY FilesAssumption DEF Seek
    <2> QED BY <1>1, <2>1, Owner DEF HandleOK
  <1>12. TaskOK(own)'
    BY <1>1, <1>3, <1>4, <1>11 DEF TaskOK, Idle
  <1>13. Lossless(own)'
    <2> SUFFICES ASSUME ~ ranOut PROVE Lossless(own)'
      BY <1>2 DEF Lossless
    <2>1. AllOwned(own)' /\ CacheIsChain'
      BY <1>1, <1>2 DEF Lossless, AllOwned, CacheIsChain, chainVars
    <2>2. AllReached(own)'
      BY <1>2, <1>5 DEF Lossless, AllReached, Exists, Root
    <2>3. EndsOK'
      <3>1. EndsOK /\ \A t \in Slot : ~ Changing(t)
        BY <1>1 DEF Lossless, Changing
      <3>2. task'.op # "grow"
        BY <1>4 DEF Idle
      <3>3. \A t \in Slot : handle'[t].open => handle[t].open /\ handle'[t].lastCluster = handle[t].lastCluster
        BY <1>1, <1>3 DEF h
      <3> QED BY <1>2, <3>1, <3>2, <3>3 DEF EndsOK
    <2> QED BY <2>1, <2>2, <2>3 DEF Lossless
  <1>14. TypeOK'
    <2>1. FatTypeOK' /\ dirent' \in [File -> Dirent] /\ touched' \subseteq (Position \X FatIndex)
          /\ ranOut' \in BOOLEAN
      BY <1>2 DEF TypeOK, FatTypeOK, fatVars
    <2>2. task' \in Task
      BY <1>1, <1>4, <1>11 DEF Task, TableTask, Position
    <2> QED BY <1>3, <2>1, <2>2 DEF TypeOK
  <1> QED BY <1>6, <1>7, <1>9, <1>10, <1>12, <1>13, <1>14

(* The entries of the seek table are numbers of clusters.                  *)
LEMMA SeekIndexIs ==
  ASSUME NEW size \in Nat, NEW j \in Seek
  PROVE  SeekIndex(size, j) \in Nat
  <1> DEFINE q == size \div SeekSize
             end == j * q
  <1>1. SeekSize \in Nat \ {0} /\ j \in Nat
    BY FilesAssumption DEF Seek
  <1>2. q \in Nat
    <2>1. q \in Int
      BY <1>1, Division
    <2>2. 0 <= q
      <3>1. SeekSize * 0 <= size
        BY <1>1
      <3> QED BY <1>1, <3>1, Quotient
    <2> QED BY <2>1, <2>2
  <1> HIDE DEF q
  <1>3. end \in Nat
    BY <1>1, <1>2, SMTT(30)
  <1>4. SeekIndex(size, j) = IF end = 0 THEN 0 ELSE Clusters(end) - 1
    BY DEF SeekIndex, q
  <1> HIDE DEF end
  <1>5. CASE end # 0
    <2>1. PICK z \in Nat : z = 0
      OBVIOUS
    <2>2. z \div ClusterBytes \in Nat /\ Clusters(z + end) \in Nat /\ Clusters(z + end) > z \div ClusterBytes
      <3>1. end > 0
        BY <1>3, <1>5
      <3> QED BY <1>3, <3>1, ClustersAre, Zenon
    <2>3. z + end = end
      BY <1>3, <2>1
    <2> QED BY <1>4, <1>5, <2>2, <2>3
  <1> QED BY <1>4, <1>5

(* fat_setFatDirChain, one buffer: what it stores in the seek table is of  *)
(* the file, since cbuf is.                                                *)
LEMMA SetFatDirChainStep ==
  ASSUME TypeOK, NEW own, Owns(own), SetFatDirChain
  PROVE  Owns(own)' /\ TypeOK'
  <1> USE DEF Owns
  <1>0. /\ task.op = "table" /\ task \in TableTask
        /\ task.slot \in Slot /\ task.index \in Nat
    <2>1. task.op = "table" /\ task \in TableTask
      BY TaskIs DEF SetFatDirChain
    <2> QED BY <2>1 DEF TableTask, Position
  <1>s. PICK s \in Slot : s = task.slot
    BY <1>0
  <1> DEFINE h == handle[s]
             f == h.file
             c == task.cluster
             got == GetClusterChain(c, TRUE)
             n == ChainSize(got.result)
             At(i) == got.buf[i - task.index + 1]
             InBuffer(i) == i >= task.index /\ i < task.index + n
             i0(j) == SeekIndex(h.size, j)
             entry(j) == IF j > 0 /\ InBuffer(i0(j))
                         THEN [cluster |-> At(i0(j)), index |-> i0(j)] ELSE h.chain[j]
  <1>1. /\ task.op = "table" /\ s \in Slot /\ task \in TableTask /\ task.index \in Nat
        /\ h.open /\ h \in OpenFile /\ f \in File /\ HandleOK(own, h) /\ c \in own[f]
    <2>1. h.open /\ c \in own[f]
      BY <1>0, <1>s DEF TaskOK
    <2>2. h \in OpenFile
      BY <2>1, OpenIs
    <2> QED BY <1>0, <2>1, <2>2 DEF HandlesOK, OpenFile
  <1>2. /\ got.buf \in [1 .. BufSize -> FatIndex]
        /\ got.result \in 0 .. BufSize - 1 /\ n \in 1 .. BufSize
        /\ got.result = 0 => n = BufSize
        /\ got.result # 0 => n = got.result
        /\ Buffered(fat, own[f], dirent[f].start, got.buf, n)
        /\ CacheIsChain => /\ Forward(fat, got.buf, n)
                           /\ got.result # 0 => fat[got.buf[got.result]] = EOF
    <2> HIDE DEF f, c, got, n
    <2>1. f \in File /\ c \in own[f] /\ got = GetClusterChain(c, TRUE) /\ n = ChainSize(got.result)
      BY <1>1 DEF got, n
    <2> QED BY <2>1, ReadBuffer
  <1>3. /\ UNCHANGED <<fat, clStack, clStackLast, dirent, touched, ranOut>> /\ Loaded(got, c)
        /\ cbuf' = got.buf /\ lastChain' = c /\ lastResult' = got.result
        /\ handle' = [handle EXCEPT ![s].chain = [j \in Seek |->
                         IF j > 0 /\ InBuffer(i0(j))
                         THEN [cluster |-> At(i0(j)), index |-> i0(j)] ELSE @[j]],
                         ![s].lastCluster = got.buf[n]]
        /\ task' = IF got.result # 0 THEN Idle
                    ELSE [task EXCEPT !.cluster = got.buf[BufSize],
                                      !.index = @ + BufSize - 1]
    BY <1>s DEF SetFatDirChain, Loaded, stackVars
  <1>4. CacheOK(own)' /\ (CacheIsChain => CacheIsChain')
    BY <1>1, <1>3, CacheLoaded
  <1>5. /\ handle'[s] = [h EXCEPT !.chain = [j \in Seek |-> entry(j)], !.lastCluster = got.buf[n]]
        /\ \A t \in Slot \ {s} : handle'[t] = handle[t]
        /\ handle' = [t \in Slot |-> handle'[t]]
    <2> HIDE DEF got, n
    <2> QED BY <1>1, <1>3 DEF TypeOK
  <1> HIDE DEF got, n
  <1>6. \A i \in 1 .. n : got.buf[i] \in own[f] /\ got.buf[i] \in FatIndex
    BY <1>1, <1>2, Owner DEF Buffered
  <1>7. got.buf[n] \in own[f] /\ got.buf[n] \in FatIndex
    BY <1>2, <1>6
  <1>8. \A j \in Seek : entry(j) \in SeekRecord /\ entry(j).cluster \in own[f]
    <2> SUFFICES ASSUME NEW j \in Seek PROVE entry(j) \in SeekRecord /\ entry(j).cluster \in own[f]
      OBVIOUS
    <2>1. CASE j > 0 /\ InBuffer(i0(j))
      <3>1. i0(j) \in Nat
        <4>1. h.size \in Nat
          <5>1. h.size \in Size
            BY <1>1 DEF OpenFile
          <5> QED BY <5>1, FilesAssumption DEF Size
        <4> QED BY <4>1, SeekIndexIs
      <3> DEFINE i == i0(j)
      <3>2. entry(j) = [cluster |-> got.buf[i - task.index + 1], index |-> i]
        BY <2>1
      <3>3. i \in Nat /\ i >= task.index /\ i < task.index + n
        BY <2>1, <3>1
      <3> HIDE DEF i
      <3>4. i - task.index + 1 \in 1 .. n
        BY <1>1, <1>2, <3>3
      <3> HIDE DEF entry
      <3>5. got.buf[i - task.index + 1] \in own[f] /\ got.buf[i - task.index + 1] \in FatIndex
        BY <1>6, <3>4
      <3> QED BY <3>2, <3>3, <3>5 DEF SeekRecord, Position
    <2>2. CASE ~ (j > 0 /\ InBuffer(i0(j)))
      <3>1. entry(j) = h.chain[j]
        BY <2>2
      <3>2. h.chain[j] \in SeekRecord /\ h.chain[j].cluster \in own[f]
        BY <1>1 DEF OpenFile, HandleOK
      <3> QED BY <3>1, <3>2
    <2> QED BY <2>1, <2>2
  <1>9. entry(0) = h.chain[0] /\ 0 \in Seek
    BY FilesAssumption DEF Seek
  <1> HIDE DEF entry
  <1>10. /\ handle'[s] \in OpenFile /\ handle'[s].open /\ handle'[s].file = f
         /\ handle'[s].lastCluster = got.buf[n]
         /\ \A j \in Seek : handle'[s].chain[j] = entry(j)
    <2> DEFINE ch == [j \in Seek |-> entry(j)]
    <2>1. ch \in [Seek -> SeekRecord] /\ \A j \in Seek : ch[j] = entry(j)
      BY <1>8
    <2>2. handle'[s] = [h EXCEPT !.chain = ch, !.lastCluster = got.buf[n]]
      BY <1>5
    <2> HIDE DEF h, ch
    <2>3. handle'[s] \in OpenFile
      BY <1>1, <1>7, <2>1, <2>2 DEF OpenFile
    <2>4. /\ handle'[s].open /\ handle'[s].file = h.file
          /\ handle'[s].lastCluster = got.buf[n] /\ handle'[s].chain = ch
      BY <1>1, <2>2 DEF OpenFile
    <2> QED BY <2>1, <2>3, <2>4
  <1> HIDE DEF h, c
  <1>11. /\ task' = Idle \/ /\ task'.op = "table" /\ task'.slot = s
                            /\ task'.cluster \in own[f] /\ task' \in TableTask
         /\ task' = Idle => got.result # 0
    <2>1. CASE got.result # 0
      BY <1>3, <2>1
    <2>2. CASE got.result = 0
      <3>1. task' = [task EXCEPT !.cluster = got.buf[BufSize], !.index = @ + BufSize - 1]
        BY <1>3, <2>2
      <3>2. got.buf[BufSize] \in own[f] /\ got.buf[BufSize] \in FatIndex
        BY <1>2, <1>7, <2>2
      <3>3. task.index + BufSize - 1 \in Nat
        BY <1>1, FatAssumption
      <3>4. /\ task' \in TableTask /\ task'.slot = task.slot
            /\ task'.cluster = got.buf[BufSize] /\ task'.op = "table"
        BY <1>1, <3>1, <3>2, <3>3 DEF TableTask, Position
      <3>5. task' # Idle
        BY <3>4 DEF Idle
      <3> QED BY <1>s, <3>2, <3>4, <3>5
    <2> QED BY <2>1, <2>2
  <1>12. \A g \in File : ~ Deleting(g) /\ ~ Deleting(g)'
    BY <1>1, <1>11 DEF Deleting, Idle
  <1>13. OwnersOK(own)' /\ StartsOK(own)'
    BY <1>3, <1>12, OwnersStay
  <1>14. \A t \in Slot : handle[t].open => handle[t].file \in File
    BY OpenIs DEF OpenFile
  <1>15. HandlesOK(own)'
    <2>1. ASSUME NEW t \in Slot, handle'[t].open PROVE HandleOK(own, handle[t])'
      <3>1. CASE t = s
        BY <1>1, <1>3, <1>7, <1>8, <1>9, <1>10, <1>12, <3>1 DEF HandleOK, Exists
      <3>2. CASE t # s
        BY <1>3, <1>5, <1>12, <1>14, <2>1, <3>2 DEF HandlesOK, HandleOK, Exists
      <3> QED BY <3>1, <3>2
    <2> QED BY <2>1 DEF HandlesOK
  <1>16. OpenOnce'
    <2>1. \A t \in Slot : handle'[t].open => handle[t].open /\ handle'[t].file = handle[t].file
      BY <1>1, <1>5, <1>10 DEF h
    <2> QED BY <2>1 DEF OpenOnce
  <1>17. TaskOK(own)'
    BY <1>10, <1>11 DEF TaskOK, Idle
  <1>18. Lossless(own)'
    <2> SUFFICES ASSUME ~ ranOut PROVE Lossless(own)'
      BY <1>3 DEF Lossless
    <2>1. AllOwned(own)' /\ CacheIsChain /\ CacheIsChain'
      BY <1>1, <1>3, <1>4 DEF Lossless, AllOwned
    <2>2. AllReached(own)'
      BY <1>3, <1>12 DEF Lossless, AllReached, Exists, Root
    <2>3. EndsOK'
      <3>1. EndsOK /\ \A t \in Slot \ {s} : ~ Changing(t)
        BY <1>1, <1>s DEF Lossless, Changing
      <3>2. task'.op # "grow"
        BY <1>11 DEF Idle
      <3>3. \A t \in Slot \ {s} : handle'[t].open => fat[handle'[t].lastCluster] = EOF
        BY <1>5, <3>1 DEF EndsOK
      <3>4. ~ Changing(s)' => fat[handle'[s].lastCluster] = EOF
        BY <1>2, <1>10, <1>11, <2>1 DEF Changing
      <3> QED BY <1>3, <3>2, <3>3, <3>4 DEF EndsOK
    <2> QED BY <2>1, <2>2, <2>3 DEF Lossless
  <1>19. TypeOK'
    <2>1. FatTypeOK'
      <3>1. lastResult' \in -1 .. BufSize
        BY <1>2, <1>3, FatAssumption
      <3>2. lastChain' \in FatIndex
        BY <1>1, <1>3, Owner DEF c
      <3> QED BY <1>2, <1>3, <3>1, <3>2 DEF TypeOK, FatTypeOK
    <2>2. handle' \in [Slot -> OpenFile \union {Closed}]
      BY <1>5, <1>10 DEF TypeOK
    <2>3. task' \in Task
      BY <1>11 DEF Task
    <2> QED BY <1>3, <2>1, <2>2, <2>3 DEF TypeOK
  <1> QED BY <1>4, <1>13, <1>15, <1>16, <1>17, <1>18, <1>19

(* One buffer of a transfer: the next cluster it asks for is of the file,  *)
(* and the last one of cbuf unless cbuf has it first.                      *)
LEMMA TransferStep ==
  ASSUME TypeOK, NEW own, Owns(own), Transfer
  PROVE  Owns(own)' /\ TypeOK'
  <1> USE DEF Owns
  <1>0. /\ task.op = "io" /\ task \in IOTask
        /\ task.slot \in Slot /\ task.index \in Nat /\ task.skip \in Nat /\ task.left \in Nat
        /\ task.start \in BOOLEAN
    <2>1. task.op = "io" /\ task \in IOTask
      BY TaskIs DEF Transfer
    <2> QED BY <2>1 DEF IOTask, Position
  <1>s. PICK s \in Slot : s = task.slot
    BY <1>0
  <1> DEFINE h == handle[s]
             f == h.file
             c == task.cluster
             start == task.start
             got == GetClusterChain(c, start)
             n == ChainSize(got.result)
             next == IF got.result = 0 THEN got.buf[BufSize] ELSE c
             used == Used(n)
  <1>1. /\ h.open /\ h \in OpenFile /\ f \in File /\ c \in own[f]
        /\ ~ start /\ c # lastChain => /\ lastChain \in own[f]
                                       /\ lastResult = 0 /\ c = cbuf[BufSize]
    <2>1. /\ h.open /\ c \in own[f]
          /\ ~ start /\ c # lastChain => /\ lastChain \in own[f]
                                         /\ lastResult = 0 /\ c = cbuf[BufSize]
      BY <1>0, <1>s DEF TaskOK
    <2>2. h \in OpenFile
      BY <2>1, OpenIs
    <2> QED BY <2>1, <2>2 DEF OpenFile
  <1>2. /\ got.buf \in [1 .. BufSize -> FatIndex]
        /\ got.result \in 0 .. BufSize - 1 /\ n \in 1 .. BufSize
        /\ got.result = 0 => n = BufSize
        /\ Buffered(fat, own[f], dirent[f].start, got.buf, n)
    <2> HIDE DEF f, c, got, n, start
    <2>1. f \in File /\ c \in own[f] /\ got = GetClusterChain(c, start) /\ n = ChainSize(got.result)
          /\ start \in BOOLEAN
      BY <1>0, <1>1 DEF got, n, start
    <2> QED BY <1>1, <2>1, ReadBuffer
  <1>3. /\ UNCHANGED <<fat, clStack, clStackLast, dirent, handle, ranOut>> /\ Loaded(got, c)
        /\ cbuf' = got.buf /\ lastChain' = c /\ lastResult' = got.result
        /\ \/ /\ task.skip >= BufSize
              /\ task' = [task EXCEPT !.cluster = next, !.start = FALSE, !.skip = @ - BufSize]
              /\ UNCHANGED touched
           \/ /\ ~ (task.skip >= BufSize)
              /\ touched' = touched \union
                    {<<task.index + i, got.buf[task.skip + 1 + i]>> : i \in 0 .. used - 1}
              /\ task' = [task EXCEPT !.cluster = next, !.start = FALSE, !.skip = 0,
                             !.index = @ + used,
                             !.left = IF got.result = 0 THEN @ - used ELSE 0]
    BY DEF Transfer, Loaded, stackVars
  <1>4. CacheOK(own)' /\ (CacheIsChain => CacheIsChain')
    <2> HIDE DEF f, c, got, start
    <2>1. f \in File /\ c \in own[f] /\ start \in BOOLEAN /\ got = GetClusterChain(c, start)
      BY <1>0, <1>1 DEF got, start
    <2> QED BY <1>1, <1>3, <2>1, CacheLoaded
  <1>5. used \in Nat /\ used <= task.left /\ \A i \in 0 .. used - 1 : task.skip + 1 + i \in 1 .. n
    <2> HIDE DEF n
    <2> QED BY <1>0, <1>2, FatAssumption, SMTT(60) DEF Used
  <1> HIDE DEF got, n, used
  <1>6. next \in own[f] /\ next \in FatIndex /\ (next # c => got.result = 0 /\ next = got.buf[BufSize])
    <2>1. n \in 1 .. n
      BY <1>2
    <2> QED BY <1>1, <1>2, <2>1, Owner DEF Buffered
  <1> HIDE DEF next, c, start
  <1>7. /\ task' \in IOTask /\ task'.op = "io" /\ task'.slot = s /\ task'.cluster = next
        /\ ~ task'.start /\ touched' \subseteq (Position \X FatIndex)
    <2>1. CASE task.skip >= BufSize
      <3>1. task' = [task EXCEPT !.cluster = next, !.start = FALSE, !.skip = @ - BufSize]
            /\ touched' = touched
        BY <1>3, <2>1
      <3>2. task.skip - BufSize \in Nat
        BY <1>0, <2>1, FatAssumption
      <3> QED BY <1>0, <1>6, <1>s, <3>1, <3>2 DEF IOTask, Position, TypeOK
    <2>2. CASE ~ (task.skip >= BufSize)
      <3> DEFINE new == {<<task.index + i, got.buf[task.skip + 1 + i]>> : i \in 0 .. used - 1}
                 left == IF got.result = 0 THEN task.left - used ELSE 0
      <3>1. /\ task' = [task EXCEPT !.cluster = next, !.start = FALSE, !.skip = 0,
                             !.index = @ + used, !.left = left]
            /\ touched' = touched \union new
        BY <1>3, <2>2
      <3>2. task.index + used \in Nat /\ left \in Nat
        BY <1>0, <1>5
      <3>3. new \subseteq (Position \X FatIndex)
        <4> SUFFICES ASSUME NEW i \in 0 .. used - 1
                     PROVE  <<task.index + i, got.buf[task.skip + 1 + i]>> \in Position \X FatIndex
          OBVIOUS
        <4>1. task.index + i \in Nat /\ task.skip + 1 + i \in 1 .. n
          BY <1>0, <1>5
        <4>2. task.skip + 1 + i \in 1 .. BufSize
          BY <1>0, <1>2, <4>1, FatAssumption
        <4>3. got.buf[task.skip + 1 + i] \in FatIndex
          BY <1>2, <4>2
        <4> QED BY <4>1, <4>3 DEF Position
      <3> HIDE DEF new, left
      <3>4. task' \in IOTask /\ task'.op = "io" /\ task'.slot = s /\ task'.cluster = next
            /\ ~ task'.start
        BY <1>0, <1>6, <1>s, <3>1, <3>2 DEF IOTask, Position
      <3> QED BY <3>1, <3>3, <3>4 DEF TypeOK
    <2> QED BY <2>1, <2>2
  <1>8. \A g \in File : ~ Deleting(g) /\ ~ Deleting(g)'
    BY <1>0, <1>7 DEF Deleting
  <1>9. OwnersOK(own)' /\ StartsOK(own)'
    BY <1>3, <1>8, OwnersStay
  <1>10. HandlesOK(own)' /\ OpenOnce'
    BY <1>3, <1>8, OpenIs DEF HandlesOK, HandleOK, OpenOnce, Exists, OpenFile
  <1>11. TaskOK(own)'
    BY <1>1, <1>3, <1>6, <1>7 DEF TaskOK
  <1>12. Lossless(own)'
    <2> SUFFICES ASSUME ~ ranOut PROVE Lossless(own)'
      BY <1>3 DEF Lossless
    <2>1. AllOwned(own)' /\ CacheIsChain'
      BY <1>0, <1>3, <1>4 DEF Lossless, AllOwned
    <2>2. AllReached(own)'
      BY <1>3, <1>8 DEF Lossless, AllReached, Exists, Root
    <2>3. EndsOK'
      BY <1>0, <1>3, <1>7 DEF Lossless, EndsOK, Changing
    <2> QED BY <2>1, <2>2, <2>3 DEF Lossless
  <1>13. TypeOK'
    <2>1. FatTypeOK'
      <3>1. lastResult' \in -1 .. BufSize
        BY <1>2, <1>3, FatAssumption
      <3>2. lastChain' \in FatIndex
        BY <1>1, <1>3, Owner
      <3> QED BY <1>2, <1>3, <3>1, <3>2 DEF TypeOK, FatTypeOK
    <2> QED BY <1>3, <1>7, <2>1 DEF TypeOK, Task
  <1> QED BY <1>4, <1>9, <1>10, <1>11, <1>12, <1>13

(* Calls that leave the table and cbuf: the types.                         *)
LEMMA CallTyped ==
  ASSUME TypeOK, UNCHANGED <<fatVars, touched, ranOut>>, task' \in Task,
         dirent' \in [File -> Dirent], handle' \in [Slot -> OpenFile \union {Closed}]
  PROVE  TypeOK'
  BY DEF TypeOK, FatTypeOK, fatVars

(* The calls up to their first buffer keep the types.                      *)
LEMMA CallsTyped ==
  ASSUME TypeOK, NEW own, Owns(own),
         \/ \E s \in Slot, f \in File : Open(s, f) \/ OpenTruncated(s, f)
         \/ \E s \in Slot : Close(s) \/ Read(s) \/ Write(s)
         \/ \E f \in File : Remove(f)
  PROVE  TypeOK'
  <1>1. ASSUME NEW f \in File PROVE dirent[f].start \in FatIndex /\ dirent[f].size \in Size
    <2>1. dirent[f] \in Dirent
      BY DEF TypeOK
    <2>2. dirent[f].start \in Cluster \union {0} /\ dirent[f].size \in Size
      BY <2>1 DEF Dirent
    <2>3. 0 \in FatIndex
      BY FatAssumption DEF FatIndex
    <2> QED BY <2>2, <2>3, ClusterIs
  <1>2. ASSUME NEW s \in Slot, NEW f \in File, Open(s, f) PROVE TypeOK'
    <2>1. NewHandle(f, dirent[f].start, dirent[f].size) \in OpenFile
      BY <1>1, NewHandleIs
    <2>2. handle' \in [Slot -> OpenFile \union {Closed}]
      BY <1>2, <2>1 DEF Open, TypeOK
    <2>3. task' \in Task
      BY <1>1, <1>2 DEF Open, ReadTable, Task, TableTask, Position
    <2> QED BY <1>2, <2>2, <2>3, CallTyped DEF Open, TypeOK
  <1>3. ASSUME NEW s \in Slot, NEW f \in File, OpenTruncated(s, f) PROVE TypeOK'
    <2>1. task' \in Task
      BY <1>1, <1>3 DEF OpenTruncated, Task, DeleteTask
    <2> QED BY <1>3, <2>1, CallTyped DEF OpenTruncated, TypeOK
  <1>4. ASSUME NEW s \in Slot, Close(s) PROVE TypeOK'
    <2>1. handle[s] \in OpenFile
      BY <1>4, OpenIs DEF Close
    <2>2. handle[s].file \in File /\ handle[s].size \in Size
      BY <2>1 DEF OpenFile
    <2>3. dirent' \in [File -> Dirent]
      BY <1>4, <2>2 DEF Close, TypeOK, Dirent
    <2>4. handle' \in [Slot -> OpenFile \union {Closed}]
      BY <1>4 DEF Close, TypeOK
    <2> QED BY <1>4, <2>3, <2>4, CallTyped DEF Close, TypeOK
  <1>5. ASSUME NEW s \in Slot, Read(s) PROVE TypeOK'
    BY <1>5, ReadStep, CallTyped DEF Read, TypeOK
  <1>6. ASSUME NEW s \in Slot, Write(s) PROVE TypeOK'
    BY <1>6, WriteStep, CallTyped DEF Write, TypeOK
  <1>7. ASSUME NEW f \in File, Remove(f) PROVE TypeOK'
    <2>1. task' \in Task
      <3>1. 0 \in {0} \union Slot
        OBVIOUS
      <3> QED BY <1>1, <1>7, <3>1 DEF Remove, Task, DeleteTask
    <2>2. NoFile \in Dirent
      BY FilesAssumption DEF NoFile, Dirent, Size
    <2>3. dirent' \in [File -> Dirent]
      BY <1>7, <2>2 DEF Remove, TypeOK
    <2> QED BY <1>7, <2>1, <2>3, CallTyped DEF Remove, TypeOK
  <1> QED BY <1>2, <1>3, <1>4, <1>5, <1>6, <1>7

(* A write that fails keeps the types.                                     *)
LEMMA GrowFailsTyped ==
  ASSUME TypeOK, GrowFails
  PROVE  TypeOK'
  BY DEF GrowFails, TypeOK, FatTypeOK, fatVars, Task
-----------------------------------------------------------------------------
(* Taking a cluster.                                                       *)
LEMMA StackIs ==
  ASSUME NEW d \in Stack
  PROVE  d \in clStack \/ (d \in Cluster /\ fat[d] = 0)
  BY DEF Stack, EmptyClusters

(* The cluster that is taken is of no file, in no directory entry and not  *)
(* in the stack any more.                                                  *)
LEMMA FreeIs ==
  ASSUME TypeOK, NEW own, OwnersOK(own), StartsOK(own), task.op # "delete",
         NEW cur, NEW c, GetFreeCluster(cur, c)
  PROVE  /\ c \in Cluster /\ c \notin clStack' /\ clStack' \subseteq Cluster /\ clStackLast' \in FatIndex
         /\ \A f \in File : c \notin own[f] /\ own[f] \intersect clStack' = {}
         /\ \A f \in File : Exists(f) => dirent[f].start # c /\ dirent[f].start \notin clStack'
         /\ fat' = Linked(fat, cur, c)
  <1>1. c \in Stack /\ clStack' = Stack \ {c} /\ fat' = Linked(fat, cur, c)
    BY DEF GetFreeCluster, IsTop
  <1>2. Stack \subseteq Cluster
    BY StackIs DEF TypeOK, FatTypeOK
  <1>3. ASSUME NEW f \in File PROVE own[f] \intersect Stack = {}
    <2> SUFFICES ASSUME NEW x \in own[f], x \in Stack PROVE FALSE
      OBVIOUS
    <2>1. x \notin clStack
      BY DEF OwnersOK
    <2>2. fat[x] = EOF \/ fat[x] \in Cluster
      BY DEF OwnersOK, Inside
    <2> QED BY <2>1, <2>2, StackIs, ClusterIs
  <1>4. ASSUME NEW f \in File, Exists(f) PROVE dirent[f].start \notin Stack
    <2>1. dirent[f].start \in own[f]
      BY <1>4 DEF StartsOK, Deleting
    <2> QED BY <1>3, <2>1
  <1>5. clStackLast' \in FatIndex
    BY <1>2, ClusterIs DEF GetFreeCluster, TypeOK, FatTypeOK
  <1> QED BY <1>1, <1>2, <1>3, <1>4, <1>5

(* A free cluster put to the clusters of a file, as their last one.        *)
LEMMA NewChain ==
  ASSUME NEW t, NEW u, NEW S \in SUBSET Cluster, Inside(t, S), NEW c \in Cluster, c \notin S,
         u[c] = EOF, \A x \in S : u[x] = t[x]
  PROVE  /\ Inside(u, S \union {c})
         /\ Injective(t, S) => Injective(u, S \union {c})
         /\ NoPred(u, S \union {c}, c)
         /\ \A st, buf, n : Buffered(t, S, st, buf, n) => Buffered(u, S \union {c}, c, buf, n)
         /\ S = {} => Reached(u, S \union {c}, c)
  <1> DEFINE Q == S \union {c}
  <1>0. c # EOF /\ EOF \notin Cluster
    BY ClusterIs
  <1>1. Inside(u, Q) /\ (Injective(t, S) => Injective(u, Q)) /\ NoPred(u, Q, c)
    BY <1>0 DEF Inside, Injective, NoPred
  <1>2. ASSUME NEW st, NEW buf, NEW n, Buffered(t, S, st, buf, n) PROVE Buffered(u, Q, c, buf, n)
    <2> SUFFICES ASSUME NEW i \in 1 .. n
                 PROVE  /\ buf[i] \in Q
                        /\ i > 1 => buf[i] # c /\ \A x \in Q : u[x] = buf[i] => x = buf[i - 1]
      BY DEF Buffered
    <2>1. buf[i] \in S /\ (i > 1 => \A x \in S : t[x] = buf[i] => x = buf[i - 1])
      BY <1>2 DEF Buffered
    <2>2. \A x \in Q : u[x] = buf[i] => x \in S /\ t[x] = buf[i]
      BY <1>0, <2>1
    <2> QED BY <2>1, <2>2
  <1>3. S = {} => Reached(u, Q, c)
    BY DEF Reached
  <1> QED BY <1>1, <1>2, <1>3

With(own, f, c) == [own EXCEPT ![f] = @ \union {c}]

(* Cluster c becomes one of the clusters of f: behind cur, or as the start *)
(* of a file that did not exist.                                           *)
LEMMA ClusterAdded ==
  ASSUME TypeOK, NEW own, Owns(own), task.op # "delete", task'.op # "delete",
         NEW f \in File, NEW cur, NEW c, GetFreeCluster(cur, c),
         \A g \in File \ {f} : dirent'[g].start = dirent[g].start,
         \/ cur = 0 /\ ~ Exists(f) /\ dirent'[f].start = c
         \/ cur \in own[f] /\ Exists(f) /\ dirent'[f].start = dirent[f].start,
         NEW o2, o2 = With(own, f, c)
  PROVE  /\ c \in Cluster /\ c \in o2[f]
         /\ fat' \in [FatIndex -> FatValue] /\ fat'[c] = EOF
         /\ clStack' \subseteq Cluster /\ clStackLast' \in FatIndex
         /\ \A g \in File : own[g] \subseteq o2[g] /\ c \notin own[g]
         /\ \A x \in FatIndex : x # c /\ x # cur => fat'[x] = fat[x]
         /\ OwnersOK(o2)' /\ StartsOK(o2)'
         /\ UNCHANGED chainVars => CacheOK(o2)'
         /\ \A g \in File : ~ Deleting(g) /\ ~ Deleting(g)'
         /\ AllOwned(own) => AllOwned(o2)'
         /\ AllReached(own) /\ (cur # 0 => fat[cur] = EOF) => AllReached(o2)'
  <1> USE DEF Owns, With
  <1>1. /\ c \in Cluster /\ c \notin clStack' /\ clStack' \subseteq Cluster /\ clStackLast' \in FatIndex
        /\ \A g \in File : c \notin own[g] /\ own[g] \intersect clStack' = {}
        /\ \A g \in File : Exists(g) => dirent[g].start # c /\ dirent[g].start \notin clStack'
        /\ fat' = Linked(fat, cur, c)
    BY FreeIs
  <1>2. /\ own \in [File -> SUBSET Cluster] /\ o2 \in [File -> SUBSET Cluster] /\ c \in FatIndex
        /\ o2[f] = own[f] \union {c} /\ \A g \in File \ {f} : o2[g] = own[g]
    BY <1>1, ClusterIs DEF OwnersOK
  <1>3. \/ cur = 0
        \/ cur \in own[f] /\ cur \in Cluster /\ cur \in FatIndex /\ cur # c /\ cur # 0
    <2>1. CASE cur \in own[f]
      <3>1. cur \in Cluster /\ cur # c
        BY <1>1, <1>2, <2>1
      <3> QED BY <2>1, <3>1, ClusterIs
    <2> QED BY <2>1
  <1>4. /\ fat' \in [FatIndex -> FatValue] /\ fat'[c] = EOF
        /\ \A x \in FatIndex : x # c /\ x # cur => fat'[x] = fat[x]
        /\ cur # 0 => fat'[cur] = c
    <2>1. EOF \in FatValue /\ c \in FatValue
      BY <1>2, ClusterIs
    <2>2. fat \in [FatIndex -> FatValue]
      BY DEF TypeOK, FatTypeOK
    <2> QED BY <1>1, <1>2, <1>3, <2>1, <2>2 DEF Linked
  <1>5. \A g \in File : ~ Deleting(g) /\ ~ Deleting(g)'
    BY DEF Deleting
  <1>6. \A g \in File : /\ Inside(fat, own[g]) /\ Injective(fat, own[g])
                        /\ NoPred(fat, own[g], dirent[g].start) /\ own[g] \in SUBSET Cluster
    BY <1>2 DEF OwnersOK
  <1>7. ASSUME NEW g \in File \ {f}
        PROVE  /\ own[g] \in SUBSET Cluster /\ Inside(fat, own[g])
               /\ \A x \in own[g] : fat'[x] = fat[x]
    <2>1. \A x \in own[g] : x \in FatIndex /\ x # c
      BY <1>1, <1>6, ClusterIs
    <2>2. cur \notin own[g]
      BY <1>3, <1>6, ClusterIs DEF OwnersOK
    <2> QED BY <1>4, <1>6, <2>1, <2>2
  <1>8. \A x \in own[f] : x # cur => fat'[x] = fat[x]
    BY <1>1, <1>4, <1>6, ClusterIs
  <1>9. CASE cur = 0
    <2>1. /\ ~ Exists(f) /\ dirent'[f].start = c
          /\ \A x \in own[f] : fat'[x] = fat[x]
      BY <1>6, <1>8, <1>9, <1>3, ClusterIs
    <2>2. /\ Inside(fat', o2[f]) /\ Injective(fat', o2[f]) /\ NoPred(fat', o2[f], dirent'[f].start)
          /\ \A st, buf, n : Buffered(fat, own[f], st, buf, n) => Buffered(fat', o2[f], c, buf, n)
          /\ own[f] = {} => Reached(fat', o2[f], c)
      <3> DEFINE S == own[f]
                 u == fat'
      <3>1. /\ S \in SUBSET Cluster /\ Inside(fat, S) /\ Injective(fat, S) /\ c \notin S
            /\ u[c] = EOF /\ \A x \in S : u[x] = fat[x]
        BY <1>1, <1>4, <1>6, <2>1
      <3> HIDE DEF S, u
      <3>2. /\ Inside(u, S \union {c}) /\ Injective(u, S \union {c}) /\ NoPred(u, S \union {c}, c)
            /\ \A st, buf, n : Buffered(fat, S, st, buf, n) => Buffered(u, S \union {c}, c, buf, n)
            /\ S = {} => Reached(u, S \union {c}, c)
        BY <1>1, <3>1, NewChain
      <3> QED BY <1>2, <2>1, <3>2 DEF S, u
    <2>3. \A g \in File \ {f} :
            /\ Inside(fat', o2[g]) /\ Injective(fat', o2[g]) /\ NoPred(fat', o2[g], dirent'[g].start)
            /\ \A st, buf, n : Buffered(fat, own[g], st, buf, n) => Buffered(fat', o2[g], st, buf, n)
            /\ \A r \in own[g] : Reached(fat, own[g], r) => Reached(fat', o2[g], r)
      BY <1>2, <1>6, <1>7, SameChain
    <2>4. OwnersOK(o2)'
      BY <1>1, <1>2, <2>2, <2>3 DEF OwnersOK
    <2>5. StartsOK(o2)'
      BY <1>1, <1>2, <1>5, <2>1 DEF StartsOK, Exists
    <2>6. UNCHANGED chainVars => CacheOK(o2)'
      <3> SUFFICES ASSUME UNCHANGED chainVars, lastChain \in Cluster PROVE CacheOK(o2)'
        BY DEF CacheOK, chainVars
      <3>1. PICK g \in File : CacheOf(own, g)
        BY DEF CacheOK
      <3>2. lastChain \in own[g] /\ lastChain \in o2[g] /\ lastChain # c
        BY <1>1, <1>2, <3>1 DEF CacheOf
      <3>3. CacheOf(o2, g)'
        BY <1>2, <2>1, <2>2, <2>3, <3>1, <3>2 DEF CacheOf, chainVars
      <3> QED BY <3>3 DEF CacheOK, chainVars
    <2>7. AllOwned(own) => AllOwned(o2)'
      <3>1. \A x \in Cluster : x # c => fat'[x] = fat[x]
        BY <1>4, <1>9, ClusterIs
      <3> QED BY <1>2, <3>1 DEF AllOwned
    <2>8. AllReached(own) => AllReached(o2)'
      <3> SUFFICES ASSUME AllReached(own), NEW g \in File
                   PROVE  (IF Exists(g) \/ Deleting(g) THEN Reached(fat, o2[g], Root(g)) ELSE o2[g] = {})'
        BY DEF AllReached
      <3>1. CASE g = f
        BY <1>5, <2>1, <2>2, <3>1, ClusterIs, <1>1 DEF AllReached, Exists, Root
      <3>2. CASE g # f
        <4>1. Exists(g) => dirent[g].start \in own[g]
          BY <1>5 DEF StartsOK
        <4> QED BY <1>2, <1>5, <2>3, <3>2, <4>1 DEF AllReached, Exists, Root
      <3> QED BY <3>1, <3>2
    <2> QED BY <1>1, <1>2, <1>4, <1>5, <2>4, <2>5, <2>6, <2>7, <2>8
  <1>10. CASE cur # 0
    <2>1. /\ Exists(f) /\ dirent'[f].start = dirent[f].start /\ cur \in own[f]
          /\ dirent[f].start # c /\ dirent[f].start # EOF /\ fat'[cur] = c
          /\ \A x \in own[f] \ {cur} : fat'[x] = fat[x]
      <3>1. dirent[f].start \in Cluster
        BY <1>3, <1>5, <1>6, <1>10 DEF StartsOK
      <3> QED BY <1>1, <1>3, <1>4, <1>8, <1>10, <3>1, ClusterIs
    <2>2. /\ Inside(fat', o2[f]) /\ Injective(fat', o2[f]) /\ NoPred(fat', o2[f], dirent'[f].start)
          /\ \A st, buf, n : Buffered(fat, own[f], st, buf, n) => Buffered(fat', o2[f], st, buf, n)
          /\ \A r \in own[f] : Reached(fat, own[f], r) /\ fat[cur] = EOF => Reached(fat', o2[f], r)
      <3> DEFINE S == own[f]
                 u == fat'
                 st == dirent[f].start
      <3>1. /\ S \in SUBSET Cluster /\ Inside(fat, S) /\ Injective(fat, S) /\ c \notin S
            /\ NoPred(fat, S, st) /\ cur \in S /\ st # c /\ st # EOF
            /\ u[c] = EOF /\ u[cur] = c /\ \A x \in S \ {cur} : u[x] = fat[x]
        BY <1>1, <1>4, <1>6, <2>1
      <3> HIDE DEF S, u, st
      <3>2. /\ Inside(u, S \union {c}) /\ Injective(u, S \union {c}) /\ NoPred(u, S \union {c}, st)
            /\ \A x, buf, n : Buffered(fat, S, x, buf, n) => Buffered(u, S \union {c}, x, buf, n)
            /\ \A r \in S : Reached(fat, S, r) /\ fat[cur] = EOF => Reached(u, S \union {c}, r)
        BY <1>1, <3>1, GrownChain
      <3> QED BY <1>2, <2>1, <3>2 DEF S, u, st
    <2>3. \A g \in File \ {f} :
            /\ Inside(fat', o2[g]) /\ Injective(fat', o2[g]) /\ NoPred(fat', o2[g], dirent'[g].start)
            /\ \A st, buf, n : Buffered(fat, own[g], st, buf, n) => Buffered(fat', o2[g], st, buf, n)
            /\ \A r \in own[g] : Reached(fat, own[g], r) => Reached(fat', o2[g], r)
      BY <1>2, <1>6, <1>7, SameChain
    <2>4. OwnersOK(o2)'
      BY <1>1, <1>2, <2>2, <2>3 DEF OwnersOK
    <2>5. StartsOK(o2)'
      BY <1>1, <1>2, <1>5, <2>1 DEF StartsOK, Exists
    <2>6. UNCHANGED chainVars => CacheOK(o2)'
      <3> SUFFICES ASSUME UNCHANGED chainVars, lastChain \in Cluster PROVE CacheOK(o2)'
        BY DEF CacheOK, chainVars
      <3>1. PICK g \in File : CacheOf(own, g)
        BY DEF CacheOK
      <3>2. lastChain \in o2[g] /\ dirent'[g].start = dirent[g].start
        BY <1>2, <2>1, <3>1 DEF CacheOf
      <3>3. CacheOf(o2, g)'
        BY <2>2, <2>3, <3>1, <3>2 DEF CacheOf, chainVars
      <3> QED BY <3>3 DEF CacheOK, chainVars
    <2>7. AllOwned(own) => AllOwned(o2)'
      <3>1. \A x \in Cluster : x # c /\ x # cur => fat'[x] = fat[x]
        BY <1>4, ClusterIs
      <3> QED BY <1>2, <2>1, <3>1 DEF AllOwned
    <2>8. AllReached(own) /\ fat[cur] = EOF => AllReached(o2)'
      <3> SUFFICES ASSUME AllReached(own), fat[cur] = EOF, NEW g \in File
                   PROVE  (IF Exists(g) \/ Deleting(g) THEN Reached(fat, o2[g], Root(g)) ELSE o2[g] = {})'
        BY DEF AllReached
      <3>1. Exists(g) => dirent[g].start \in own[g]
        BY <1>5 DEF StartsOK
      <3>2. CASE g = f
        BY <1>5, <2>1, <2>2, <3>1, <3>2 DEF AllReached, Exists, Root
      <3>3. CASE g # f
        BY <1>2, <1>5, <2>3, <3>1, <3>3 DEF AllReached, Exists, Root
      <3> QED BY <3>2, <3>3
    <2> QED BY <1>1, <1>2, <1>4, <1>5, <1>10, <2>4, <2>5, <2>6, <2>7, <2>8
  <1> QED BY <1>9, <1>10

(* cbuf stays a part of its chain if the chains stay.                      *)
LEMMA CacheChainStays ==
  ASSUME NEW own, CacheOK(own), CacheIsChain, UNCHANGED chainVars,
         \A g \in File : \A x \in own[g] : fat'[x] = fat[x]
  PROVE  CacheIsChain'
  <1> SUFFICES ASSUME lastChain \in Cluster PROVE CacheIsChain'
    BY DEF CacheIsChain, chainVars
  <1> DEFINE n == ChainSize(lastResult)
  <1>1. PICK g \in File : CacheOf(own, g)
    BY DEF CacheOK
  <1>2. \A i \in 1 .. n : cbuf[i] \in own[g] /\ fat'[cbuf[i]] = fat[cbuf[i]]
    BY <1>1 DEF CacheOf, Buffered
  <1>3. lastResult \in 0 .. BufSize - 1
    BY DEF CacheOK
  <1>4. /\ n \in 1 .. BufSize
        /\ lastResult # 0 => lastResult \in 1 .. n
    BY <1>3, FatAssumption DEF ChainSize
  <1> HIDE DEF n
  <1>5. Forward(fat, cbuf, n) /\ (lastResult # 0 => fat[cbuf[lastResult]] = EOF)
    BY DEF CacheIsChain, n
  <1>6. \A i \in 1 .. n - 1 : i \in 1 .. n
    BY <1>4
  <1>7. Forward(fat', cbuf, n) /\ (lastResult # 0 => fat'[cbuf[lastResult]] = EOF)
    BY <1>2, <1>4, <1>5, <1>6 DEF Forward
  <1> QED BY <1>7 DEF CacheIsChain, n, chainVars

(* fs_open with O_CREAT.                                                   *)
LEMMA CreateStep ==
  ASSUME TypeOK, ~ ByPath, NEW own, Owns(own), NEW s \in Slot, NEW f \in File, Create(s, f)
  PROVE  (\E o : Owns(o)') /\ TypeOK'
  <1> USE DEF Owns
  <1>1. PICK c \in Cluster :
          /\ GetFreeCluster(0, c)
          /\ dirent' = [dirent EXCEPT ![f] = [start |-> c, size |-> 0]]
          /\ handle' = [handle EXCEPT ![s] = NewHandle(f, c, 0)]
          /\ task' = [op |-> "table", slot |-> s, cluster |-> c, index |-> 0]
    BY DEF Create, ReadTable
  <1>2. /\ task = Idle /\ task.op = "none" /\ task'.op = "table"
        /\ ~ Exists(f) /\ UNCHANGED <<chainVars, touched, ranOut>>
    BY <1>1, IdleIs DEF Create
  <1>3. PICK o2 : o2 = With(own, f, c)
    OBVIOUS
  <1>4. \A g \in File : dirent'[g] = IF g = f THEN [start |-> c, size |-> 0] ELSE dirent[g]
    BY <1>1 DEF TypeOK
  <1>5. /\ c \in Cluster /\ c \in o2[f]
        /\ fat' \in [FatIndex -> FatValue] /\ fat'[c] = EOF
        /\ clStack' \subseteq Cluster /\ clStackLast' \in FatIndex
        /\ \A g \in File : own[g] \subseteq o2[g] /\ c \notin own[g]
        /\ \A x \in FatIndex : x # c /\ x # 0 => fat'[x] = fat[x]
        /\ OwnersOK(o2)' /\ StartsOK(o2)'
        /\ UNCHANGED chainVars => CacheOK(o2)'
        /\ \A g \in File : ~ Deleting(g) /\ ~ Deleting(g)'
        /\ AllOwned(own) => AllOwned(o2)'
        /\ AllReached(own) => AllReached(o2)'
    <2>1. \A g \in File \ {f} : dirent'[g].start = dirent[g].start
      BY <1>4
    <2>2. dirent'[f].start = c
      BY <1>4
    <2>3. PICK cur : cur = 0
      OBVIOUS
    <2>4. GetFreeCluster(cur, c) /\ task.op # "delete" /\ task'.op # "delete"
      BY <1>1, <1>2, <2>3
    <2>5. /\ c \in Cluster /\ c \in o2[f]
          /\ fat' \in [FatIndex -> FatValue] /\ fat'[c] = EOF
          /\ clStack' \subseteq Cluster /\ clStackLast' \in FatIndex
          /\ \A g \in File : own[g] \subseteq o2[g] /\ c \notin own[g]
          /\ \A x \in FatIndex : x # c /\ x # cur => fat'[x] = fat[x]
          /\ OwnersOK(o2)' /\ StartsOK(o2)'
          /\ UNCHANGED chainVars => CacheOK(o2)'
          /\ \A g \in File : ~ Deleting(g) /\ ~ Deleting(g)'
          /\ AllOwned(own) => AllOwned(o2)'
          /\ AllReached(own) /\ (cur # 0 => fat[cur] = EOF) => AllReached(o2)'
      BY <1>2, <1>3, <2>1, <2>2, <2>3, <2>4, ClusterAdded
    <2> QED BY <2>3, <2>5
  <1>6. \A g \in File : \A x \in own[g] : fat'[x] = fat[x]
    <2> SUFFICES ASSUME NEW g \in File, NEW x \in own[g] PROVE fat'[x] = fat[x]
      OBVIOUS
    <2>1. x \in Cluster
      BY Owner
    <2> QED BY <1>5, <2>1, ClusterIs
  <1>7. \A t \in Slot : handle'[t] = IF t = s THEN NewHandle(f, c, 0) ELSE handle[t]
    BY <1>1 DEF TypeOK
  <1>8. \A t \in Slot : handle[t].open => handle[t].file # f /\ handle[t].file \in File
    BY NotBusy, OpenIs DEF Create, OpenFile
  <1> DEFINE h == NewHandle(f, c, 0)
  <1>9. /\ h.open /\ h.file = f /\ h.lastCluster = c /\ h.chain[0].index = 0
        /\ \A j \in Seek : h.chain[j].cluster \in o2[f]
    <2>1. 0 \in Seek
      BY FilesAssumption DEF Seek
    <2> QED BY <1>5, <2>1 DEF NewHandle
  <1>10. handle'[s] = h
    BY <1>7
  <1> HIDE DEF h
  <1>11. HandlesOK(o2)'
    <2>1. ASSUME NEW t \in Slot, t # s, handle'[t].open PROVE HandleOK(o2, handle[t])'
      BY <1>4, <1>5, <1>7, <1>8, <2>1 DEF HandlesOK, HandleOK, Exists
    <2>2. Exists(f)'
      BY <1>4, <1>5, ClusterIs DEF Exists
    <2>3. HandleOK(o2, handle[s])'
      BY <1>5, <1>9, <1>10, <2>2 DEF HandleOK
    <2> QED BY <2>1, <2>3 DEF HandlesOK
  <1>12. OpenOnce'
    BY <1>7, <1>8, <1>9, <1>10 DEF OpenOnce
  <1>13. TaskOK(o2)'
    BY <1>1, <1>5, <1>9, <1>10 DEF TaskOK
  <1>14. Lossless(o2)'
    <2> SUFFICES ASSUME ~ ranOut PROVE Lossless(o2)'
      BY <1>2 DEF Lossless
    <2>1. AllOwned(o2)' /\ AllReached(o2)'
      BY <1>5 DEF Lossless
    <2>2. CacheIsChain'
      BY <1>2, <1>6, CacheChainStays DEF Lossless
    <2>3. EndsOK'
      <3>1. ASSUME NEW t \in Slot, t # s, handle'[t].open PROVE fat'[handle'[t].lastCluster] = EOF
        BY <1>2, <1>6, <1>7, <1>8, <3>1, IdleIs DEF Lossless, EndsOK, HandlesOK, HandleOK
      <3>2. Changing(s)'
        BY <1>1 DEF Changing
      <3> QED BY <1>2, <3>1, <3>2 DEF EndsOK
    <2> QED BY <2>1, <2>2, <2>3 DEF Lossless
  <1>15. TypeOK'
    <2>1. FatTypeOK'
      BY <1>2, <1>5 DEF TypeOK, FatTypeOK, chainVars
    <2>2. dirent' \in [File -> Dirent]
      <3>1. [start |-> c, size |-> 0] \in Dirent
        BY FilesAssumption DEF Dirent, Size
      <3> QED BY <1>1, <3>1 DEF TypeOK
    <2>3. handle' \in [Slot -> OpenFile \union {Closed}]
      <3>1. c \in FatIndex /\ 0 \in Size
        BY FilesAssumption, ClusterIs DEF Size
      <3>2. h \in OpenFile
        BY <3>1, NewHandleIs DEF h
      <3> QED BY <1>1, <3>2 DEF TypeOK, h
    <2>4. task' \in Task
      BY <1>1, ClusterIs DEF Task, TableTask, Position
    <2> QED BY <1>2, <2>1, <2>2, <2>3, <2>4 DEF TypeOK
  <1> QED BY <1>2, <1>5, <1>11, <1>12, <1>13, <1>14, <1>15

(* One cluster for fat_writeFile.                                          *)
LEMMA GrowStep ==
  ASSUME TypeOK, NEW own, Owns(own), Grow
  PROVE  (\E o : Owns(o)') /\ TypeOK'
  <1> USE DEF Owns
  <1>0. /\ task.op = "grow" /\ task \in GrowTask
        /\ task.slot \in Slot /\ task.need \in Nat /\ task.pos \in Size /\ task.size \in Size
    <2>1. task.op = "grow" /\ task \in GrowTask
      BY TaskIs DEF Grow
    <2> QED BY <2>1 DEF GrowTask, Position
  <1>s. PICK s \in Slot : s = task.slot
    BY <1>0
  <1>c. PICK cur : cur = task.cur
    OBVIOUS
  <1>f. PICK f : f = handle[s].file
    OBVIOUS
  <1>1. PICK c \in Cluster :
          /\ GetFreeCluster(cur, c)
          /\ \/ /\ task.need > 1
                /\ task' = [task EXCEPT !.need = @ - 1, !.cur = c]
                /\ UNCHANGED <<handle, chainVars>>
             \/ /\ task.need = 1
                /\ handle' = [handle EXCEPT ![s].lastCluster = c]
                /\ task' = StartIO(s, task.pos, task.size, TRUE, TRUE)
                /\ Invalidated
    BY <1>s, <1>c DEF Grow
  <1>2. UNCHANGED <<dirent, touched, ranOut>>
    BY DEF Grow
  <1>3. /\ handle[s].open /\ handle[s] \in OpenFile /\ f \in File /\ HandleOK(own, handle[s])
        /\ cur \in own[f] /\ Exists(f)
    <2>1. handle[s].open /\ cur \in own[f]
      BY <1>0, <1>s, <1>c, <1>f DEF TaskOK
    <2>2. handle[s] \in OpenFile
      BY <2>1, OpenIs
    <2> QED BY <1>f, <2>1, <2>2 DEF HandlesOK, OpenFile, HandleOK
  <1>4. task'.op # "delete"
    <2>1. CASE task' = [task EXCEPT !.need = @ - 1, !.cur = c]
      BY <1>0, <2>1 DEF GrowTask
    <2>2. CASE task' = StartIO(s, task.pos, task.size, TRUE, TRUE)
      BY <2>2 DEF StartIO
    <2> QED BY <1>1, <2>1, <2>2
  <1>5. PICK o2 : o2 = With(own, f, c)
    OBVIOUS
  <1>6. /\ c \in Cluster /\ c \in o2[f]
        /\ fat' \in [FatIndex -> FatValue] /\ fat'[c] = EOF
        /\ clStack' \subseteq Cluster /\ clStackLast' \in FatIndex
        /\ \A g \in File : own[g] \subseteq o2[g] /\ c \notin own[g]
        /\ \A x \in FatIndex : x # c /\ x # cur => fat'[x] = fat[x]
        /\ OwnersOK(o2)' /\ StartsOK(o2)'
        /\ UNCHANGED chainVars => CacheOK(o2)'
        /\ \A g \in File : ~ Deleting(g) /\ ~ Deleting(g)'
        /\ AllOwned(own) => AllOwned(o2)'
        /\ AllReached(own) /\ (cur # 0 => fat[cur] = EOF) => AllReached(o2)'
    <2>1. /\ GetFreeCluster(cur, c) /\ task.op # "delete" /\ task'.op # "delete"
          /\ (\A g \in File \ {f} : dirent'[g].start = dirent[g].start)
          /\ dirent'[f].start = dirent[f].start
      BY <1>0, <1>1, <1>2, <1>4
    <2>2. TypeOK /\ Owns(own)
      OBVIOUS
    <2> HIDE DEF Owns
    <2>3. \/ cur = 0 /\ ~ Exists(f) /\ dirent'[f].start = c
          \/ cur \in own[f] /\ Exists(f) /\ dirent'[f].start = dirent[f].start
      BY <1>3, <2>1
    <2> QED BY <1>3, <1>5, <2>1, <2>2, <2>3, ClusterAdded
  <1>7. \A t \in Slot : t # s /\ handle[t].open =>
          /\ handle[t].file # f /\ handle[t].file \in File
          /\ HandleOK(own, handle[t])
          /\ fat'[handle[t].lastCluster] = fat[handle[t].lastCluster]
    <2> SUFFICES ASSUME NEW t \in Slot, t # s, handle[t].open
                 PROVE  /\ handle[t].file # f /\ handle[t].file \in File
                        /\ HandleOK(own, handle[t])
                        /\ fat'[handle[t].lastCluster] = fat[handle[t].lastCluster]
      OBVIOUS
    <2>1. handle[t].file # f /\ handle[t].file \in File /\ HandleOK(own, handle[t])
      BY <1>3, <1>f, OpenIs DEF OpenOnce, HandlesOK, OpenFile
    <2>2. handle[t].lastCluster \in own[handle[t].file]
      BY <2>1 DEF HandleOK
    <2>3. handle[t].lastCluster \in FatIndex /\ handle[t].lastCluster # cur
      BY <1>3, <2>1, <2>2, Owner
    <2> QED BY <1>6, <2>1, <2>2, <2>3
  <1>8. ASSUME task.need > 1, task' = [task EXCEPT !.need = @ - 1, !.cur = c], UNCHANGED <<handle, chainVars>>
        PROVE  Owns(o2)' /\ TypeOK'
    <2>1. task.need - 1 \in Nat
      BY <1>0, <1>8
    <2>2. /\ task' \in GrowTask /\ task'.op = "grow" /\ task'.cur = c /\ task'.slot = s
          /\ task'.pos = task.pos /\ task'.size = task.size
      BY <1>0, <1>6, <1>8, <1>s, <2>1 DEF GrowTask, Position
    <2>3. HandlesOK(o2)'
      <3> SUFFICES ASSUME NEW t \in Slot, handle[t].open PROVE HandleOK(o2, handle[t])'
        BY <1>8 DEF HandlesOK
      <3>1. HandleOK(own, handle[t]) /\ handle[t].file \in File
        BY <1>3, <1>7, <1>f
      <3> QED BY <1>2, <1>6, <1>8, <3>1 DEF HandleOK, Exists
    <2>4. OpenOnce'
      BY <1>8 DEF OpenOnce
    <2>5. TaskOK(o2)'
      BY <1>0, <1>3, <1>6, <1>8, <1>f, <2>2 DEF TaskOK
    <2>6. Lossless(o2)'
      <3> SUFFICES ASSUME ~ ranOut PROVE Lossless(o2)'
        BY <1>2 DEF Lossless
      <3>1. fat[cur] = EOF
        BY <1>0, <1>c DEF Lossless, EndsOK
      <3>2. AllOwned(o2)' /\ AllReached(o2)'
        BY <1>6, <3>1 DEF Lossless
      <3>3. EndsOK'
        <4>1. \A t \in Slot : ~ Changing(t)' => t # s /\ ~ Changing(t)
          BY <1>s, <2>2 DEF Changing
        <4> QED BY <1>6, <1>7, <1>8, <2>2, <4>1 DEF Lossless, EndsOK
      <3> QED BY <2>2, <3>2, <3>3 DEF Lossless
    <2>7. TypeOK'
      BY <1>2, <1>6, <1>8, <2>2 DEF TypeOK, FatTypeOK, chainVars, Task
    <2> QED BY <1>6, <1>8, <2>3, <2>4, <2>5, <2>6, <2>7
  <1>9. ASSUME handle' = [handle EXCEPT ![s].lastCluster = c],
               task' = StartIO(s, task.pos, task.size, TRUE, TRUE), Invalidated
        PROVE  Owns(o2)' /\ TypeOK'
    <2>1. task' \in IOTask /\ task'.op = "io" /\ task'.slot = s /\ task'.start
          /\ task'.cluster \in own[f]
      <3>1. task' \in IOTask /\ task'.cluster \in own[handle[s].file]
        <4>1. task.pos \in Nat /\ task.size \in Nat \ {0} /\ task.pos + task.size <= MaxSize
          BY <1>0, FilesAssumption DEF TaskOK, Size
        <4> DEFINE pos == task.pos
                   n == task.size
        <4>2. task' = StartIO(s, pos, n, TRUE, TRUE) /\ pos \in Nat /\ n \in Nat \ {0} /\ pos + n <= MaxSize
          BY <1>9, <4>1, Zenon
        <4> HIDE DEF pos, n
        <4> QED BY <1>3, <4>2, StartIOIs, Zenon
      <3>2. task'.op = "io" /\ task'.slot = s /\ task'.start
        BY <1>9 DEF StartIO
      <3> QED BY <1>f, <3>1, <3>2
    <2>2. /\ handle'[s] \in OpenFile /\ handle'[s].open /\ handle'[s].file = f
          /\ handle'[s].lastCluster = c /\ handle'[s].chain = handle[s].chain
          /\ \A t \in Slot \ {s} : handle'[t] = handle[t]
          /\ handle' \in [Slot -> OpenFile \union {Closed}]
      <3>1. handle'[s] = [handle[s] EXCEPT !.lastCluster = c] /\ \A t \in Slot \ {s} : handle'[t] = handle[t]
        BY <1>9 DEF TypeOK
      <3>2. /\ handle'[s] \in OpenFile /\ handle'[s].open /\ handle'[s].file = f
            /\ handle'[s].lastCluster = c /\ handle'[s].chain = handle[s].chain
        <4>1. c \in FatIndex
          BY <1>6, ClusterIs
        <4> QED BY <1>3, <1>f, <3>1, <4>1 DEF OpenFile
      <3>3. handle' = [t \in Slot |-> handle'[t]]
        BY <1>9 DEF TypeOK
      <3>4. \A t \in Slot : handle'[t] \in OpenFile \union {Closed}
        BY <3>1, <3>2 DEF TypeOK
      <3> QED BY <3>1, <3>2, <3>3, <3>4
    <2>3. HandlesOK(o2)'
      <3> SUFFICES ASSUME NEW t \in Slot, handle'[t].open PROVE HandleOK(o2, handle[t])'
        BY DEF HandlesOK
      <3>1. CASE t = s
        BY <1>2, <1>3, <1>6, <1>f, <2>2, <3>1 DEF HandleOK, Exists
      <3>2. CASE t # s
        <4>1. handle'[t] = handle[t] /\ HandleOK(own, handle[t]) /\ handle[t].file \in File
          BY <1>7, <2>2, <3>2
        <4> QED BY <1>2, <1>6, <4>1 DEF HandleOK, Exists
      <3> QED BY <3>1, <3>2
    <2>4. OpenOnce'
      BY <1>7, <2>2 DEF OpenOnce
    <2>5. TaskOK(o2)'
      BY <1>6, <2>1, <2>2, <1>3 DEF TaskOK
    <2>6. CacheOK(o2)' /\ CacheIsChain'
      BY <1>9, ClusterIs DEF CacheOK, CacheIsChain, Invalidated
    <2>7. Lossless(o2)'
      <3> SUFFICES ASSUME ~ ranOut PROVE Lossless(o2)'
        BY <1>2 DEF Lossless
      <3>1. fat[cur] = EOF
        BY <1>0, <1>c DEF Lossless, EndsOK
      <3>2. AllOwned(o2)' /\ AllReached(o2)'
        BY <1>6, <3>1 DEF Lossless
      <3>3. EndsOK'
        <4>1. \A t \in Slot : t # s => ~ Changing(t)
          BY <1>s DEF Changing
        <4>2. ASSUME NEW t \in Slot, handle'[t].open PROVE fat'[handle'[t].lastCluster] = EOF
          <5>1. CASE t = s
            BY <1>6, <2>2, <5>1
          <5>2. CASE t # s
            BY <1>7, <2>2, <4>1, <4>2, <5>2 DEF Lossless, EndsOK
          <5> QED BY <5>1, <5>2
        <4> QED BY <2>1, <4>2 DEF EndsOK
      <3> QED BY <2>6, <3>2, <3>3 DEF Lossless
    <2>8. TypeOK'
      <3>1. lastChain' \in FatIndex /\ UNCHANGED <<cbuf, lastResult>>
        BY <1>9, FatAssumption DEF Invalidated, FatIndex
      <3> QED BY <1>2, <1>6, <2>1, <2>2, <3>1 DEF TypeOK, FatTypeOK, Task
    <2> QED BY <1>6, <2>3, <2>4, <2>5, <2>6, <2>7, <2>8
  <1> QED BY <1>1, <1>8, <1>9
-----------------------------------------------------------------------------
(* Deleting a chain.                                                       *)
Replaced(own, f, R) == [own EXCEPT ![f] = R]

(* The file f, which is being deleted, has the clusters R from now on.     *)
LEMMA ClustersReplaced ==
  ASSUME TypeOK, NEW own, Owns(own), NEW f \in File, Deleting(f),
         NEW R \in SUBSET Cluster, R \subseteq own[f] \union {dirent[f].start},
         dirent[f].start \in R => dirent[f].start \in own[f] \/ Exists(f),
         Inside(fat', R), Injective(fat', R), NoPred(fat', R, dirent[f].start),
         \A x \in FatIndex : x \notin own[f] /\ x # dirent[f].start => fat'[x] = fat[x],
         ~ Exists(f) => \A x \in FatIndex : x \notin own[f] => fat'[x] = fat[x],
         UNCHANGED clStack, \A g \in File : dirent'[g].start = dirent[g].start,
         \A g \in File \ {f} : ~ Deleting(g)',
         ~ Deleting(f)' /\ Exists(f) => dirent[f].start \in R,
         NEW o2, o2 = Replaced(own, f, R)
  PROVE  /\ \A g \in File \ {f} : ~ Deleting(g) /\ \A x \in own[g] : fat'[x] = fat[x]
         /\ o2[f] = R /\ \A g \in File \ {f} : o2[g] = own[g]
         /\ OwnersOK(o2)' /\ StartsOK(o2)'
         /\ \A g \in File \ {f} : Exists(g) => Root(g) \in own[g]
         /\ \A g \in File \ {f} : \A r \in own[g] : Reached(fat, own[g], r) => Reached(fat', own[g], r)
  <1> USE DEF Owns, Replaced
  <1>1. /\ own \in [File -> SUBSET Cluster] /\ o2 \in [File -> SUBSET Cluster]
        /\ o2[f] = R /\ \A g \in File \ {f} : o2[g] = own[g]
    BY DEF OwnersOK
  <1>2. \A g \in File \ {f} : ~ Deleting(g)
    BY DEF Deleting
  <1>3. \A g \in File \ {f} : Exists(g) => /\ dirent[g].start \in own[g]
                                           /\ dirent[g].start \notin own[f]
    BY <1>2 DEF StartsOK
  <1>4. Exists(f) => /\ dirent[f].start \notin clStack
                     /\ \A g \in File \ {f} : dirent[f].start \notin own[g]
    BY DEF StartsOK
  <1>5. ASSUME NEW g \in File \ {f}, NEW x \in own[g] PROVE fat'[x] = fat[x] /\ x \notin R
    <2>1. x \notin own[f] /\ x \in FatIndex
      BY <1>1, ClusterIs DEF OwnersOK
    <2>2. Exists(f) => x # dirent[f].start
      BY <1>4
    <2> QED BY <2>1, <2>2
  <1>6. ASSUME NEW g \in File \ {f}
        PROVE  /\ Inside(fat', own[g]) /\ Injective(fat', own[g])
               /\ NoPred(fat', own[g], dirent[g].start)
               /\ \A r \in own[g] : Reached(fat, own[g], r) => Reached(fat', own[g], r)
    <2>1. /\ own[g] \in SUBSET Cluster /\ Inside(fat, own[g]) /\ Injective(fat, own[g])
          /\ NoPred(fat, own[g], dirent[g].start)
      BY <1>1 DEF OwnersOK
    <2>2. \A x \in own[g] : fat'[x] = fat[x]
      BY <1>5
    <2> QED BY <2>1, <2>2, SameChain
  <1>7. R \intersect clStack = {}
    <2> SUFFICES ASSUME NEW x \in R, x \in clStack PROVE FALSE
      OBVIOUS
    <2>1. x \notin own[f]
      BY DEF OwnersOK
    <2> QED BY <2>1, <1>4
  <1>8. OwnersOK(o2)'
    <2>1. \A g, k \in File : g # k => o2[g] \intersect o2[k] = {}
      <3> SUFFICES ASSUME NEW g \in File, NEW k \in File, g # k, NEW x, x \in o2[g], x \in o2[k] PROVE FALSE
        OBVIOUS
      <3> QED BY <1>1, <1>5 DEF OwnersOK
    <2>2. ASSUME NEW g \in File
          PROVE  /\ Inside(fat', o2[g]) /\ Injective(fat', o2[g])
                 /\ NoPred(fat', o2[g], dirent'[g].start)
                 /\ o2[g] \intersect clStack' = {}
      <3>1. CASE g = f
        BY <1>1, <1>7, <3>1
      <3>2. CASE g # f
        BY <1>1, <1>6, <3>2 DEF OwnersOK
      <3> QED BY <3>1, <3>2
    <2> QED BY <1>1, <2>1, <2>2 DEF OwnersOK
  <1>9. StartsOK(o2)'
    <2> SUFFICES ASSUME NEW g \in File, Exists(g)
                 PROVE  /\ dirent[g].start \notin clStack
                        /\ \A k \in File \ {g} : dirent[g].start \notin o2[k]
                        /\ ~ Deleting(g)' => dirent[g].start \in o2[g]
      BY DEF StartsOK, Exists
    <2>1. CASE g = f
      BY <1>1, <1>4, <2>1
    <2>2. CASE g # f
      <3>1. dirent[g].start \in own[g] /\ dirent[g].start \notin R
        BY <1>3, <1>5, <2>2
      <3> QED BY <1>1, <2>2, <3>1 DEF StartsOK
    <2> QED BY <2>1, <2>2
  <1>10. \A g \in File \ {f} : Exists(g) => Root(g) \in own[g]
    BY <1>2, <1>3 DEF Root
  <1> QED BY <1>1, <1>2, <1>5, <1>6, <1>8, <1>9, <1>10

(* One round of fat_deleteClusterChain: what is freed leaves the clusters  *)
(* of the file, the last cluster of a full buffer is the first of the      *)
(* rest.                                                                   *)
LEMMA DeleteStep ==
  ASSUME TypeOK, NEW own, Owns(own), DeleteClusterChain
  PROVE  (\E o : Owns(o)') /\ TypeOK'
  <1> USE DEF Owns
  <1>0. /\ task.op = "delete" /\ task \in DeleteTask
        /\ task.file \in File /\ task.truncate \in {0} \union Slot
    <2>1. task.op = "delete" /\ task \in DeleteTask
      BY TaskIs DEF DeleteClusterChain
    <2> QED BY <2>1 DEF DeleteTask
  <1>f. PICK f \in File : f = task.file
    BY <1>0
  <1>s. PICK s \in {0} \union Slot : s = task.truncate
    BY <1>0
  <1>c. PICK c : c = task.cluster
    OBVIOUS
  <1>t. PICK st : st = dirent[f].start
    OBVIOUS
  <1>g. PICK got : got = GetClusterChain(c, TRUE)
    OBVIOUS
  <1>n. PICK n : n = ChainSize(got.result)
    OBVIOUS
  <1>S. PICK S : S = own[f]
    OBVIOUS
  <1>1. /\ c \in S /\ NoPred(fat, S, c) /\ (s # 0 <=> Exists(f))
        /\ c = lastChain => FromRoot(lastChain, cbuf, ChainSize(lastResult))
        /\ Deleting(f) /\ \A g \in File \ {f} : ~ Deleting(g)
    BY <1>0, <1>f, <1>s, <1>c, <1>S DEF TaskOK, Deleting
  <1>2. /\ S \in SUBSET Cluster /\ Inside(fat, S) /\ Injective(fat, S) /\ NoPred(fat, S, st)
        /\ \A g \in File \ {f} : own[g] \intersect S = {}
    BY <1>S, <1>t DEF OwnersOK
  <1>3. /\ got.buf \in [1 .. BufSize -> FatIndex]
        /\ got.result \in 0 .. BufSize - 1 /\ n \in 1 .. BufSize
        /\ got.result = 0 => n = BufSize
        /\ got.result # 0 => n = got.result
        /\ Buffered(fat, S, st, got.buf, n) /\ FromRoot(c, got.buf, n)
        /\ CacheIsChain => /\ Forward(fat, got.buf, n)
                           /\ got.result # 0 => fat[got.buf[got.result]] = EOF
    <2>1. got = GetClusterChain(c, TRUE) /\ c \in own[f] /\ n = ChainSize(got.result)
      BY <1>1, <1>S, <1>g, <1>n
    <2>2. NoPred(fat, own[f], c) /\ (c = lastChain => FromRoot(c, cbuf, ChainSize(lastResult)))
      BY <1>1, <1>S
    <2>3. st = dirent[f].start /\ S = own[f]
      BY <1>t, <1>S
    <2> HIDE DEF Owns
    <2>4. TypeOK /\ OwnersOK(own) /\ CacheOK(own)
      BY DEF Owns
    <2> QED BY ONLY <2>1, <2>2, <2>3, <2>4, f \in File, ReadBuffer
  <1> DEFINE D == {got.buf[i] : i \in 1 .. (n - (IF n = BufSize THEN 1 ELSE 0))}
             gone == Deleted(fat, got)
  <1>4. /\ gone = [x \in FatIndex |-> IF x \in D THEN 0 ELSE fat[x]]
        /\ fat \in [FatIndex -> FatValue] /\ gone \in [FatIndex -> FatValue]
        /\ \A x \in FatIndex : gone[x] = IF x \in D THEN 0 ELSE fat[x]
    <2>1. gone = [x \in FatIndex |-> IF x \in D THEN 0 ELSE fat[x]]
      BY <1>n DEF Deleted
    <2>2. fat \in [FatIndex -> FatValue] /\ 0 \in FatValue
      BY FatAssumption DEF TypeOK, FatTypeOK, FatValue, EOF
    <2> HIDE DEF gone, D
    <2> QED BY <2>1, <2>2
  <1> HIDE DEF gone
  <1>5. D \subseteq S
    <2>1. \A i \in 1 .. (n - (IF n = BufSize THEN 1 ELSE 0)) : i \in 1 .. n
      BY <1>3, FatAssumption
    <2> QED BY <1>3, <2>1 DEF Buffered
  <1>6. /\ cbuf' = got.buf /\ lastResult' = got.result /\ lastChain' = 0
        /\ UNCHANGED <<clStack, clStackLast, touched, ranOut>>
        /\ \/ /\ n = BufSize
              /\ fat' = gone
              /\ task' = [task EXCEPT !.cluster = got.buf[BufSize]]
              /\ UNCHANGED <<dirent, handle>>
           \/ /\ n # BufSize /\ s = 0
              /\ fat' = gone
              /\ task' = Idle
              /\ UNCHANGED <<dirent, handle>>
           \/ /\ n # BufSize /\ s # 0
              /\ fat' = [gone EXCEPT ![st] = EOF]
              /\ dirent' = [dirent EXCEPT ![f].size = 0]
              /\ handle' = [handle EXCEPT ![s] = NewHandle(f, st, 0)]
              /\ task' = [op |-> "table", slot |-> s, cluster |-> st, index |-> 0]
    BY <1>f, <1>s, <1>c, <1>t, <1>g, <1>n DEF DeleteClusterChain, ReadTable, stackVars, gone
  <1>7. CacheIsChain' /\ \A o : CacheOK(o)'
    BY <1>6, ClusterIs DEF CacheOK, CacheIsChain
  <1>8. FatTypeOK' <=> fat' \in [FatIndex -> FatValue]
    <2>1. lastResult' \in -1 .. BufSize /\ lastChain' \in FatIndex
      BY <1>3, <1>6, FatAssumption DEF FatIndex
    <2> QED BY <1>3, <1>6, <2>1 DEF TypeOK, FatTypeOK
  <1>9. \A t \in Slot : handle[t].open =>
          handle[t].file \in File \ {f} /\ HandleOK(own, handle[t])
    BY <1>1, OpenIs DEF HandlesOK, HandleOK, OpenFile
  <1> HIDE DEF D
  <1>10. CASE n = BufSize
    <2>1. /\ fat' = gone /\ task' = [task EXCEPT !.cluster = got.buf[BufSize]]
          /\ UNCHANGED <<dirent, handle>>
      BY <1>6, <1>10
    <2>2. n \in Nat /\ n >= 2 /\ D = {got.buf[i] : i \in 1 .. n - 1}
      BY <1>10, FatAssumption DEF D
    <2>3. \A x \in S \ D : gone[x] = fat[x]
      BY <1>2, <1>4, ClusterIs
    <2>4. PICK buf : buf = got.buf
      OBVIOUS
    <2>5. /\ buf[n] \in S \ D
          /\ Inside(gone, S \ D) /\ Injective(gone, S \ D)
          /\ NoPred(gone, S \ D, buf[n]) /\ NoPred(gone, S \ D, st)
          /\ CacheIsChain /\ Reached(fat, S, c) => Reached(gone, S \ D, buf[n])
      <3>1. /\ Buffered(fat, S, st, buf, n) /\ FromRoot(c, buf, n)
            /\ CacheIsChain => Forward(fat, buf, n)
            /\ D = {buf[i] : i \in 1 .. n - 1}
        BY <1>3, <2>2, <2>4
      <3> QED BY <1>1, <1>2, <2>2, <2>3, <3>1, ShrunkChain, SMTT(60)
    <2>6. PICK R : R = S \ D
      OBVIOUS
    <2>7. PICK o2 : o2 = Replaced(own, f, R)
      OBVIOUS
    <2>8. /\ task' \in DeleteTask /\ task'.op = "delete" /\ task'.file = f
          /\ task'.cluster = buf[n] /\ task'.truncate = s
      <3>1. got.buf[BufSize] = buf[n] /\ buf[n] \in FatIndex
        BY <1>2, <1>10, <2>4, <2>5, ClusterIs
      <3> QED BY <1>0, <1>f, <1>s, <2>1, <3>1 DEF DeleteTask
    <2>9. \A g \in File : Deleting(g)' <=> g = f
      BY <2>8 DEF Deleting
    <2>10. /\ \A g \in File \ {f} : ~ Deleting(g) /\ \A x \in own[g] : fat'[x] = fat[x]
           /\ o2[f] = R /\ \A g \in File \ {f} : o2[g] = own[g]
           /\ OwnersOK(o2)' /\ StartsOK(o2)'
           /\ \A g \in File \ {f} : Exists(g) => Root(g) \in own[g]
           /\ \A g \in File \ {f} : \A r \in own[g] : Reached(fat, own[g], r) => Reached(fat', own[g], r)
      <3>1. /\ R \in SUBSET Cluster /\ R \subseteq own[f] \union {dirent[f].start}
            /\ dirent[f].start \in R => dirent[f].start \in own[f] \/ Exists(f)
            /\ Inside(fat', R) /\ Injective(fat', R) /\ NoPred(fat', R, dirent[f].start)
        BY <1>2, <1>S, <1>t, <2>1, <2>5, <2>6
      <3>2. \A x \in FatIndex : x \notin own[f] => fat'[x] = fat[x]
        BY <1>4, <1>5, <1>S, <2>1
      <3> QED BY <1>1, <1>6, <2>1, <2>7, <2>9, <3>1, <3>2, ClustersReplaced
    <2>11. HandlesOK(o2)' /\ OpenOnce'
      <3>1. ASSUME NEW t \in Slot, handle[t].open PROVE HandleOK(o2, handle[t])'
        BY <1>9, <2>1, <2>9, <2>10, <3>1 DEF HandleOK, Exists
      <3> QED BY <2>1, <3>1 DEF HandlesOK, OpenOnce
    <2>12. TaskOK(o2)'
      <3>1. buf[n] # lastChain'
        BY <1>2, <1>6, <2>5, ClusterIs
      <3> QED BY <1>1, <2>1, <2>5, <2>6, <2>8, <2>10, <3>1 DEF TaskOK, Exists
    <2>13. Lossless(o2)'
      <3> SUFFICES ASSUME ~ ranOut PROVE Lossless(o2)'
        BY <1>6 DEF Lossless
      <3>1. AllOwned(o2)'
        <4> SUFFICES ASSUME NEW x \in Cluster, fat'[x] # 0 PROVE \E g \in File : x \in o2[g]
          BY DEF AllOwned
        <4>1. x \notin D /\ fat[x] # 0
          BY <1>4, <2>1, ClusterIs
        <4>2. PICK g \in File : x \in own[g]
          BY <4>1 DEF Lossless, AllOwned
        <4>3. CASE g = f
          BY <1>S, <2>6, <2>10, <4>1, <4>2, <4>3
        <4>4. CASE g # f
          BY <2>10, <4>2, <4>4
        <4> QED BY <4>3, <4>4
      <3>2. AllReached(o2)'
        <4> SUFFICES ASSUME NEW g \in File
                     PROVE  (IF Exists(g) \/ Deleting(g) THEN Reached(fat, o2[g], Root(g)) ELSE o2[g] = {})'
          BY DEF AllReached
        <4>1. CASE g = f
          <5>1. Reached(fat, S, c) /\ CacheIsChain
            BY <1>0, <1>1, <1>S, <1>c DEF Lossless, AllReached, Root
          <5>2. Reached(fat', o2[f], buf[n])
            BY <5>1, <2>1, <2>5, <2>6, <2>10
          <5> QED BY <2>8, <2>9, <4>1, <5>2 DEF Root
        <4>2. CASE g # f
          BY <2>1, <2>9, <2>10, <4>2 DEF Lossless, AllReached, Root, Exists
        <4> QED BY <4>1, <4>2
      <3>3. EndsOK'
        <4>1. \A t \in Slot : handle[t].open => fat'[handle[t].lastCluster] = EOF
          BY <1>0, <1>9, <2>10 DEF Lossless, EndsOK, HandleOK, Changing
        <4> QED BY <2>1, <2>8, <4>1 DEF EndsOK
      <3> QED BY <1>7, <3>1, <3>2, <3>3 DEF Lossless
    <2>14. TypeOK'
      BY <1>4, <1>6, <1>8, <2>1, <2>8 DEF TypeOK, Task
    <2> QED BY <1>7, <2>10, <2>11, <2>12, <2>13, <2>14
  <1>11. ASSUME n # BufSize, ~ ranOut, NEW x \in Cluster, gone[x] # 0
         PROVE  \E g \in File \ {f} : x \in own[g]
    <2>1. got.result # 0 /\ n = got.result
      BY <1>3, <1>11
    <2>2. CacheIsChain /\ Reached(fat, S, c)
      BY <1>0, <1>1, <1>11, <1>S, <1>c DEF Lossless, AllReached, Root
    <2>3. S \subseteq D
      <3> DEFINE buf == got.buf
      <3>1. /\ Buffered(fat, S, st, buf, n) /\ buf[1] = c /\ Forward(fat, buf, n)
            /\ fat[buf[n]] = EOF /\ n \in Nat /\ n >= 1
        BY <1>3, <2>1, <2>2 DEF FromRoot
      <3> HIDE DEF buf
      <3>2. S \subseteq {buf[i] : i \in 1 .. n}
        BY <1>2, <2>2, <3>1, WholeChain
      <3>3. n - (IF n = BufSize THEN 1 ELSE 0) = n
        BY <1>3, <1>11
      <3> QED BY <3>2, <3>3 DEF D, buf
    <2>4. x \notin D /\ fat[x] # 0
      BY <1>4, <1>11, ClusterIs
    <2>5. PICK g \in File : x \in own[g]
      BY <1>11, <2>4 DEF Lossless, AllOwned
    <2> QED BY <1>S, <2>3, <2>4, <2>5
  <1>12. CASE n # BufSize /\ s = 0
    <2>1. fat' = gone /\ task' = Idle /\ UNCHANGED <<dirent, handle>> /\ ~ Exists(f)
      BY <1>1, <1>6, <1>12
    <2>2. PICK R : R = {}
      OBVIOUS
    <2>3. PICK o2 : o2 = Replaced(own, f, R)
      OBVIOUS
    <2>4. task'.op = "none" /\ \A g \in File : ~ Deleting(g)'
      BY <2>1 DEF Idle, Deleting
    <2>5. /\ \A g \in File \ {f} : ~ Deleting(g) /\ \A x \in own[g] : fat'[x] = fat[x]
          /\ o2[f] = R /\ \A g \in File \ {f} : o2[g] = own[g]
          /\ OwnersOK(o2)' /\ StartsOK(o2)'
          /\ \A g \in File \ {f} : Exists(g) => Root(g) \in own[g]
          /\ \A g \in File \ {f} : \A r \in own[g] : Reached(fat, own[g], r) => Reached(fat', own[g], r)
      <3>1. /\ R \in SUBSET Cluster /\ R \subseteq own[f] \union {dirent[f].start}
            /\ dirent[f].start \in R => dirent[f].start \in own[f] \/ Exists(f)
            /\ Inside(fat', R) /\ Injective(fat', R) /\ NoPred(fat', R, dirent[f].start)
        BY <2>2 DEF Inside, Injective, NoPred
      <3>2. \A x \in FatIndex : x \notin own[f] => fat'[x] = fat[x]
        BY <1>4, <1>5, <1>S, <2>1
      <3> QED BY <1>1, <1>6, <2>1, <2>3, <2>4, <3>1, <3>2, ClustersReplaced
    <2>6. HandlesOK(o2)' /\ OpenOnce'
      <3>1. ASSUME NEW t \in Slot, handle[t].open PROVE HandleOK(o2, handle[t])'
        BY <1>9, <2>1, <2>4, <2>5, <3>1 DEF HandleOK, Exists
      <3> QED BY <2>1, <3>1 DEF HandlesOK, OpenOnce
    <2>7. TaskOK(o2)'
      BY <2>4 DEF TaskOK
    <2>8. Lossless(o2)'
      <3> SUFFICES ASSUME ~ ranOut PROVE Lossless(o2)'
        BY <1>6 DEF Lossless
      <3>1. AllOwned(o2)'
        BY <1>11, <1>12, <2>1, <2>5 DEF AllOwned
      <3>2. AllReached(o2)'
        BY <1>1, <2>1, <2>2, <2>4, <2>5 DEF Lossless, AllReached, Root, Exists
      <3>3. EndsOK'
        <4>1. \A t \in Slot : handle[t].open => fat'[handle[t].lastCluster] = EOF
          BY <1>0, <1>9, <2>5 DEF Lossless, EndsOK, HandleOK, Changing
        <4> QED BY <2>1, <2>4, <4>1 DEF EndsOK
      <3> QED BY <1>7, <3>1, <3>2, <3>3 DEF Lossless
    <2>9. TypeOK'
      BY <1>4, <1>6, <1>8, <2>1 DEF TypeOK, Task
    <2> QED BY <1>7, <2>5, <2>6, <2>7, <2>8, <2>9
  <1>13. CASE n # BufSize /\ s # 0
    <2>1. /\ fat' = [gone EXCEPT ![st] = EOF]
          /\ dirent' = [dirent EXCEPT ![f].size = 0]
          /\ handle' = [handle EXCEPT ![s] = NewHandle(f, st, 0)]
          /\ task' = [op |-> "table", slot |-> s, cluster |-> st, index |-> 0]
          /\ Exists(f) /\ s \in Slot
      BY <1>1, <1>6, <1>13
    <2>2. st \in Cluster /\ st \in FatIndex
      BY <1>t, <2>1, ClusterIs DEF TypeOK, Dirent, Exists
    <2>3. PICK R : R = {st}
      OBVIOUS
    <2>4. PICK o2 : o2 = Replaced(own, f, R)
      OBVIOUS
    <2>5. task'.op = "table" /\ \A g \in File : ~ Deleting(g)'
      BY <2>1 DEF Deleting
    <2>6. /\ fat' \in [FatIndex -> FatValue] /\ fat'[st] = EOF
          /\ \A x \in FatIndex : x # st => fat'[x] = gone[x]
      BY <1>4, <2>1, <2>2, ClusterIs
    <2>7. \A g \in File : dirent'[g].start = dirent[g].start
      BY <2>1 DEF TypeOK, Dirent
    <2>8. /\ \A g \in File \ {f} : ~ Deleting(g) /\ \A x \in own[g] : fat'[x] = fat[x]
          /\ o2[f] = R /\ \A g \in File \ {f} : o2[g] = own[g]
          /\ OwnersOK(o2)' /\ StartsOK(o2)'
          /\ \A g \in File \ {f} : Exists(g) => Root(g) \in own[g]
          /\ \A g \in File \ {f} : \A r \in own[g] : Reached(fat, own[g], r) => Reached(fat', own[g], r)
      <3>1. /\ R \in SUBSET Cluster /\ R \subseteq own[f] \union {dirent[f].start}
            /\ dirent[f].start \in R
            /\ Inside(fat', R) /\ Injective(fat', R) /\ NoPred(fat', R, dirent[f].start)
        BY <1>t, <2>2, <2>3, <2>6, ClusterIs DEF Inside, Injective, NoPred
      <3>2. \A x \in FatIndex : x \notin own[f] /\ x # dirent[f].start => fat'[x] = fat[x]
        BY <1>4, <1>5, <1>S, <1>t, <2>6
      <3>3. /\ dirent[f].start \in R => dirent[f].start \in own[f] \/ Exists(f)
            /\ ~ Exists(f) => \A x \in FatIndex : x \notin own[f] => fat'[x] = fat[x]
            /\ ~ Deleting(f)' /\ Exists(f) => dirent[f].start \in R
            /\ clStack' = clStack /\ \A g \in File \ {f} : ~ Deleting(g)'
        BY <1>6, <2>1, <2>5, <3>1
      <3> HIDE DEF Owns
      <3>4. TypeOK /\ Owns(own)
        BY DEF Owns
      <3> QED BY ONLY f \in File, <1>1, <2>4, <2>7, <3>1, <3>2, <3>3, <3>4, ClustersReplaced
    <2>9. PICK h : h = NewHandle(f, st, 0)
      OBVIOUS
    <2>10. handle'[s] = h /\ \A t \in Slot \ {s} : handle'[t] = handle[t]
      BY <2>1, <2>9 DEF TypeOK
    <2>11. /\ h.open /\ h.file = f /\ h.lastCluster = st /\ h.chain[0].index = 0
           /\ \A j \in Seek : h.chain[j].cluster \in o2[f]
      <3>1. 0 \in Seek
        BY FilesAssumption DEF Seek
      <3> QED BY <2>3, <2>8, <2>9, <3>1 DEF NewHandle
    <2>12. HandlesOK(o2)' /\ OpenOnce'
      <3>1. ASSUME NEW t \in Slot, t # s, handle'[t].open PROVE HandleOK(o2, handle[t])'
        BY <1>9, <2>5, <2>7, <2>8, <2>10, <3>1 DEF HandleOK, Exists
      <3>2. HandleOK(o2, handle[s])'
        BY <2>1, <2>3, <2>5, <2>7, <2>8, <2>10, <2>11 DEF HandleOK, Exists
      <3>3. HandlesOK(o2)'
        BY <3>1, <3>2 DEF HandlesOK
      <3>4. OpenOnce'
        BY <1>9, <2>10, <2>11 DEF OpenOnce
      <3> QED BY <3>3, <3>4
    <2>13. TaskOK(o2)'
      BY <2>1, <2>3, <2>8, <2>10, <2>11 DEF TaskOK
    <2>14. Lossless(o2)'
      <3> SUFFICES ASSUME ~ ranOut PROVE Lossless(o2)'
        BY <1>6 DEF Lossless
      <3>1. AllOwned(o2)'
        <4> SUFFICES ASSUME NEW x \in Cluster, fat'[x] # 0 PROVE \E g \in File : x \in o2[g]
          BY DEF AllOwned
        <4>1. CASE x = st
          BY <2>3, <2>8, <4>1
        <4>2. CASE x # st
          <5>1. gone[x] # 0
            BY <2>6, <4>2, ClusterIs
          <5> QED BY <1>11, <1>13, <2>8, <5>1
        <4> QED BY <4>1, <4>2
      <3>2. AllReached(o2)'
        <4> SUFFICES ASSUME NEW g \in File
                     PROVE  (IF Exists(g) \/ Deleting(g) THEN Reached(fat, o2[g], Root(g)) ELSE o2[g] = {})'
          BY DEF AllReached
        <4>1. CASE g = f
          <5>1. Reached(fat', R, st)
            BY <2>3 DEF Reached
          <5> QED BY <1>t, <2>1, <2>5, <2>7, <2>8, <4>1, <5>1 DEF Root, Exists
        <4>2. CASE g # f
          BY <2>5, <2>7, <2>8, <4>2 DEF Lossless, AllReached, Root, Exists
        <4> QED BY <4>1, <4>2
      <3>3. EndsOK'
        <4>1. \A t \in Slot \ {s} : handle'[t].open => fat'[handle'[t].lastCluster] = EOF
          BY <1>0, <1>9, <2>8, <2>10 DEF Lossless, EndsOK, HandleOK, Changing
        <4>2. Changing(s)'
          BY <2>1 DEF Changing
        <4> QED BY <2>5, <4>1, <4>2 DEF EndsOK
      <3> QED BY <1>7, <3>1, <3>2, <3>3 DEF Lossless
    <2>15. TypeOK'
      <3>1. dirent' \in [File -> Dirent]
        BY <2>1, FilesAssumption DEF TypeOK, Dirent, Size
      <3>2. h \in OpenFile
        BY <2>2, <2>9, NewHandleIs, FilesAssumption DEF Size
      <3>3. handle' \in [Slot -> OpenFile \union {Closed}]
        BY <2>1, <2>9, <3>2 DEF TypeOK
      <3>4. task' \in Task
        BY <2>1, <2>2 DEF Task, TableTask, Position
      <3> QED BY <1>6, <1>8, <2>6, <3>1, <3>3, <3>4 DEF TypeOK
    <2> QED BY <1>7, <2>8, <2>12, <2>13, <2>14, <2>15
  <1> QED BY <1>10, <1>12, <1>13
-----------------------------------------------------------------------------
(* A medium without damage: each file has a chain of its own, and no other *)
(* cluster is in use.                                                      *)
HasChains(m, own) ==
  /\ own \in [File -> SUBSET Cluster]
  /\ \A f, g \in File : f # g => own[f] \intersect own[g] = {}
  /\ \A f \in File : /\ Inside(m.fat, own[f]) /\ Injective(m.fat, own[f])
                     /\ NoPred(m.fat, own[f], m.dirent[f].start)
                     /\ IF m.dirent[f].start = 0 THEN own[f] = {}
                        ELSE m.dirent[f].start \in own[f] /\ Reached(m.fat, own[f], m.dirent[f].start)
  /\ \A c \in Cluster : m.fat[c] # 0 => \E f \in File : c \in own[f]

Sound(m) ==
  /\ m.fat \in [FatIndex -> FatValue] /\ m.dirent \in [File -> Dirent]
  /\ m.fat[0] = EOF
  /\ \E own : HasChains(m, own)

Blank(m) ==
  /\ m.fat \in [FatIndex -> FatValue] /\ m.dirent \in [File -> Dirent]
  /\ m.fat[0] = EOF
  /\ \A c \in Cluster : m.fat[c] = 0
  /\ \A f \in File : m.dirent[f].start = 0

(* A blank medium has no damage.                                           *)
LEMMA BlankIsSound ==
  ASSUME NEW m, Blank(m)
  PROVE  Sound(m)
  <1>1. PICK own : own = [f \in File |-> {}]
    OBVIOUS
  <1>2. \A f \in File : own[f] = {}
    BY <1>1
  <1>3. own \in [File -> SUBSET Cluster]
    BY <1>1
  <1>4. HasChains(m, own)
    BY <1>2, <1>3 DEF HasChains, Blank, Inside, Injective, NoPred
  <1> QED BY <1>4 DEF Blank, Sound

(* The clusters of files in the state with medium m just mounted.          *)
LEMMA MountedOwns ==
  ASSUME NEW m, NEW own, HasChains(m, own), NEW free,
         m.fat \in [FatIndex -> FatValue], m.dirent \in [File -> Dirent],
         free = {} \/ \A c \in Cluster : m.fat[c] = 0
  PROVE  /\ \A f \in File : own[f] \intersect free = {}
         /\ \A f \in File : m.dirent[f].start # 0 => m.dirent[f].start \notin free
  <1>1. ASSUME NEW f \in File, NEW x \in own[f], x \in free PROVE FALSE
    <2>1. x \in Cluster /\ m.fat[x] = 0
      BY <1>1 DEF HasChains
    <2>2. m.fat[x] = EOF \/ m.fat[x] \in Cluster
      BY DEF HasChains, Inside
    <2> QED BY <2>1, <2>2, ClusterIs
  <1>2. \A f \in File : m.dirent[f].start # 0 => m.dirent[f].start \in own[f]
    BY DEF HasChains
  <1> QED BY <1>1, <1>2

(* fat_initDriver with another medium. What is in the stack stays there,   *)
(* so it must be free on the new one.                                      *)
LEMMA RemountStep ==
  ASSUME TypeOK, NEW own, Owns(own), ChangeMedium, \A m \in Media : Sound(m),
         clStack = {} \/ \A c \in Cluster : fat'[c] = 0
  PROVE  (\E o : Owns(o)') /\ TypeOK'
  <1>1. PICK m \in Media : fat' = m.fat /\ dirent' = m.dirent
    BY DEF ChangeMedium, Remount
  <1>2. PICK o : HasChains(m, o)
    BY DEF Sound
  <1>3. m.fat \in [FatIndex -> FatValue] /\ m.dirent \in [File -> Dirent]
    BY DEF Sound
  <1>4. /\ task = Idle /\ task' = Idle /\ task'.op = "none" /\ lastChain' = NoChain /\ lastResult' = -1
        /\ UNCHANGED <<cbuf, clStack, clStackLast, handle, touched, ranOut>>
        /\ \A s \in Slot : ~ handle[s].open
        /\ \A f \in File : ~ Deleting(f)'
    BY DEF ChangeMedium, Remount, stackVars, Idle, Deleting
  <1>5. /\ \A f \in File : o[f] \intersect clStack = {}
        /\ \A f \in File : m.dirent[f].start # 0 => m.dirent[f].start \notin clStack
    BY <1>1, <1>2, <1>3, MountedOwns
  <1>6. OwnersOK(o)' /\ StartsOK(o)'
    BY <1>1, <1>2, <1>4, <1>5 DEF OwnersOK, StartsOK, HasChains, Exists
  <1>7. CacheOK(o)' /\ CacheIsChain'
    BY <1>4, ClusterIs DEF CacheOK, CacheIsChain
  <1>8. HandlesOK(o)' /\ OpenOnce' /\ TaskOK(o)'
    BY <1>4 DEF HandlesOK, OpenOnce, TaskOK
  <1>9. Lossless(o)'
    <2>1. AllOwned(o)' /\ AllReached(o)'
      BY <1>1, <1>2, <1>4 DEF AllOwned, AllReached, HasChains, Root, Exists
    <2>2. EndsOK'
      BY <1>4 DEF EndsOK
    <2> QED BY <1>7, <2>1, <2>2 DEF Lossless
  <1>10. TypeOK'
    <2>1. lastResult' \in -1 .. BufSize
      BY <1>4, FatAssumption
    <2> QED BY <1>1, <1>3, <1>4, <2>1 DEF TypeOK, FatTypeOK
  <1> QED BY <1>6, <1>7, <1>8, <1>9, <1>10 DEF Owns

(* The first medium.                                                       *)
LEMMA InitOwns ==
  ASSUME Init, \A m \in Media : Sound(m)
  PROVE  FilesInv
  <1>1. PICK m \in Media : fat = m.fat /\ dirent = m.dirent
    BY DEF Init
  <1>2. PICK o : HasChains(m, o)
    BY DEF Sound
  <1>3. m.fat \in [FatIndex -> FatValue] /\ m.dirent \in [File -> Dirent]
    BY DEF Sound
  <1>4. /\ task = Idle /\ task.op = "none" /\ lastChain = NoChain /\ lastResult = -1
        /\ clStack = {} /\ clStackLast = 0 /\ touched = {} /\ ranOut = FALSE
        /\ handle = [s \in Slot |-> Closed] /\ cbuf = [i \in 1 .. BufSize |-> 0]
        /\ \A f \in File : ~ Deleting(f)
    BY DEF Init, Idle, Deleting
  <1>5. \A s \in Slot : ~ handle[s].open
    BY <1>4 DEF Closed
  <1>6. OwnersOK(o) /\ StartsOK(o)
    BY <1>1, <1>2, <1>4 DEF OwnersOK, StartsOK, HasChains, Exists
  <1>7. CacheOK(o) /\ CacheIsChain
    BY <1>4, ClusterIs DEF CacheOK, CacheIsChain
  <1>8. HandlesOK(o) /\ OpenOnce /\ TaskOK(o)
    BY <1>4, <1>5 DEF HandlesOK, OpenOnce, TaskOK
  <1>9. Lossless(o)
    <2>1. AllOwned(o) /\ AllReached(o)
      BY <1>1, <1>2, <1>4 DEF AllOwned, AllReached, HasChains, Root, Exists
    <2>2. EndsOK
      BY <1>4, <1>5 DEF EndsOK
    <2> QED BY <1>7, <2>1, <2>2 DEF Lossless
  <1>10. TypeOK
    <2>1. lastResult \in -1 .. BufSize /\ 0 \in FatIndex
      BY <1>4, FatAssumption DEF FatIndex
    <2>2. cbuf \in [1 .. BufSize -> FatIndex]
      BY <1>4, <2>1
    <2>3. FatTypeOK
      BY <1>1, <1>3, <1>4, <2>1, <2>2 DEF FatTypeOK
    <2>4. handle \in [Slot -> OpenFile \union {Closed}] /\ ranOut \in BOOLEAN
      BY <1>4
    <2> QED BY <1>1, <1>3, <1>4, <2>3, <2>4 DEF TypeOK, Task
  <1> QED BY <1>6, <1>7, <1>8, <1>9, <1>10 DEF Owns, FilesInv

(* A medium is changed only for a blank one or with the stack of free      *)
(* clusters empty.                                                         *)
StackNotStale == Remount => clStack = {} \/ \A c \in Cluster : fat'[c] = 0

(* Every step keeps the invariant.                                         *)
LEMMA FilesStep ==
  ASSUME ~ ByPath, \A m \in Media : Sound(m), FilesInv, [Next /\ StackNotStale]_vars
  PROVE  FilesInv'
  <1>1. TypeOK /\ \E own : Owns(own)
    BY DEF FilesInv
  <1>2. PICK own : Owns(own)
    BY <1>1
  <1> SUFFICES (\E o : Owns(o)') /\ TypeOK'
    BY DEF FilesInv
  <1>3. CASE UNCHANGED vars
    <2>1. Owns(own)'
      BY <1>2, <1>3 DEF vars, fatVars, Owns, OwnersOK, StartsOK, CacheOK, CacheOf, HandlesOK, HandleOK,
         OpenOnce, TaskOK, Lossless, AllOwned, AllReached, EndsOK, CacheIsChain, Exists, Deleting,
         Root, Changing
    <2>2. TypeOK'
      BY <1>1, <1>3 DEF vars, fatVars, TypeOK, FatTypeOK
    <2> QED BY <2>1, <2>2
  <1>4. ASSUME NEW s \in Slot, NEW f \in File, Open(s, f) PROVE (\E o : Owns(o)') /\ TypeOK'
    BY <1>1, <1>2, <1>4, OpenStep, CallsTyped
  <1>5. ASSUME NEW s \in Slot, NEW f \in File, OpenTruncated(s, f) PROVE (\E o : Owns(o)') /\ TypeOK'
    BY <1>1, <1>2, <1>5, OpenTruncatedStep, CallsTyped
  <1>6. ASSUME NEW s \in Slot, NEW f \in File, Create(s, f) PROVE (\E o : Owns(o)') /\ TypeOK'
    BY <1>1, <1>2, <1>6, CreateStep
  <1>7. ASSUME NEW s \in Slot, Close(s) PROVE (\E o : Owns(o)') /\ TypeOK'
    BY <1>1, <1>2, <1>7, CloseStep, CallsTyped
  <1>8. ASSUME NEW s \in Slot, Read(s) PROVE (\E o : Owns(o)') /\ TypeOK'
    BY <1>1, <1>2, <1>8, ReadStep, CallsTyped
  <1>9. ASSUME NEW s \in Slot, Write(s) PROVE (\E o : Owns(o)') /\ TypeOK'
    BY <1>1, <1>2, <1>9, WriteStep, CallsTyped
  <1>10. ASSUME NEW f \in File, Remove(f) PROVE (\E o : Owns(o)') /\ TypeOK'
    BY <1>1, <1>2, <1>10, RemoveStep, CallsTyped
  <1>11. CASE SetFatDirChain
    BY <1>1, <1>2, <1>11, SetFatDirChainStep
  <1>12. CASE Grow
    BY <1>1, <1>2, <1>12, GrowStep
  <1>13. CASE GrowFails
    BY <1>1, <1>2, <1>13, GrowFailsStep, GrowFailsTyped
  <1>14. CASE Transfer
    BY <1>1, <1>2, <1>14, TransferStep
  <1>15. CASE TransferDone
    BY <1>1, <1>2, <1>15, TransferDoneStep
  <1>16. CASE DeleteClusterChain
    BY <1>1, <1>2, <1>16, DeleteStep
  <1>17. CASE ChangeMedium /\ StackNotStale
    BY <1>1, <1>2, <1>17, RemountStep DEF ChangeMedium, StackNotStale
  <1> QED BY <1>3, <1>4, <1>5, <1>6, <1>7, <1>8, <1>9, <1>10, <1>11, <1>12, <1>13, <1>14,
             <1>15, <1>16, <1>17 DEF Next, Call, Work
-----------------------------------------------------------------------------
(* While a file is truncated its first cluster is still the head of what   *)
(* is left of the chain, or is free; entry 0 of the table is an end        *)
(* marker, so no walk leads on from a free cluster.                        *)
Truncation ==
  /\ fat[0] = EOF
  /\ task.op = "delete" /\ Exists(task.file) =>
       task.cluster = dirent[task.file].start \/ fat[dirent[task.file].start] = 0

(* Entry 0 is no cluster: taking one leaves it.                             *)
LEMMA GrowKeepsZero ==
  ASSUME TypeOK, fat[0] = EOF, NEW cur \in {0} \union Cluster, NEW c \in Cluster, GetFreeCluster(cur, c)
  PROVE  fat'[0] = EOF
  <1>1. fat' = Linked(fat, cur, c) /\ fat \in [FatIndex -> FatValue] /\ 0 \in FatIndex
    BY FatAssumption DEF GetFreeCluster, TypeOK, FatTypeOK, FatIndex
  <1> QED BY <1>1, ClusterIs DEF Linked

(* The first round of a truncation frees the first cluster of the file,    *)
(* the rounds after it leave it free.                                      *)
LEMMA DeleteTruncation ==
  ASSUME TypeOK, NEW own, Owns(own), Truncation, DeleteClusterChain
  PROVE  Truncation'
  <1>0. /\ task.op = "delete" /\ task \in DeleteTask /\ task.file \in File
        /\ task.truncate \in {0} \union Slot
    <2>1. task.op = "delete" /\ task \in DeleteTask
      BY TaskIs DEF DeleteClusterChain
    <2> QED BY <2>1 DEF DeleteTask
  <1>f. PICK f \in File : f = task.file
    BY <1>0
  <1>c. PICK c : c = task.cluster
    OBVIOUS
  <1>g. PICK got : got = GetClusterChain(c, TRUE)
    OBVIOUS
  <1>n. PICK n : n = ChainSize(got.result)
    OBVIOUS
  <1>1. /\ c \in own[f] /\ NoPred(fat, own[f], c)
        /\ c = lastChain => FromRoot(c, cbuf, ChainSize(lastResult))
    BY <1>0, <1>f, <1>c DEF Owns, TaskOK
  <1>2. /\ n \in 1 .. BufSize
        /\ Buffered(fat, own[f], dirent[f].start, got.buf, n) /\ FromRoot(c, got.buf, n)
    <2>1. TypeOK /\ OwnersOK(own) /\ CacheOK(own)
      BY DEF Owns
    <2> QED BY ONLY <1>1, <1>g, <1>n, <2>1, f \in File, ReadBuffer
  <1> DEFINE D == {got.buf[i] : i \in 1 .. (n - (IF n = BufSize THEN 1 ELSE 0))}
             gone == Deleted(fat, got)
  <1>3. /\ gone = [x \in FatIndex |-> IF x \in D THEN 0 ELSE fat[x]]
        /\ D \subseteq Cluster
    <2>1. gone = [x \in FatIndex |-> IF x \in D THEN 0 ELSE fat[x]]
      BY <1>n DEF Deleted
    <2>2. \A i \in 1 .. (n - (IF n = BufSize THEN 1 ELSE 0)) : i \in 1 .. n
      BY <1>2, FatAssumption
    <2>3. own[f] \subseteq Cluster
      BY DEF Owns, OwnersOK
    <2> QED BY <1>2, <2>1, <2>2, <2>3 DEF Buffered
  <1>4. n = BufSize => c \in D
    <2>1. n = BufSize => 1 \in 1 .. n - 1 /\ got.buf[1] = c
      BY <1>2, FatAssumption DEF FromRoot
    <2> QED BY <2>1
  <1>5. /\ fat \in [FatIndex -> FatValue] /\ gone[0] = EOF
        /\ \A x \in FatIndex : fat[x] = 0 \/ x \in D => gone[x] = 0
    <2>1. 0 \in FatIndex /\ fat \in [FatIndex -> FatValue]
      BY FatAssumption DEF FatIndex, TypeOK, FatTypeOK
    <2> HIDE DEF gone, D
    <2> QED BY <1>3, <2>1, ClusterIs DEF Truncation
  <1>6. dirent \in [File -> Dirent] /\ dirent[f].start \in FatIndex
    <2>1. dirent \in [File -> Dirent]
      BY DEF TypeOK
    <2>2. dirent[f] \in Dirent /\ 0 \in FatIndex
      BY <2>1, FatAssumption DEF FatIndex
    <2> QED BY <2>1, <2>2, ClusterIs DEF Dirent
  <1> HIDE DEF D, gone
  <1>7. CASE n = BufSize
    <2>1. /\ fat' = gone /\ task' = [task EXCEPT !.cluster = got.buf[BufSize]] /\ dirent' = dirent
      BY <1>7, <1>c, <1>g, <1>n DEF DeleteClusterChain, gone
    <2>2. task'.file = f
      BY <1>0, <1>f, <2>1 DEF DeleteTask
    <2>3. Exists(f) => gone[dirent[f].start] = 0
      BY <1>0, <1>c, <1>f, <1>4, <1>5, <1>6, <1>7 DEF Truncation
    <2> QED BY <1>5, <2>1, <2>2, <2>3 DEF Truncation, Exists
  <1>8. CASE n # BufSize
    <2>1. task'.op # "delete"
      <3>1. \/ task' = Idle
            \/ \E s, x : task' = [op |-> "table", slot |-> s, cluster |-> x, index |-> 0]
        BY <1>8, <1>c, <1>g, <1>n DEF DeleteClusterChain, ReadTable
      <3> QED BY <3>1 DEF Idle
    <2>2. fat' = gone \/ (task.truncate # 0 /\ fat' = [gone EXCEPT ![dirent[f].start] = EOF])
      BY <1>8, <1>c, <1>f, <1>g, <1>n DEF DeleteClusterChain, gone
    <2>3. gone \in [FatIndex -> FatValue \union {0}] /\ 0 \in FatIndex
      BY <1>3, <1>5, FatAssumption DEF FatIndex
    <2>4. fat'[0] = EOF
      BY <1>5, <1>6, <2>2, <2>3
    <2> QED BY <2>1, <2>4 DEF Truncation
  <1> QED BY <1>7, <1>8

(* Every step keeps what a truncation needs.                               *)
LEMMA TruncationStep ==
  ASSUME \A m \in Media : Sound(m), FilesInv, Truncation, [Next]_vars
  PROVE  Truncation'
  <1>1. PICK own : Owns(own)
    BY DEF FilesInv
  <1>2. TypeOK /\ fat \in [FatIndex -> FatValue] /\ 0 \in FatIndex
    BY FatAssumption DEF FilesInv, TypeOK, FatTypeOK, FatIndex
  <1>3. ASSUME UNCHANGED fat, task'.op # "delete" PROVE Truncation'
    BY <1>3 DEF Truncation
  <1>4. CASE UNCHANGED vars
    BY <1>4 DEF vars, fatVars, Truncation, Exists
  <1>5. ASSUME NEW s \in Slot, NEW f \in File, Open(s, f) PROVE Truncation'
    BY <1>3, <1>5 DEF Open, ReadTable, fatVars
  <1>6. ASSUME NEW s \in Slot, NEW f \in File, OpenTruncated(s, f) PROVE Truncation'
    BY <1>6 DEF OpenTruncated, fatVars, Truncation, Exists
  <1>7. ASSUME NEW s \in Slot, NEW f \in File, Create(s, f) PROVE Truncation'
    <2>1. \E c \in Cluster : GetFreeCluster(0, c)
      BY <1>7 DEF Create
    <2>2. fat'[0] = EOF
      BY <1>2, <2>1, GrowKeepsZero DEF Truncation
    <2>3. task'.op # "delete"
      BY <1>7 DEF Create, ReadTable
    <2> QED BY <2>2, <2>3 DEF Truncation
  <1>8. ASSUME NEW s \in Slot, Close(s) PROVE Truncation'
    BY <1>3, <1>8 DEF Close, Idle, fatVars
  <1>9. ASSUME NEW s \in Slot, Read(s) PROVE Truncation'
    BY <1>3, <1>9 DEF Read, StartIO, fatVars
  <1>10. ASSUME NEW s \in Slot, Write(s) PROVE Truncation'
    BY <1>3, <1>10 DEF Write, StartIO, fatVars
  <1>11. ASSUME NEW f \in File, Remove(f) PROVE Truncation'
    <2>1. UNCHANGED fat /\ task' = [op |-> "delete", file |-> f, cluster |-> dirent[f].start, truncate |-> 0]
          /\ dirent' = [dirent EXCEPT ![f] = NoFile] /\ dirent \in [File -> Dirent]
      BY <1>2, <1>11 DEF Remove, fatVars, TypeOK
    <2>2. dirent'[f].start = 0
      BY <2>1 DEF NoFile
    <2> QED BY <2>1, <2>2 DEF Truncation, Exists
  <1>12. CASE SetFatDirChain
    <2>1. task \in TableTask
      BY <1>2, <1>12, TaskIs DEF SetFatDirChain
    <2>2. task'.op \in {"none", "table"}
      BY <1>12, <2>1 DEF SetFatDirChain, Idle, TableTask
    <2> QED BY <1>3, <1>12, <2>2 DEF SetFatDirChain
  <1>13. CASE Grow
    <2>1. task \in GrowTask /\ task.cur \in Cluster
      BY <1>2, <1>13, TaskIs DEF Grow, GrowTask
    <2>2. fat'[0] = EOF
      BY <1>2, <1>13, <2>1, GrowKeepsZero DEF Grow, Truncation
    <2>3. task'.op \in {"grow", "io"}
      <3>1. CASE \E c : task' = [task EXCEPT !.need = @ - 1, !.cur = c]
        BY <2>1, <3>1 DEF GrowTask
      <3>2. CASE task' = StartIO(task.slot, task.pos, task.size, TRUE, TRUE)
        BY <3>2 DEF StartIO
      <3> QED BY <1>13, <3>1, <3>2 DEF Grow
    <2> QED BY <2>2, <2>3 DEF Truncation
  <1>14. CASE GrowFails
    BY <1>3, <1>14 DEF GrowFails, Idle, fatVars
  <1>15. CASE Transfer
    <2>1. task \in IOTask
      BY <1>2, <1>15, TaskIs DEF Transfer
    <2>2. task'.op = "io"
      BY <1>15, <2>1 DEF Transfer, IOTask
    <2> QED BY <1>3, <1>15, <2>2 DEF Transfer
  <1>16. CASE TransferDone
    BY <1>3, <1>16 DEF TransferDone, EndIO, ReadTable, Idle, fatVars
  <1>17. CASE ChangeMedium
    <2>1. \E m \in Media : fat' = m.fat
      BY <1>17 DEF ChangeMedium, Remount
    <2>2. fat'[0] = EOF
      BY <2>1 DEF Sound
    <2> QED BY <1>17, <2>2 DEF ChangeMedium, Remount, Idle, Truncation
  <1>18. CASE DeleteClusterChain
    BY <1>1, <1>2, <1>18, DeleteTruncation
  <1> QED BY <1>4, <1>5, <1>6, <1>7, <1>8, <1>9, <1>10, <1>11, <1>12, <1>13, <1>14, <1>15,
             <1>16, <1>17, <1>18 DEF Next, Call, Work

-----------------------------------------------------------------------------
(* What the walk from the first cluster of a file finds.                   *)
LEMMA WalkOwned ==
  ASSUME NEW own, OwnersOK(own), NEW f \in File, NEW c \in own[f]
  PROVE  /\ ClustersOf(c) \subseteq own[f]
         /\ Reached(fat, own[f], c) => ClustersOf(c) = own[f]
  <1>1. own[f] \in SUBSET Cluster /\ Inside(fat, own[f])
    BY DEF OwnersOK
  <1> QED BY <1>1, ChainCovers DEF ClustersOf, ChainOf

(* A walk from a free cluster goes to entry 0 and ends there.              *)
LEMMA WalkFree ==
  ASSUME NEW c, fat[c] = 0, fat[0] = EOF
  PROVE  ClustersOf(c) \subseteq {c, 0}
  <1>1. Follows(fat, {c, 0}, c, LastCluster, ChainOf(c))
    BY ChainFollows, FatAssumption DEF ChainOf
  <1> QED BY <1>1 DEF Follows, ClustersOf

(* Walks stay in sets that are disjoint.                                   *)
LEMMA NoLinks ==
  ASSUME TypeOK, NEW own, Owns(own), Truncation
  PROVE  NoCrossLinks
  <1>1. OwnersOK(own) /\ StartsOK(own) /\ TaskOK(own)
    BY DEF Owns
  <1>2. ASSUME NEW f \in File, Exists(f)
        PROVE  \/ ClustersOf(dirent[f].start) \subseteq own[f]
               \/ Deleting(f) /\ ClustersOf(dirent[f].start) \subseteq {dirent[f].start, 0}
    <2>1. CASE ~ Deleting(f)
      <3>1. dirent[f].start \in own[f]
        BY <1>1, <1>2, <2>1 DEF StartsOK
      <3> QED BY <1>1, <3>1, WalkOwned
    <2>2. CASE Deleting(f)
      <3>1. CASE dirent[f].start \in own[f]
        BY <1>1, <3>1, WalkOwned
      <3>2. CASE fat[dirent[f].start] = 0
        BY <2>2, <3>2, WalkFree DEF Truncation
      <3>3. dirent[f].start \in own[f] \/ fat[dirent[f].start] = 0
        BY <1>1, <1>2, <2>2 DEF Truncation, Deleting, TaskOK
      <3> QED BY <3>1, <3>2, <3>3
    <2> QED BY <2>1, <2>2
  <1>3. ASSUME NEW f \in File, NEW g \in File, f # g, Exists(f), Exists(g)
        PROVE  ClustersOf(dirent[f].start) \intersect ClustersOf(dirent[g].start) = {}
    <2>1. /\ dirent[f].start \notin own[g] /\ dirent[g].start \notin own[f]
          /\ 0 \notin own[f] /\ 0 \notin own[g] /\ own[f] \intersect own[g] = {}
      BY <1>1, <1>3, ClusterIs DEF StartsOK, OwnersOK
    <2>2. ~ (Deleting(f) /\ Deleting(g))
      BY <1>3 DEF Deleting
    <2> QED BY <1>2, <1>3, <2>1, <2>2
  <1>4. ASSUME NEW f \in File, Exists(f), task.op # "delete"
        PROVE  0 \notin ClustersOf(dirent[f].start)
    <2>1. ~ Deleting(f) /\ 0 \notin own[f]
      BY <1>1, <1>4, ClusterIs DEF Deleting, OwnersOK
    <2> QED BY <1>2, <1>4, <2>1
  <1> QED BY <1>3, <1>4 DEF NoCrossLinks

(* Walks find all clusters of the files, and all that are in use are of    *)
(* files.                                                                  *)
LEMMA NoneLost ==
  ASSUME TypeOK, NEW own, Owns(own)
  PROVE  NoLostClusters
  <1> SUFFICES ASSUME task = Idle, ~ ranOut
               PROVE  InUse = UNION {ClustersOf(dirent[f].start) : f \in {g \in File : Exists(g)}}
    BY DEF NoLostClusters
  <1>1. OwnersOK(own) /\ StartsOK(own) /\ AllOwned(own) /\ AllReached(own)
        /\ \A f \in File : ~ Deleting(f)
    BY DEF Owns, Lossless, Idle, Deleting
  <1>2. ASSUME NEW f \in File, Exists(f) PROVE ClustersOf(dirent[f].start) = own[f]
    <2>1. dirent[f].start \in own[f] /\ Reached(fat, own[f], dirent[f].start)
      BY <1>1, <1>2 DEF StartsOK, AllReached, Root
    <2> QED BY <1>1, <2>1, WalkOwned
  <1>3. ASSUME NEW c \in InUse PROVE \E f \in File : Exists(f) /\ c \in own[f]
    <2>1. c \in Cluster /\ fat[c] # 0
      BY DEF InUse
    <2>2. PICK f \in File : c \in own[f]
      BY <1>1, <2>1 DEF AllOwned
    <2>3. Exists(f)
      BY <1>1, <2>2 DEF AllReached
    <2> QED BY <2>2, <2>3
  <1>4. ASSUME NEW f \in File, NEW c \in own[f] PROVE c \in InUse
    <2>1. c \in Cluster /\ (fat[c] = EOF \/ fat[c] \in Cluster)
      BY <1>1 DEF OwnersOK, Inside
    <2> QED BY <2>1, ClusterIs DEF InUse
  <1> QED BY <1>2, <1>3, <1>4

(* What the runs check follows from the invariant.                         *)
LEMMA FilesInvImplies ==
  ASSUME FilesInv, Truncation
  PROVE  TypeOK /\ NoCrossLinks /\ NoLostClusters
  <1>1. PICK own : Owns(own)
    BY DEF FilesInv
  <1>2. TypeOK
    BY DEF FilesInv
  <1> QED BY <1>1, <1>2, NoLinks, NoneLost
-----------------------------------------------------------------------------
(* The file functions as long as a medium with files is never put in while *)
(* the stack holds free clusters of the one before.                        *)
CarefulSpec == Init /\ [][Next /\ StackNotStale]_vars

(* On media without damage and with names that fs_open and fs_remove can   *)
(* compare, the chains stay apart and nothing is lost, whatever is opened, *)
(* written, truncated, removed and mounted, up to a change of the medium   *)
(* with clusters in the stack: those are handed out on the new one, too.   *)
THEOREM FilesInvariant ==
  ASSUME ~ ByPath, \A m \in Media : Sound(m)
  PROVE  CarefulSpec => [](FilesInv /\ Truncation)
  <1>1. Init => FilesInv /\ Truncation
    <2> SUFFICES ASSUME Init PROVE FilesInv /\ Truncation
      OBVIOUS
    <2>1. fat[0] = EOF /\ task.op # "delete"
      BY DEF Init, Sound, Idle
    <2> QED BY <2>1, InitOwns DEF Truncation
  <1>2. FilesInv /\ Truncation /\ [Next /\ StackNotStale]_vars => (FilesInv /\ Truncation)'
    BY FilesStep, TruncationStep
  <1> QED BY <1>1, <1>2, PTL DEF CarefulSpec

(* The same of the properties: they hold in every state of CarefulSpec.    *)
THEOREM CarefulIsCorrect ==
  ASSUME ~ ByPath, \A m \in Media : Sound(m)
  PROVE  CarefulSpec => [](TypeOK /\ NoCrossLinks /\ NoLostClusters)
  BY FilesInvariant, FilesInvImplies, PTL

(* A change for a blank medium leaves nothing to go wrong.                 *)
LEMMA BlankIsCareful ==
  ASSUME \A m \in Media : Blank(m), [Next]_vars
  PROVE  [Next /\ StackNotStale]_vars
  <1>1. Remount => \A c \in Cluster : fat'[c] = 0
    BY DEF ChangeMedium, Remount, Blank
  <1> QED BY <1>1 DEF StackNotStale

(* With blank media no step is excluded: all the properties hold of Spec.  *)
THEOREM BlankInvariant ==
  ASSUME ~ ByPath, \A m \in Media : Blank(m)
  PROVE  Spec => [](TypeOK /\ NoCrossLinks /\ NoLostClusters)
  <1>1. \A m \in Media : Sound(m)
    BY BlankIsSound
  <1>2. [Next]_vars => [Next /\ StackNotStale]_vars
    BY BlankIsCareful
  <1>3. CarefulSpec => [](TypeOK /\ NoCrossLinks /\ NoLostClusters)
    BY <1>1, CarefulIsCorrect
  <1> QED BY <1>2, <1>3, PTL DEF Spec, CarefulSpec

(* Files, slots and the call under way have their types.                   *)
THEOREM FilesTyped ==
  ASSUME ~ ByPath, \A m \in Media : Blank(m)
  PROVE  Spec => []TypeOK
  BY BlankInvariant, PTL

(* The chains of two files never meet, and no chain leads into a free      *)
(* cluster, through every order of fat_getFreeCluster,                     *)
(* fat_deleteClusterChain and the calls that read a chain into cbuf.       *)
THEOREM ChainsStayApart ==
  ASSUME ~ ByPath, \A m \in Media : Blank(m)
  PROVE  Spec => []NoCrossLinks
  BY BlankInvariant, PTL

(* Between calls each cluster in use is of a file, unless fat_writeFile    *)
(* once failed for want of space.                                          *)
THEOREM ClustersAreNotLost ==
  ASSUME ~ ByPath, \A m \in Media : Blank(m)
  PROVE  Spec => []NoLostClusters
  BY BlankInvariant, PTL
-----------------------------------------------------------------------------
(* Clusters of a file of n units: an empty one has one.                    *)
LenOf(n) == IF n = 0 THEN 1 ELSE Clusters(n)

(* Each cluster has a number, one more than that of the one before it.     *)
Graded(t, num) ==
  /\ num \in [Cluster -> Nat]
  /\ \A x \in Cluster : t[x] \in Cluster => num[t[x]] = num[x] + 1

(* A chain that ends in S has n clusters.                                  *)
EndsAt(t, S, num, n) == \A x \in S : t[x] = EOF => num[x] + 1 = n

(* Clusters of the file in slot s: fat_writeFile is ahead of the size.     *)
LengthOf(s) ==
  IF task.op = "grow" /\ task.slot = s THEN Clusters(task.pos + task.size) - task.need
  ELSE IF task.op = "io" /\ task.slot = s /\ task.grown THEN Clusters(task.end)
  ELSE LenOf(handle[s].size)

InNoSlot(f) == \A s \in Slot : ~ (handle[s].open /\ handle[s].file = f)

FilesSized(own, num) ==
  \A f \in File : Exists(f) =>
    /\ num[dirent[f].start] = 0
    /\ ~ Deleting(f) /\ InNoSlot(f) => EndsAt(fat, own[f], num, LenOf(dirent[f].size))

TableOK(num, h) ==
  /\ h.chain[0].cluster = dirent[h.file].start
  /\ \A j \in Seek : num[h.chain[j].cluster] = h.chain[j].index
  /\ ~ h.sizeChange => dirent[h.file].size = h.size

SlotsSized(own, num) ==
  \A s \in Slot : handle[s].open =>
    TableOK(num, handle[s]) /\ EndsAt(fat, own[handle[s].file], num, LengthOf(s))

CallSized(num) ==
  /\ task.op = "table" =>
       /\ num[task.cluster] = task.index
       /\ IF task.index = 0 THEN task.cluster = dirent[handle[task.slot].file].start
          ELSE task.cluster # lastChain
  /\ task.op = "grow" =>
       /\ task.need >= 1 /\ num[task.cur] + 1 = LengthOf(task.slot)
       /\ Clusters(task.pos + task.size) > LenOf(handle[task.slot].size)
  /\ task.op = "io" =>
       /\ task.grown => task.write /\ task.end > handle[task.slot].size
       /\ task.write /\ ~ task.grown => Clusters(task.end) <= LenOf(handle[task.slot].size)
  /\ task.op = "delete" => task.truncate = 0 \/ ~ handle[task.truncate].open

Measured(own, num) ==
  Graded(fat, num) /\ FilesSized(own, num) /\ SlotsSized(own, num) /\ CallSized(num)

(* As long as no write ran out of space.                                   *)
SeekInv == ~ ranOut => \E own, num : Owns(own) /\ Measured(own, num)
-----------------------------------------------------------------------------
(* More units take as many clusters or more.                               *)
LEMMA ClustersGrow ==
  ASSUME NEW m \in Nat, NEW n \in Nat, m <= n
  PROVE  /\ Clusters(m) \in Nat /\ Clusters(n) \in Nat /\ Clusters(m) <= Clusters(n)
         /\ n > 0 => Clusters(n) >= 1
  <1>1. ClusterBytes \in Nat \ {0}
    BY FilesAssumption
  <1> DEFINE p == m + ClusterBytes - 1
             q == n + ClusterBytes - 1
  <1>2. p \in Int /\ q \in Int /\ p <= q /\ p >= 0 /\ q >= 0 /\ (n > 0 => q >= ClusterBytes)
    BY <1>1
  <1>3. Clusters(m) = p \div ClusterBytes /\ Clusters(n) = q \div ClusterBytes
    BY DEF Clusters
  <1> HIDE DEF p, q
  <1>4. /\ p \div ClusterBytes \in Int /\ q \div ClusterBytes \in Int
        /\ ClusterBytes * (p \div ClusterBytes) <= p
    BY <1>1, <1>2, Division
  <1> DEFINE u == p \div ClusterBytes
  <1>5. u \in Int /\ ClusterBytes * u <= q
    <2>1. ClusterBytes * u \in Int
      BY <1>1, <1>4, SMTT(30)
    <2> QED BY <1>2, <1>4, <2>1
  <1>6. u <= q \div ClusterBytes
    <2> HIDE DEF u
    <2> QED BY <1>1, <1>2, <1>5, Quotient
  <1>7. 0 <= p \div ClusterBytes /\ 0 <= q \div ClusterBytes
    <2>1. ClusterBytes * 0 <= p /\ ClusterBytes * 0 <= q /\ 0 \in Int
      BY <1>1, <1>2
    <2> QED BY <1>1, <1>2, <2>1, Quotient
  <1>8. n > 0 => 1 <= q \div ClusterBytes
    <2>1. n > 0 => ClusterBytes * 1 <= q /\ 1 \in Int
      BY <1>1, <1>2
    <2> QED BY <1>1, <1>2, <2>1, Quotient
  <1> QED BY <1>3, <1>4, <1>6, <1>7, <1>8

(* What a write that needs more clusters, or no more, says of the sizes.   *)
LEMMA LenOfIs ==
  ASSUME NEW m \in Nat, NEW n \in Nat
  PROVE  /\ LenOf(m) \in Nat /\ LenOf(m) >= 1
         /\ n > 0 => LenOf(n) = Clusters(n)
         /\ Clusters(n) > LenOf(m) => n > m
         /\ n > m => Clusters(n) >= LenOf(m)
  <1>1. Clusters(m) \in Nat /\ Clusters(n) \in Nat
    BY ClustersGrow
  <1>2. m > 0 => Clusters(m) >= 1
    BY ClustersGrow
  <1>3. n > 0 => Clusters(n) >= 1
    BY ClustersGrow
  <1>4. n <= m => Clusters(n) <= Clusters(m)
    BY ClustersGrow
  <1>5. m <= n => Clusters(m) <= Clusters(n)
    BY ClustersGrow
  <1>6. n = 0 => Clusters(n) = 0
    <2>1. (ClusterBytes - 1) \div ClusterBytes = 0
      <3>1. ClusterBytes \in Nat \ {0}
        BY FilesAssumption
      <3> DEFINE z == (ClusterBytes - 1) \div ClusterBytes
      <3>2. z \in Int /\ ClusterBytes * z <= ClusterBytes - 1
        BY <3>1, Division
      <3>3. ClusterBytes * 0 <= ClusterBytes - 1 /\ 0 \in Int
        BY <3>1
      <3>4. 0 <= z
        BY <3>1, <3>3, Quotient
      <3> HIDE DEF z
      <3>5. z >= 1 => ClusterBytes * z >= ClusterBytes
        BY <3>1, <3>2, SMTT(30)
      <3>6. ClusterBytes * z \in Int
        BY <3>1, <3>2, SMTT(30)
      <3>7. z = 0
        BY <3>1, <3>2, <3>4, <3>5, <3>6
      <3> QED BY <3>7 DEF z
    <2>2. n = 0 => n + ClusterBytes - 1 = ClusterBytes - 1
      BY FilesAssumption
    <2> QED BY <2>1, <2>2 DEF Clusters
  <1> QED BY <1>1, <1>2, <1>3, <1>4, <1>5, <1>6 DEF LenOf

(* The clusters in cbuf have the numbers after that of the first.          *)
LEMMA BufferGraded ==
  ASSUME NEW t, NEW num, Graded(t, num), NEW buf, NEW n \in Nat, Forward(t, buf, n),
         \A i \in 1 .. n : buf[i] \in Cluster
  PROVE  \A i \in 1 .. n : num[buf[i]] = num[buf[1]] + (i - 1)
  <1> DEFINE Bad == {i \in 1 .. n : num[buf[i]] # num[buf[1]] + (i - 1)}
  <1> SUFFICES ASSUME Bad # {} PROVE FALSE
    OBVIOUS
  <1>1. PICK i \in Bad : \A j \in Bad : i <= j
    BY LeastOf, Bad \subseteq Nat
  <1>2. \A j \in 1 .. n : num[buf[j]] \in Nat
    BY DEF Graded
  <1>3. CASE i = 1
    <2>1. 1 \in 1 .. n
      BY <1>3
    <2> QED BY <1>1, <1>2, <1>3, <2>1
  <1>4. CASE i # 1
    <2>1. i - 1 \in 1 .. n - 1 /\ i - 1 \in 1 .. n /\ i - 1 \notin Bad /\ i = (i - 1) + 1 /\ 1 \in 1 .. n
      BY <1>1, <1>4
    <2>2. buf[i] = t[buf[i - 1]] /\ buf[i] \in Cluster /\ buf[i - 1] \in Cluster
      BY <2>1 DEF Forward
    <2>3. num[buf[i]] = num[buf[i - 1]] + 1
      BY <2>2 DEF Graded
    <2>4. num[buf[i - 1]] = num[buf[1]] + ((i - 1) - 1)
      BY <2>1
    <2>5. num[buf[1]] \in Nat /\ i \in Nat
      BY <1>2, <2>1
    <2>6. num[buf[i]] = num[buf[1]] + (i - 1)
      BY <2>3, <2>4, <2>5
    <2> QED BY <1>1, <2>6
  <1> QED BY <1>3, <1>4

(* The whole chain of a file: cluster x is the one at its number, and only *)
(* the last one ends it.                                                   *)
LEMMA ChainGraded ==
  ASSUME NEW S \in SUBSET Cluster, NEW r \in S, Inside(fat, S), Reached(fat, S, r),
         NEW num, Graded(fat, num), num[r] = 0
  PROVE  LET w == ChainOf(r)
         IN  /\ Len(w) \in Nat \ {0}
             /\ \A x \in S : num[x] + 1 \in 1 .. Len(w) /\ w[num[x] + 1] = x
             /\ \A x \in S : fat[x] = EOF => num[x] + 1 = Len(w)
  <1> DEFINE w == ChainOf(r)
  <1>1. Follows(fat, S, r, LastCluster, w)
    BY ChainFollows, FatAssumption DEF Inside, ChainOf
  <1>2. /\ {w[i] : i \in DOMAIN w} = S
        /\ w \in Seq(S) /\ Len(w) \in Nat \ {0} /\ w[1] = r
    BY ChainCovers DEF ChainOf
  <1> HIDE DEF w
  <1>3. /\ DOMAIN w = 1 .. Len(w) /\ (\A i \in 1 .. Len(w) : w[i] \in S /\ w[i] \in Cluster)
        /\ Forward(fat, w, Len(w))
    BY <1>1, <1>2 DEF Follows, Forward
  <1>4. \A i \in 1 .. Len(w) : num[w[i]] = i - 1
    <2>1. \A i \in 1 .. Len(w) : num[w[i]] = num[w[1]] + (i - 1)
      <3>1. Len(w) \in Nat
        BY <1>2
      <3> QED BY <1>3, <3>1, BufferGraded
    <2> QED BY <1>2, <2>1
  <1>5. \A x \in S : num[x] + 1 \in 1 .. Len(w) /\ w[num[x] + 1] = x
    <2> SUFFICES ASSUME NEW x \in S PROVE num[x] + 1 \in 1 .. Len(w) /\ w[num[x] + 1] = x
      OBVIOUS
    <2>1. PICK k \in 1 .. Len(w) : w[k] = x
      BY <1>2, <1>3
    <2>2. num[x] + 1 = k
      BY <1>4, <2>1
    <2> QED BY <2>1, <2>2
  <1>6. ASSUME NEW x \in S, fat[x] = EOF PROVE num[x] + 1 = Len(w)
    <2>1. PICK k : k = num[x] + 1
      OBVIOUS
    <2>2. k \in 1 .. Len(w) /\ w[k] = x
      BY <1>5, <2>1
    <2>3. ASSUME k # Len(w) PROVE FALSE
      <3>1. k \in 1 .. Len(w) - 1 /\ k + 1 \in 1 .. Len(w)
        BY <1>2, <2>2, <2>3
      <3>2. w[k + 1] = fat[w[k]]
        BY <3>1, <1>3 DEF Forward
      <3> QED BY <1>3, <1>6, <2>2, <3>1, <3>2, ClusterIs
    <2> QED BY <2>1, <2>3
  <1> QED BY <1>2, <1>5, <1>6 DEF w

(* Two clusters that end the chain of a file are the same.                 *)
LEMMA OneEnd ==
  ASSUME NEW S \in SUBSET Cluster, NEW r \in S, Inside(fat, S), Reached(fat, S, r),
         NEW num, Graded(fat, num), num[r] = 0,
         NEW x \in S, NEW y \in S, fat[x] = EOF, fat[y] = EOF
  PROVE  x = y
  <1> DEFINE w == ChainOf(r)
  <1>1. num[x] + 1 = Len(w) /\ num[y] + 1 = Len(w) /\ w[num[x] + 1] = x /\ w[num[y] + 1] = y
    BY ChainGraded
  <1> QED BY <1>1

(* What the run checks.                                                    *)
LEMMA SeekInvImplies ==
  ASSUME TypeOK, SeekInv
  PROVE  SeekTableRight
  <1> SUFFICES ASSUME task = Idle, ~ ranOut, NEW s \in Slot, handle[s].open
               PROVE  LET h == handle[s]
                          w == FileChain(h.file)
                      IN  /\ h.lastCluster = w[Len(w)]
                          /\ Len(w) = IF h.size = 0 THEN 1 ELSE Clusters(h.size)
                          /\ \A j \in Seek : h.chain[j].cluster = w[h.chain[j].index + 1]
    BY DEF SeekTableRight
  <1>1. PICK own, num : Owns(own) /\ Measured(own, num)
    BY DEF SeekInv
  <1>h. PICK h : h = handle[s]
    OBVIOUS
  <1>f. PICK f : f = h.file
    OBVIOUS
  <1>2. /\ h \in OpenFile /\ f \in File /\ HandleOK(own, h)
        /\ TableOK(num, h) /\ EndsAt(fat, own[f], num, LengthOf(s))
    BY <1>1, <1>h, <1>f, OpenIs DEF OpenFile, Owns, HandlesOK, Measured, SlotsSized
  <1>3. /\ task.op = "none" /\ ~ Deleting(f) /\ ~ Changing(s)
    BY <1>2, IdleIs
  <1>4. /\ own[f] \in SUBSET Cluster /\ Inside(fat, own[f]) /\ dirent[f].start \in own[f]
        /\ Reached(fat, own[f], dirent[f].start) /\ Exists(f) /\ fat[h.lastCluster] = EOF
        /\ Graded(fat, num) /\ num[dirent[f].start] = 0
    BY <1>1, <1>2, <1>3, <1>h, <1>f DEF Owns, OwnersOK, StartsOK, HandleOK, Lossless, AllReached, Root,
       EndsOK, Measured, FilesSized
  <1> DEFINE w == ChainOf(dirent[f].start)
  <1>5. /\ Len(w) \in Nat \ {0}
        /\ \A x \in own[f] : num[x] + 1 \in 1 .. Len(w) /\ w[num[x] + 1] = x
        /\ \A x \in own[f] : fat[x] = EOF => num[x] + 1 = Len(w)
    BY <1>4, ChainGraded
  <1> HIDE DEF w
  <1>6. h.lastCluster \in own[f] /\ \A j \in Seek : h.chain[j].cluster \in own[f]
    BY <1>2, <1>f DEF HandleOK
  <1>7. num[h.lastCluster] + 1 = Len(w) /\ h.lastCluster = w[Len(w)]
    BY <1>4, <1>5, <1>6
  <1>8. Len(w) = LenOf(h.size)
    BY <1>2, <1>3, <1>4, <1>6, <1>7, <1>h DEF EndsAt, LengthOf
  <1>9. \A j \in Seek : h.chain[j].cluster = w[h.chain[j].index + 1]
    BY <1>2, <1>5, <1>6 DEF TableOK
  <1>10. w = FileChain(h.file)
    BY <1>f DEF w, FileChain
  <1> QED BY <1>7, <1>8, <1>9, <1>10, <1>h DEF LenOf
-----------------------------------------------------------------------------
(* A slot that was just filled points to the first cluster.                *)
LEMMA NewHandleMeasured ==
  ASSUME NEW f, NEW c, NEW n, NEW h, h = NewHandle(f, c, n), NEW num, num[c] = 0,
         NEW d, d[f].start = c, d[f].size = n
  PROVE  /\ h.open /\ h.file = f /\ h.size = n /\ ~ h.sizeChange
         /\ h.chain[0].cluster = d[h.file].start
         /\ \A j \in Seek : num[h.chain[j].cluster] = h.chain[j].index
         /\ d[h.file].size = h.size
  <1>1. 0 \in Seek
    BY FilesAssumption DEF Seek
  <1> QED BY <1>1 DEF NewHandle

(* fs_open.                                                                *)
LEMMA OpenMeasured ==
  ASSUME TypeOK, ~ ByPath, NEW own, Owns(own), NEW num, Measured(own, num),
         NEW s \in Slot, NEW f \in File, Open(s, f)
  PROVE  Measured(own, num)'
  <1>1. /\ task = Idle /\ task.op = "none" /\ (\A g \in File : ~ Deleting(g))
        /\ task' = [op |-> "table", slot |-> s, cluster |-> dirent[f].start, index |-> 0]
        /\ UNCHANGED <<fat, dirent>> /\ Exists(f) /\ ~ handle[s].open
        /\ \A g \in File : ~ Deleting(g)'
    BY IdleIs DEF Open, ReadTable, fatVars, Deleting, FreeSlot
  <1>2. \A t \in Slot : handle'[t] =
          IF t = s THEN NewHandle(f, dirent[f].start, dirent[f].size) ELSE handle[t]
    BY DEF Open, TypeOK
  <1>3. InNoSlot(f) /\ num[dirent[f].start] = 0
    BY <1>1, NotBusy DEF Open, InNoSlot, Measured, FilesSized
  <1>4. Graded(fat, num)'
    BY <1>1 DEF Measured
  <1>5. FilesSized(own, num)'
    <2>1. \A g \in File : InNoSlot(g)' => InNoSlot(g)
      BY <1>1, <1>2 DEF InNoSlot
    <2> QED BY <1>1, <2>1 DEF Measured, FilesSized, Exists
  <1>6. SlotsSized(own, num)'
    <2>1. ASSUME NEW t \in Slot, t # s, handle'[t].open
          PROVE  (TableOK(num, handle[t]) /\ EndsAt(fat, own[handle[t].file], num, LengthOf(t)))'
      <3>1. handle'[t] = handle[t]
        BY <1>2, <2>1
      <3>2. LengthOf(t) = LenOf(handle[t].size) /\ LengthOf(t)' = LenOf(handle[t].size)
        BY <1>1, <3>1 DEF LengthOf
      <3>3. TableOK(num, handle[t]) /\ EndsAt(fat, own[handle[t].file], num, LengthOf(t))
        BY <2>1, <3>1 DEF Measured, SlotsSized
      <3> QED BY <1>1, <3>1, <3>2, <3>3 DEF TableOK
    <2>2. PICK h : h = handle'[s]
      OBVIOUS
    <2>3. /\ h.open /\ h.file = f /\ h.size = dirent[f].size
          /\ h.chain[0].cluster = dirent[h.file].start
          /\ (\A j \in Seek : num[h.chain[j].cluster] = h.chain[j].index)
          /\ dirent[h.file].size = h.size
      <3>1. h = NewHandle(f, dirent[f].start, dirent[f].size)
        BY <1>2, <2>2
      <3> QED BY <1>3, <3>1, NewHandleMeasured
    <2>4. TableOK(num, handle[s])'
      BY <1>1, <2>2, <2>3 DEF TableOK
    <2>5. LengthOf(s)' = LenOf(dirent[f].size)
      BY <1>1, <2>2, <2>3 DEF LengthOf
    <2>6. EndsAt(fat, own[f], num, LenOf(dirent[f].size))
      BY <1>1, <1>3 DEF Measured, FilesSized
    <2>7. EndsAt(fat, own[handle[s].file], num, LengthOf(s))'
      BY <1>1, <2>2, <2>3, <2>5, <2>6 DEF EndsAt
    <2> QED BY <2>1, <2>4, <2>7 DEF SlotsSized
  <1>7. CallSized(num)'
    <2>1. handle'[s].file = f
      BY <1>2 DEF NewHandle
    <2> QED BY <1>1, <1>3, <2>1 DEF CallSized
  <1> QED BY <1>4, <1>5, <1>6, <1>7 DEF Measured

(* fs_open with O_TRUNC, up to the first round of deleting.                *)
LEMMA OpenTruncatedMeasured ==
  ASSUME TypeOK, NEW own, NEW num, Measured(own, num),
         NEW s \in Slot, NEW f \in File, OpenTruncated(s, f)
  PROVE  Measured(own, num)'
  <1>1. /\ task = Idle /\ task.op = "none" /\ task'.op = "delete" /\ task'.truncate = s
        /\ UNCHANGED <<fat, dirent, handle>> /\ ~ handle[s].open
        /\ \A g \in File : ~ Deleting(g)
    BY IdleIs DEF OpenTruncated, fatVars, FreeSlot
  <1>2. \A t \in Slot : LengthOf(t)' = LengthOf(t)
    BY <1>1 DEF LengthOf
  <1>3. FilesSized(own, num)'
    BY <1>1 DEF Measured, FilesSized, Exists, InNoSlot
  <1>4. SlotsSized(own, num)'
    BY <1>1, <1>2 DEF Measured, SlotsSized, TableOK
  <1> QED BY <1>1, <1>3, <1>4 DEF Measured, CallSized

(* fs_remove, up to the first round of deleting.                           *)
LEMMA RemoveMeasured ==
  ASSUME TypeOK, ~ ByPath, NEW own, NEW num, Measured(own, num), NEW f \in File, Remove(f)
  PROVE  Measured(own, num)'
  <1>1. /\ task = Idle /\ task.op = "none" /\ task'.op = "delete" /\ task'.truncate = 0
        /\ UNCHANGED <<fat, handle>> /\ \A g \in File : ~ Deleting(g)
    BY IdleIs DEF Remove, fatVars
  <1>2. \A t \in Slot : LengthOf(t)' = LengthOf(t)
    BY <1>1 DEF LengthOf
  <1>3. \A g \in File : dirent'[g] = IF g = f THEN NoFile ELSE dirent[g]
    BY DEF Remove, TypeOK
  <1>4. FilesSized(own, num)'
    <2>1. ~ Exists(f)'
      BY <1>3 DEF Exists, NoFile
    <2>2. \A g \in File \ {f} : dirent'[g] = dirent[g] /\ (InNoSlot(g)' => InNoSlot(g))
      BY <1>1, <1>3 DEF InNoSlot
    <2> QED BY <1>1, <2>1, <2>2 DEF Measured, FilesSized, Exists
  <1>5. SlotsSized(own, num)'
    <2> SUFFICES ASSUME NEW t \in Slot, handle[t].open
                 PROVE  (TableOK(num, handle[t]) /\ EndsAt(fat, own[handle[t].file], num, LengthOf(t)))'
      BY <1>1 DEF SlotsSized
    <2>1. TableOK(num, handle[t]) /\ EndsAt(fat, own[handle[t].file], num, LengthOf(t))
      BY DEF Measured, SlotsSized
    <2>2. handle[t].file # f /\ handle[t].file \in File
      BY NotBusy, OpenIs DEF Remove, OpenFile
    <2>3. dirent'[handle[t].file] = dirent[handle[t].file]
      BY <1>3, <2>2
    <2> QED BY <1>1, <1>2, <2>1, <2>3 DEF TableOK
  <1> QED BY <1>1, <1>4, <1>5 DEF Measured, CallSized

(* fs_close: the size of the slot becomes the size of the file.            *)
LEMMA CloseMeasured ==
  ASSUME TypeOK, NEW own, Owns(own), NEW num, Measured(own, num), NEW s \in Slot, Close(s)
  PROVE  Measured(own, num)'
  <1>1. /\ task = Idle /\ task.op = "none" /\ UNCHANGED <<fat, task>> /\ handle[s].open
        /\ \A g \in File : ~ Deleting(g) /\ ~ Deleting(g)'
    BY IdleIs DEF Close, fatVars, Deleting
  <1>2. \A t \in Slot : handle'[t] = IF t = s THEN Closed ELSE handle[t]
    BY DEF Close, TypeOK
  <1>f. PICK f : f = handle[s].file
    OBVIOUS
  <1>3. /\ f \in File /\ TableOK(num, handle[s]) /\ EndsAt(fat, own[f], num, LenOf(handle[s].size))
        /\ \A t \in Slot : LengthOf(t) = LenOf(handle[t].size)
        /\ \A t \in Slot : LengthOf(t)' = LenOf(handle'[t].size)
    <2>1. /\ \A t \in Slot : LengthOf(t) = LenOf(handle[t].size)
          /\ \A t \in Slot : LengthOf(t)' = LenOf(handle'[t].size)
      BY <1>1 DEF LengthOf
    <2>2. f \in File
      BY <1>1, <1>f, OpenIs DEF OpenFile
    <2> QED BY <1>1, <1>f, <2>1, <2>2 DEF Measured, SlotsSized
  <1>4. /\ \A g \in File : dirent'[g].start = dirent[g].start
        /\ \A g \in File \ {f} : dirent'[g] = dirent[g]
        /\ dirent'[f].size = handle[s].size
    <2>1. CASE handle[s].sizeChange
      <3>1. dirent' = [dirent EXCEPT ![f].size = handle[s].size]
        BY <1>f, <2>1 DEF Close
      <3>2. dirent \in [File -> Dirent]
        BY DEF TypeOK
      <3> QED BY <1>3, <3>1, <3>2 DEF Dirent
    <2>2. CASE ~ handle[s].sizeChange
      <3>1. dirent' = dirent
        BY <2>2 DEF Close
      <3> QED BY <1>3, <1>f, <2>2, <3>1 DEF TableOK
    <2> QED BY <2>1, <2>2
  <1>5. FilesSized(own, num)'
    <2>1. ASSUME NEW g \in File, Exists(g)'
          PROVE  /\ num[dirent'[g].start] = 0
                 /\ InNoSlot(g)' => EndsAt(fat, own[g], num, LenOf(dirent'[g].size))
      <3>1. Exists(g) /\ num[dirent'[g].start] = 0
        BY <1>4, <2>1 DEF Exists, Measured, FilesSized
      <3>2. CASE g = f
        BY <1>3, <1>4, <3>1, <3>2
      <3>3. CASE g # f
        <4>1. InNoSlot(g)' => InNoSlot(g)
          BY <1>2, <1>f, <3>3 DEF InNoSlot
        <4> QED BY <1>1, <1>4, <3>1, <3>3, <4>1 DEF Measured, FilesSized
      <3> QED BY <3>2, <3>3
    <2> QED BY <1>1, <2>1 DEF FilesSized, EndsAt
  <1>6. SlotsSized(own, num)'
    <2> SUFFICES ASSUME NEW t \in Slot, handle'[t].open
                 PROVE  (TableOK(num, handle[t]) /\ EndsAt(fat, own[handle[t].file], num, LengthOf(t)))'
      BY DEF SlotsSized
    <2>1. t # s /\ handle'[t] = handle[t] /\ handle[t].open
      BY <1>2 DEF Closed
    <2>2. TableOK(num, handle[t]) /\ EndsAt(fat, own[handle[t].file], num, LengthOf(t))
      BY <2>1 DEF Measured, SlotsSized
    <2>3. handle[t].file \in File \ {f}
      BY <1>1, <1>f, <2>1, OpenIs DEF OpenFile, Owns, OpenOnce
    <2> QED BY <1>1, <1>3, <1>4, <2>1, <2>2, <2>3 DEF TableOK
  <1> QED BY <1>1, <1>5, <1>6 DEF Measured, CallSized

(* A step that changes neither the table nor the slots nor the lengths.    *)
LEMMA MeasuredStays ==
  ASSUME NEW own, NEW num, Measured(own, num), UNCHANGED <<fat, dirent, handle>>,
         task.op # "delete", task'.op # "delete",
         \A s \in Slot : handle[s].open => LengthOf(s)' = LengthOf(s)
  PROVE  Graded(fat, num)' /\ FilesSized(own, num)' /\ SlotsSized(own, num)'
  <1>1. FilesSized(own, num)'
    BY DEF Measured, FilesSized, Exists, InNoSlot, Deleting
  <1>2. SlotsSized(own, num)'
    BY DEF Measured, SlotsSized, TableOK
  <1> QED BY <1>1, <1>2 DEF Measured

(* fs_read, up to its first buffer.                                        *)
LEMMA ReadMeasured ==
  ASSUME TypeOK, NEW own, NEW num, Measured(own, num), NEW s \in Slot, Read(s)
  PROVE  Measured(own, num)'
  <1>1. /\ task.op = "none" /\ task'.op = "io" /\ ~ task'.grown /\ ~ task'.write
        /\ UNCHANGED <<fat, dirent, handle>>
    BY IdleIs DEF Read, StartIO, fatVars
  <1>2. \A t \in Slot : LengthOf(t)' = LengthOf(t)
    BY <1>1 DEF LengthOf
  <1> QED BY <1>1, <1>2, MeasuredStays DEF Measured, CallSized

(* fs_write, up to its first buffer or the first cluster it takes.         *)
LEMMA WriteMeasured ==
  ASSUME TypeOK, ~ ranOut, NEW own, Owns(own), NEW num, Measured(own, num),
         NEW s \in Slot, Write(s)
  PROVE  Measured(own, num)'
  <1>1. /\ task = Idle /\ task.op = "none" /\ handle[s].open
        /\ UNCHANGED <<fat, dirent, handle>>
    BY IdleIs DEF Write, fatVars
  <1>h. PICK h : h = handle[s]
    OBVIOUS
  <1> DEFINE need(p, n) == Clusters(p + n) - LenOf(h.size)
             after(p, n) == IF need(p, n) <= 0 THEN StartIO(s, p, n, TRUE, FALSE)
                            ELSE [op |-> "grow", slot |-> s, pos |-> p, size |-> n,
                                  need |-> need(p, n), cur |-> h.lastCluster]
  <1>2. PICK p \in 0 .. h.size : \E n \in 1 .. MaxSize - p : task' = after(p, n)
    BY <1>h DEF Write, LenOf
  <1>3. PICK n \in 1 .. MaxSize - p : task' = after(p, n)
    BY <1>2
  <1>4. h \in OpenFile /\ h.size \in Nat /\ p \in Nat /\ n \in Nat /\ p + n \in Nat
    <2>1. h \in OpenFile
      BY <1>1, <1>h, OpenIs
    <2>2. h.size \in Nat
      BY <2>1, FilesAssumption DEF OpenFile, Size
    <2> QED BY <2>1, <2>2, FilesAssumption
  <1>5. Clusters(p + n) \in Nat /\ LenOf(h.size) \in Nat
    BY <1>4, LenOfIs, ClustersGrow
  <1>6. /\ LengthOf(s) = LenOf(h.size) /\ EndsAt(fat, own[h.file], num, LenOf(h.size))
        /\ h.lastCluster \in own[h.file] /\ fat[h.lastCluster] = EOF
    <2>1. LengthOf(s) = LenOf(h.size)
      BY <1>1, <1>h DEF LengthOf
    <2>2. h.lastCluster \in own[h.file] /\ fat[h.lastCluster] = EOF
      BY <1>1, <1>h, IdleIs DEF Owns, HandlesOK, HandleOK, Lossless, EndsOK
    <2> QED BY <1>1, <1>h, <2>1, <2>2 DEF Measured, SlotsSized
  <1>7. CASE need(p, n) <= 0
    <2>1. /\ task'.op = "io" /\ task'.slot = s /\ ~ task'.grown /\ task'.end = p + n
      BY <1>3, <1>7 DEF StartIO
    <2>2. \A t \in Slot : LengthOf(t)' = LengthOf(t)
      BY <1>1, <2>1 DEF LengthOf
    <2>3. Clusters(p + n) <= LenOf(h.size)
      BY <1>5, <1>7
    <2> QED BY <1>1, <1>h, <2>1, <2>2, <2>3, MeasuredStays DEF Measured, CallSized
  <1>8. CASE need(p, n) > 0
    <2> DEFINE k == need(p, n)
    <2>1. k \in Nat /\ k >= 1 /\ ~ (k <= 0) /\ Clusters(p + n) - k = LenOf(h.size)
          /\ Clusters(p + n) > LenOf(h.size)
      BY <1>5, <1>8
    <2>2. task' = [op |-> "grow", slot |-> s, pos |-> p, size |-> n,
                   need |-> k, cur |-> h.lastCluster]
      BY <1>3, <2>1
    <2> HIDE DEF k, need
    <2>3. /\ task'.op = "grow" /\ task'.slot = s /\ task'.cur = h.lastCluster
          /\ task'.need = k /\ task'.pos = p /\ task'.size = n
      BY <2>2
    <2>4. LengthOf(s)' = LenOf(h.size) /\ \A t \in Slot : LengthOf(t)' = LengthOf(t)
      BY <1>1, <1>6, <1>h, <2>1, <2>3 DEF LengthOf
    <2>5. num[h.lastCluster] + 1 = LenOf(h.size)
      BY <1>6 DEF EndsAt
    <2>6. CallSized(num)'
      BY <1>1, <1>h, <2>1, <2>3, <2>4, <2>5 DEF CallSized
    <2> QED BY <1>1, <2>3, <2>4, <2>6, MeasuredStays DEF Measured
  <1> QED BY <1>5, <1>7, <1>8

(* One buffer of a transfer.                                               *)
LEMMA TransferMeasured ==
  ASSUME TypeOK, NEW own, NEW num, Measured(own, num), Transfer
  PROVE  Measured(own, num)'
  <1>1. /\ task.op = "io" /\ task \in IOTask
        /\ UNCHANGED <<fat, dirent, handle>>
    BY TaskIs DEF Transfer
  <1>3. /\ task'.op = "io" /\ task'.slot = task.slot /\ task'.end = task.end
        /\ task'.write = task.write /\ task'.grown = task.grown
    BY <1>1 DEF Transfer, IOTask
  <1>4. \A t \in Slot : LengthOf(t)' = LengthOf(t)
    BY <1>1, <1>3 DEF LengthOf
  <1>5. CallSized(num)'
    BY <1>1, <1>3 DEF Measured, CallSized
  <1> QED BY <1>1, <1>3, <1>4, <1>5, MeasuredStays DEF Measured

(* The end of a transfer: the size catches up with the clusters.           *)
LEMMA TransferDoneMeasured ==
  ASSUME TypeOK, NEW own, Owns(own), NEW num, Measured(own, num), TransferDone
  PROVE  Measured(own, num)'
  <1>0. /\ task.op = "io" /\ task \in IOTask
        /\ UNCHANGED <<fat, dirent>> /\ task.slot \in Slot /\ task.end \in Nat
    <2>1. task.op = "io" /\ task \in IOTask
      BY TaskIs DEF TransferDone
    <2> QED BY <2>1, FilesAssumption DEF TransferDone, fatVars, IOTask, Size
  <1>s. PICK s \in Slot : s = task.slot
    BY <1>0
  <1>h. PICK h : h = handle[s]
    OBVIOUS
  <1>e. PICK end \in Nat : end = task.end
    BY <1>0
  <1>1. /\ h.open /\ h \in OpenFile /\ h.size \in Nat /\ h.file \in File
        /\ TableOK(num, h) /\ EndsAt(fat, own[h.file], num, LengthOf(s))
    <2>1. h.open
      BY <1>0, <1>s, <1>h DEF Owns, TaskOK
    <2>2. h \in OpenFile
      BY <1>h, <2>1, OpenIs
    <2>3. h.size \in Nat /\ h.file \in File
      BY <2>2, FilesAssumption DEF OpenFile, Size
    <2> QED BY <1>h, <2>1, <2>2, <2>3 DEF Measured, SlotsSized
  <1> DEFINE longer == task.write /\ end > h.size
  <1>2. /\ handle' = IF longer THEN [handle EXCEPT ![s].size = end, ![s].sizeChange = TRUE] ELSE handle
        /\ task' = IF longer /\ task.grown
                   THEN [op |-> "table", slot |-> s, cluster |-> h.chain[0].cluster, index |-> 0]
                   ELSE Idle
    BY <1>s, <1>h, <1>e DEF TransferDone, EndIO, ReadTable
  <1>3. /\ \A t \in Slot \ {s} : handle'[t] = handle[t]
        /\ handle'[s] = IF longer THEN [h EXCEPT !.size = end, !.sizeChange = TRUE] ELSE h
    BY <1>2, <1>h DEF TypeOK
  <1> HIDE DEF longer
  <1>4. /\ handle'[s].open /\ handle'[s].file = h.file /\ handle'[s].chain = h.chain
        /\ handle'[s].size = IF longer THEN end ELSE h.size
        /\ handle'[s].sizeChange <=> longer \/ h.sizeChange
    BY <1>1, <1>3 DEF OpenFile
  <1>5. /\ task.grown => longer
        /\ longer /\ ~ task.grown => Clusters(end) <= LenOf(h.size)
    BY <1>0, <1>s, <1>h, <1>e DEF Measured, CallSized, longer
  <1>6. LengthOf(s) = LenOf(handle'[s].size)
    <2>1. LengthOf(s) = IF task.grown THEN Clusters(end) ELSE LenOf(h.size)
      BY <1>0, <1>s, <1>h, <1>e DEF LengthOf
    <2>2. /\ Clusters(end) \in Nat /\ LenOf(h.size) \in Nat
          /\ longer => LenOf(end) = Clusters(end) /\ Clusters(end) >= LenOf(h.size)
      <3>1. Clusters(end) \in Nat
        BY ClustersGrow
      <3>2. /\ LenOf(h.size) \in Nat
            /\ end > 0 => LenOf(end) = Clusters(end)
            /\ end > h.size => Clusters(end) >= LenOf(h.size)
        BY <1>1, LenOfIs
      <3>3. longer => end > 0 /\ end > h.size
        BY <1>1 DEF longer
      <3> QED BY <3>1, <3>2, <3>3
    <2> QED BY <1>4, <1>5, <2>1, <2>2
  <1>7. /\ \A g \in File : ~ Deleting(g) /\ ~ Deleting(g)'
        /\ \A t \in Slot : LengthOf(t)' = LenOf(handle'[t].size)
        /\ \A t \in Slot \ {s} : LengthOf(t) = LenOf(handle[t].size)
    <2>1. task'.op \in {"none", "table"}
      BY <1>2 DEF Idle
    <2>2. \A t \in Slot : LengthOf(t)' = LenOf(handle'[t].size)
      BY <2>1 DEF LengthOf
    <2>3. \A t \in Slot \ {s} : LengthOf(t) = LenOf(handle[t].size)
      BY <1>0, <1>s DEF LengthOf
    <2> QED BY <1>0, <2>1, <2>2, <2>3 DEF Deleting
  <1>8. FilesSized(own, num)'
    <2>1. \A g \in File : InNoSlot(g)' => InNoSlot(g)
      BY <1>1, <1>h, <1>3, <1>4 DEF InNoSlot
    <2> QED BY <1>0, <1>7, <2>1 DEF Measured, FilesSized, Exists
  <1>9. SlotsSized(own, num)'
    <2> SUFFICES ASSUME NEW t \in Slot, handle'[t].open
                 PROVE  (TableOK(num, handle[t]) /\ EndsAt(fat, own[handle[t].file], num, LengthOf(t)))'
      BY DEF SlotsSized
    <2>1. CASE t = s
      <3>1. TableOK(num, handle[s])'
        BY <1>0, <1>1, <1>4 DEF TableOK, longer
      <3>2. EndsAt(fat, own[handle[s].file], num, LengthOf(s))'
        BY <1>0, <1>1, <1>4, <1>6, <1>7 DEF EndsAt
      <3> QED BY <2>1, <3>1, <3>2
    <2>2. CASE t # s
      <3>1. handle'[t] = handle[t] /\ LengthOf(t)' = LengthOf(t)
        BY <1>3, <1>7, <2>2
      <3>2. TableOK(num, handle[t]) /\ EndsAt(fat, own[handle[t].file], num, LengthOf(t))
        BY <3>1 DEF Measured, SlotsSized
      <3> QED BY <1>0, <3>1, <3>2 DEF TableOK
    <2> QED BY <2>1, <2>2
  <1>10. CallSized(num)'
    <2>1. h.chain[0].cluster = dirent[h.file].start /\ num[h.chain[0].cluster] = 0
      <3>1. Exists(h.file)
        BY <1>1, <1>h DEF Owns, HandlesOK, HandleOK
      <3> QED BY <1>1, <3>1 DEF TableOK, Measured, FilesSized
    <2> QED BY <1>0, <1>2, <1>4, <2>1 DEF CallSized, Idle
  <1> QED BY <1>0, <1>8, <1>9, <1>10 DEF Measured

(* fat_setFatDirChain, one buffer: entry i of cbuf is the cluster after    *)
(* task.index + i - 1 others.                                              *)
LEMMA SetFatDirChainMeasured ==
  ASSUME TypeOK, ~ ranOut, NEW own, Owns(own), NEW num, Measured(own, num), SetFatDirChain
  PROVE  Measured(own, num)'
  <1>0. /\ task.op = "table" /\ task \in TableTask
        /\ task.slot \in Slot /\ task.index \in Nat
    <2>1. task.op = "table" /\ task \in TableTask
      BY TaskIs DEF SetFatDirChain
    <2> QED BY <2>1 DEF TableTask, Position
  <1>s. PICK s \in Slot : s = task.slot
    BY <1>0
  <1>h. PICK h : h = handle[s]
    OBVIOUS
  <1>f. PICK f : f = h.file
    OBVIOUS
  <1>c. PICK c : c = task.cluster
    OBVIOUS
  <1>k. PICK k \in Nat : k = task.index
    BY <1>0
  <1>g. PICK got : got = GetClusterChain(c, TRUE)
    OBVIOUS
  <1>n. PICK n : n = ChainSize(got.result)
    OBVIOUS
  <1>1. /\ h.open /\ h \in OpenFile /\ f \in File /\ c \in own[f] /\ h.size \in Nat
        /\ HandleOK(own, h) /\ TableOK(num, h) /\ EndsAt(fat, own[f], num, LengthOf(s))
        /\ num[c] = k /\ IF k = 0 THEN c = dirent[f].start ELSE c # lastChain
    <2>1. h.open /\ c \in own[f]
      BY <1>0, <1>s, <1>h, <1>f, <1>c DEF Owns, TaskOK
    <2>2. h \in OpenFile
      BY <1>h, <2>1, OpenIs
    <2>3. f \in File /\ h.size \in Nat
      BY <1>f, <2>2, FilesAssumption DEF OpenFile, Size
    <2>4. HandleOK(own, h) /\ TableOK(num, h) /\ EndsAt(fat, own[f], num, LengthOf(s))
      BY <1>h, <1>f, <2>1 DEF Owns, HandlesOK, Measured, SlotsSized
    <2>5. num[c] = k /\ IF k = 0 THEN c = dirent[f].start ELSE c # lastChain
      BY <1>0, <1>s, <1>h, <1>f, <1>c, <1>k DEF Measured, CallSized
    <2> QED BY <2>1, <2>2, <2>3, <2>4, <2>5
  <1>2. /\ got.result \in 0 .. BufSize - 1 /\ n \in 1 .. BufSize
        /\ got.result = 0 => n = BufSize
        /\ Buffered(fat, own[f], dirent[f].start, got.buf, n)
        /\ c = dirent[f].start => got.buf[1] = c
        /\ Forward(fat, got.buf, n)
    <2>1. OwnersOK(own) /\ CacheOK(own) /\ CacheIsChain
      BY <1>0 DEF Owns, Lossless
    <2>2. TypeOK /\ f \in File /\ c \in own[f]
      BY <1>1
    <2>3. /\ got.result \in 0 .. BufSize - 1 /\ n \in 1 .. BufSize
          /\ got.result = 0 => n = BufSize
          /\ Buffered(fat, own[f], dirent[f].start, got.buf, n)
          /\ c = dirent[f].start => FromRoot(c, got.buf, n)
          /\ CacheIsChain => Forward(fat, got.buf, n)
      BY ONLY <1>g, <1>n, <2>1, <2>2, ReadBuffer
    <2> QED BY <2>1, <2>3 DEF FromRoot
  <1>3. got.buf[1] = c
    <2>1. CASE c = lastChain
      BY <1>1, <1>2, <2>1
    <2>2. CASE c # lastChain
      <3> DEFINE w == ChainFrom(fat, c, BufSize)
      <3>1. Follows(fat, own[f], c, BufSize, w)
        <4>1. Inside(fat, own[f]) /\ BufSize \in Nat \ {0}
          BY <1>1, FatAssumption DEF Owns, OwnersOK
        <4> QED BY <1>1, <4>1, ChainFollows DEF Inside
      <3>2. got.buf = [i \in 1 .. BufSize |-> IF i <= Len(w) THEN w[i] ELSE cbuf[i]]
        BY <1>g, <2>2 DEF GetClusterChain
      <3> HIDE DEF w
      <3>3. w[1] = c /\ 1 <= Len(w) /\ 1 \in 1 .. BufSize
        BY <3>1, FatAssumption DEF Follows
      <3> QED BY <3>2, <3>3
    <2> QED BY <2>1, <2>2
  <1>4. \A i \in 1 .. n : got.buf[i] \in Cluster /\ num[got.buf[i]] = k + (i - 1)
    <2>1. \A i \in 1 .. n : got.buf[i] \in Cluster
      BY <1>1, <1>2 DEF Owns, OwnersOK, Buffered
    <2>2. Graded(fat, num) /\ n \in Nat
      BY <1>2 DEF Measured
    <2>3. \A i \in 1 .. n : num[got.buf[i]] = num[got.buf[1]] + (i - 1)
      BY <1>2, <2>1, <2>2, BufferGraded
    <2> QED BY <1>1, <1>3, <2>1, <2>3
  <1> DEFINE i0(j) == SeekIndex(h.size, j)
             InBuffer(i) == i >= k /\ i < k + n
             entry(j) == IF j > 0 /\ InBuffer(i0(j))
                         THEN [cluster |-> got.buf[i0(j) - k + 1], index |-> i0(j)] ELSE h.chain[j]
  <1>5. /\ UNCHANGED <<fat, dirent>> /\ lastChain' = c
        /\ handle' = [handle EXCEPT ![s].chain = [j \in Seek |->
                         IF j > 0 /\ InBuffer(i0(j))
                         THEN [cluster |-> got.buf[i0(j) - k + 1], index |-> i0(j)] ELSE @[j]],
                         ![s].lastCluster = got.buf[n]]
        /\ task' = IF got.result # 0 THEN Idle
                    ELSE [task EXCEPT !.cluster = got.buf[BufSize],
                                      !.index = @ + BufSize - 1]
    BY <1>s, <1>h, <1>c, <1>k, <1>g, <1>n DEF SetFatDirChain, Loaded
  <1>6. /\ handle'[s] = [h EXCEPT !.chain = [j \in Seek |-> entry(j)], !.lastCluster = got.buf[n]]
        /\ \A t \in Slot \ {s} : handle'[t] = handle[t]
    BY <1>5, <1>h DEF TypeOK
  <1>7. \A j \in Seek : num[entry(j).cluster] = entry(j).index
    <2> SUFFICES ASSUME NEW j \in Seek PROVE num[entry(j).cluster] = entry(j).index
      OBVIOUS
    <2>1. CASE j > 0 /\ InBuffer(i0(j))
      <3>1. PICK i : i = i0(j)
        OBVIOUS
      <3>2. i \in Nat /\ i >= k /\ i < k + n
        BY <1>1, <2>1, <3>1, SeekIndexIs
      <3>3. entry(j) = [cluster |-> got.buf[i - k + 1], index |-> i]
        BY <2>1, <3>1
      <3>4. i - k + 1 \in 1 .. n
        BY <1>2, <3>2
      <3>5. num[got.buf[i - k + 1]] = k + ((i - k + 1) - 1)
        BY <1>4, <3>4
      <3> HIDE DEF entry
      <3> QED BY <3>2, <3>3, <3>5
    <2>2. CASE ~ (j > 0 /\ InBuffer(i0(j)))
      <3>1. entry(j) = h.chain[j]
        BY <2>2
      <3> QED BY <1>1, <3>1 DEF TableOK
    <2> QED BY <2>1, <2>2
  <1>8. entry(0) = h.chain[0] /\ 0 \in Seek
    BY FilesAssumption DEF Seek
  <1> HIDE DEF entry
  <1>9. /\ handle'[s].open /\ handle'[s].file = f /\ handle'[s].size = h.size
        /\ handle'[s].sizeChange = h.sizeChange
        /\ \A j \in Seek : handle'[s].chain[j] = entry(j)
    <2> DEFINE ch == [j \in Seek |-> entry(j)]
    <2>1. \A j \in Seek : ch[j] = entry(j)
      OBVIOUS
    <2>2. handle'[s] = [h EXCEPT !.chain = ch, !.lastCluster = got.buf[n]]
      BY <1>6
    <2> HIDE DEF ch
    <2> QED BY <1>1, <1>f, <2>1, <2>2 DEF OpenFile
  <1>10. /\ task' = Idle \/ /\ task'.op = "table" /\ task'.slot = s
                            /\ num[task'.cluster] = task'.index
                            /\ task'.index # 0 /\ task'.cluster # c
    <2>1. CASE got.result # 0
      BY <1>5, <2>1
    <2>2. CASE got.result = 0
      <3>1. task' = [task EXCEPT !.cluster = got.buf[BufSize], !.index = @ + BufSize - 1]
        BY <1>5, <2>2
      <3>2. task'.op = "table" /\ task'.slot = s /\ task'.cluster = got.buf[BufSize]
            /\ task'.index = k + BufSize - 1
        BY <1>0, <1>s, <1>k, <3>1 DEF TableTask
      <3>3. n = BufSize /\ BufSize \in Nat /\ BufSize >= 2 /\ n \in 1 .. n
        BY <1>2, <2>2, FatAssumption
      <3>4. num[got.buf[n]] = k + (n - 1)
        BY <1>4, <3>3
      <3>5. k + (n - 1) = k + n - 1 /\ k + n - 1 # 0 /\ k + n - 1 # k
        BY <3>3
      <3> QED BY <1>1, <3>2, <3>3, <3>4, <3>5
    <2> QED BY <2>1, <2>2
  <1>11. /\ \A g \in File : ~ Deleting(g) /\ ~ Deleting(g)'
         /\ \A t \in Slot : LengthOf(t)' = LenOf(handle'[t].size)
         /\ \A t \in Slot : LengthOf(t) = LenOf(handle[t].size)
    <2>1. task'.op \in {"none", "table"}
      BY <1>10 DEF Idle
    <2>2. \A t \in Slot : LengthOf(t)' = LenOf(handle'[t].size)
      BY <2>1 DEF LengthOf
    <2>3. \A t \in Slot : LengthOf(t) = LenOf(handle[t].size)
      BY <1>0 DEF LengthOf
    <2> QED BY <1>0, <2>1, <2>2, <2>3 DEF Deleting
  <1>12. FilesSized(own, num)'
    <2>1. \A t \in Slot : handle[t].open => handle'[t].open /\ handle'[t].file = handle[t].file
      BY <1>1, <1>h, <1>f, <1>6, <1>9
    <2>2. \A g \in File : InNoSlot(g)' => InNoSlot(g)
      BY <2>1 DEF InNoSlot
    <2> QED BY <1>5, <1>11, <2>2 DEF Measured, FilesSized, Exists
  <1>13. SlotsSized(own, num)'
    <2> SUFFICES ASSUME NEW t \in Slot, handle'[t].open
                 PROVE  (TableOK(num, handle[t]) /\ EndsAt(fat, own[handle[t].file], num, LengthOf(t)))'
      BY DEF SlotsSized
    <2>1. CASE t = s
      <3>1. TableOK(num, handle[s])'
        BY <1>1, <1>f, <1>5, <1>7, <1>8, <1>9 DEF TableOK
      <3>2. EndsAt(fat, own[handle[s].file], num, LengthOf(s))'
        BY <1>1, <1>5, <1>9, <1>11, <1>h DEF EndsAt
      <3> QED BY <2>1, <3>1, <3>2
    <2>2. CASE t # s
      <3>1. handle'[t] = handle[t] /\ LengthOf(t)' = LengthOf(t)
        BY <1>6, <1>11, <2>2
      <3>2. TableOK(num, handle[t]) /\ EndsAt(fat, own[handle[t].file], num, LengthOf(t))
        BY <3>1 DEF Measured, SlotsSized
      <3> QED BY <1>5, <3>1, <3>2 DEF TableOK
    <2> QED BY <2>1, <2>2
  <1>14. CallSized(num)'
    BY <1>5, <1>10 DEF CallSized, Idle
  <1> QED BY <1>5, <1>12, <1>13, <1>14 DEF Measured
-----------------------------------------------------------------------------
(* The clusters of a file after a step are those that its first cluster    *)
(* leads to.                                                               *)
LEMMA OwnedWithin ==
  ASSUME NEW o, Owns(o)', ~ ranOut', NEW g \in File, NEW T \in SUBSET Cluster,
         (Exists(g) \/ Deleting(g))' => Root(g)' \in T,
         \A x \in T : fat'[x] \in Cluster => fat'[x] \in T
  PROVE  o[g] \subseteq T
  <1>1. AllReached(o)'
    BY DEF Owns, Lossless
  <1>2. CASE (Exists(g) \/ Deleting(g))'
    BY <1>1, <1>2 DEF AllReached, Reached
  <1>3. CASE ~ (Exists(g) \/ Deleting(g))'
    BY <1>1, <1>3 DEF AllReached
  <1> QED BY <1>2, <1>3

(* A file that the step is not about gets no clusters.                     *)
LEMMA OthersWithin ==
  ASSUME NEW own, Owns(own), NEW o, Owns(o)', ~ ranOut', NEW g \in File,
         ~ Deleting(g), ~ Deleting(g)', Exists(g)' => Exists(g) /\ dirent'[g].start = dirent[g].start,
         \A x \in own[g] : fat'[x] \in Cluster => fat'[x] = fat[x]
  PROVE  o[g] \subseteq own[g]
  <1>1. own[g] \in SUBSET Cluster /\ Inside(fat, own[g])
    BY DEF Owns, OwnersOK
  <1>2. (Exists(g) \/ Deleting(g))' => Root(g)' \in own[g]
    BY DEF Owns, StartsOK, Root
  <1>3. \A x \in own[g] : fat'[x] \in Cluster => fat'[x] \in own[g]
    BY <1>1, ClusterIs DEF Inside
  <1> QED BY <1>1, <1>2, <1>3, OwnedWithin

(* A free cluster gets the number after that of cur, or any number if it   *)
(* is put behind no other.                                                 *)
LEMMA FreeNumbered ==
  ASSUME TypeOK, ~ ranOut, NEW own, Owns(own), NEW num, Graded(fat, num),
         task.op # "delete", NEW cur, NEW c, GetFreeCluster(cur, c), NEW k \in Nat,
         cur # 0 => k = num[cur] + 1 /\ \E f \in File : cur \in own[f],
         NEW p \in [Cluster -> Nat], p[c] = k, \A x \in Cluster \ {c} : p[x] = num[x]
  PROVE  /\ c \in Cluster /\ Graded(fat', p) /\ fat'[c] = EOF
         /\ \A x \in Cluster \ {c, cur} : fat'[x] = fat[x]
         /\ cur # 0 => fat'[cur] = c /\ cur # c
         /\ \A f \in File : c \notin own[f]
         /\ \A f \in File : Exists(f) => dirent[f].start # c
  <1>1. /\ c \in Cluster /\ \A f \in File : c \notin own[f]
        /\ \A f \in File : Exists(f) => dirent[f].start # c
        /\ fat' = Linked(fat, cur, c)
    BY FreeIs DEF Owns
  <1>2. cur # 0 => cur # c /\ cur \in Cluster
    BY <1>1, Owner DEF Owns
  <1>3. fat \in [FatIndex -> FatValue] /\ c \in FatIndex /\ (cur # 0 => cur \in FatIndex)
    BY <1>1, <1>2, ClusterIs DEF TypeOK, FatTypeOK
  <1>4. /\ fat'[c] = EOF /\ (cur # 0 => fat'[cur] = c)
        /\ \A x \in Cluster \ {c, cur} : fat'[x] = fat[x]
    <2>1. \A x \in Cluster : x \in FatIndex /\ x # 0
      BY ClusterIs
    <2> QED BY <1>1, <1>2, <1>3, <2>1 DEF Linked
  <1>7. \A x \in Cluster : fat[x] # c
    <2> SUFFICES ASSUME NEW x \in Cluster, fat[x] = c PROVE FALSE
      OBVIOUS
    <2>1. fat[x] # 0 /\ fat[x] # EOF
      BY <1>1, ClusterIs
    <2>2. PICK f \in File : x \in own[f]
      BY <2>1 DEF Owns, Lossless, AllOwned
    <2>3. fat[x] \in own[f]
      BY <2>1, <2>2 DEF Owns, OwnersOK, Inside
    <2> QED BY <1>1, <2>3
  <1>8. Graded(fat', p)
    <2> SUFFICES ASSUME NEW x \in Cluster, fat'[x] \in Cluster PROVE p[fat'[x]] = p[x] + 1
      BY DEF Graded
    <2>1. x # c
      BY <1>4, ClusterIs
    <2>2. CASE x = cur
      BY <1>2, <1>4, <2>1, <2>2, ClusterIs
    <2>3. CASE x # cur
      <3>1. fat'[x] = fat[x] /\ fat'[x] # c
        BY <1>4, <1>7, <2>1, <2>3
      <3> QED BY <2>1, <3>1 DEF Graded
    <2> QED BY <2>2, <2>3
  <1> QED BY <1>1, <1>2, <1>4, <1>8

(* fs_open with O_CREAT.                                                   *)
LEMMA CreateMeasured ==
  ASSUME TypeOK, ~ ByPath, ~ ranOut, NEW own, Owns(own), NEW num, Measured(own, num),
         NEW s \in Slot, NEW f \in File, Create(s, f), NEW o, Owns(o)'
  PROVE  \E p : Measured(o, p)'
  <1>1. PICK c \in Cluster :
          /\ GetFreeCluster(0, c)
          /\ dirent' = [dirent EXCEPT ![f] = [start |-> c, size |-> 0]]
          /\ handle' = [handle EXCEPT ![s] = NewHandle(f, c, 0)]
          /\ task' = [op |-> "table", slot |-> s, cluster |-> c, index |-> 0]
    BY DEF Create, ReadTable
  <1>2. /\ task = Idle /\ task.op = "none" /\ task'.op = "table"
        /\ ~ Exists(f) /\ ~ ranOut' /\ ~ handle[s].open
        /\ \A g \in File : ~ Deleting(g) /\ ~ Deleting(g)'
    BY <1>1, IdleIs DEF Create, Deleting, FreeSlot
  <1>3. PICK p \in [Cluster -> Nat] : p[c] = 0 /\ \A x \in Cluster \ {c} : p[x] = num[x]
    <2>1. num \in [Cluster -> Nat]
      BY DEF Measured, Graded
    <2>2. PICK p : p = [num EXCEPT ![c] = 0]
      OBVIOUS
    <2>3. p \in [Cluster -> Nat] /\ p[c] = 0 /\ \A x \in Cluster \ {c} : p[x] = num[x]
      BY <2>1, <2>2
    <2> QED BY <2>3
  <1>4. /\ Graded(fat', p) /\ p[c] = 0 /\ fat'[c] = EOF
        /\ \A x \in Cluster \ {c} : p[x] = num[x]
        /\ \A x \in Cluster \ {c, 0} : fat'[x] = fat[x]
        /\ \A g \in File : c \notin own[g]
        /\ \A g \in File : Exists(g) => dirent[g].start # c
    <2>1. Graded(fat, num) /\ task.op # "delete" /\ 0 \in Nat
      BY <1>2 DEF Measured
    <2>2. PICK cur : cur = 0
      OBVIOUS
    <2>3. GetFreeCluster(cur, c)
      BY <1>1, <2>2
    <2>k. PICK k \in Nat : k = 0
      OBVIOUS
    <2>4. /\ Graded(fat', p) /\ fat'[c] = EOF
          /\ \A x \in Cluster \ {c, cur} : fat'[x] = fat[x]
          /\ \A g \in File : c \notin own[g]
          /\ \A g \in File : Exists(g) => dirent[g].start # c
      <3>1. cur # 0 => k = num[cur] + 1 /\ \E g \in File : cur \in own[g]
        BY <2>2
      <3>2. p[c] = k
        BY <1>3, <2>k
      <3> QED BY <1>3, <2>1, <2>3, <3>1, <3>2, FreeNumbered
    <2> QED BY <1>3, <2>2, <2>4
  <1>5. \A g \in File : own[g] \subseteq Cluster \ {c} /\ \A x \in own[g] : fat'[x] = fat[x] /\ p[x] = num[x]
    <2>1. \A g \in File : own[g] \subseteq Cluster \ {c}
      BY <1>4 DEF Owns, OwnersOK
    <2> QED BY <1>4, <2>1, ClusterIs
  <1>6. \A g \in File : dirent'[g] = IF g = f THEN [start |-> c, size |-> 0] ELSE dirent[g]
    BY <1>1 DEF TypeOK
  <1>7. \A t \in Slot : handle'[t] = IF t = s THEN NewHandle(f, c, 0) ELSE handle[t]
    BY <1>1 DEF TypeOK
  <1>8. \A t \in Slot : handle[t].open => handle[t].file \in File \ {f} /\ HandleOK(own, handle[t])
    BY NotBusy, OpenIs DEF Create, OpenFile, Owns, HandlesOK
  <1>9. \A g \in File \ {f} : o[g] \subseteq own[g]
    BY <1>2, <1>5, <1>6, OthersWithin DEF Exists
  <1>10. o[f] \subseteq {c}
    <2>1. Root(f)' = c /\ {c} \in SUBSET Cluster /\ EOF \notin Cluster
      BY <1>2, <1>6, ClusterIs DEF Root
    <2> QED BY <1>2, <1>4, <2>1, OwnedWithin
  <1>11. EndsAt(fat', o[f], p, LenOf(0))
    BY <1>4, <1>10 DEF EndsAt, LenOf
  <1>12. \A g \in File \ {f} : \A n : EndsAt(fat, own[g], num, n) => EndsAt(fat', o[g], p, n)
    BY <1>5, <1>9 DEF EndsAt
  <1>13. FilesSized(o, p)'
    <2>1. \A g \in File : InNoSlot(g)' => InNoSlot(g)
      BY <1>2, <1>7 DEF InNoSlot
    <2>2. ASSUME NEW g \in File, Exists(g)', g # f
          PROVE  /\ p[dirent'[g].start] = 0
                 /\ InNoSlot(g)' => EndsAt(fat', o[g], p, LenOf(dirent'[g].size))
      <3>1. dirent'[g] = dirent[g] /\ Exists(g)
        BY <1>6, <2>2 DEF Exists
      <3>2. /\ num[dirent[g].start] = 0
            /\ InNoSlot(g) => EndsAt(fat, own[g], num, LenOf(dirent[g].size))
        BY <1>2, <3>1 DEF Measured, FilesSized
      <3>3. dirent[g].start \in own[g]
        BY <1>2, <3>1 DEF Owns, StartsOK
      <3> QED BY <1>5, <1>12, <2>1, <2>2, <3>1, <3>2, <3>3
    <2> QED BY <1>4, <1>6, <1>11, <2>2 DEF FilesSized
  <1>14. SlotsSized(o, p)'
    <2>1. ASSUME NEW t \in Slot, t # s, handle'[t].open
          PROVE  (TableOK(p, handle[t]) /\ EndsAt(fat, o[handle[t].file], p, LengthOf(t)))'
      <3>1. PICK h : h = handle[t]
        OBVIOUS
      <3>2. handle'[t] = h /\ h.open /\ h.file \in File \ {f} /\ HandleOK(own, h)
        BY <1>7, <1>8, <2>1, <3>1
      <3>3. LengthOf(t) = LenOf(h.size) /\ LengthOf(t)' = LenOf(h.size)
        BY <1>2, <3>1, <3>2 DEF LengthOf
      <3>4. TableOK(num, h) /\ EndsAt(fat, own[h.file], num, LenOf(h.size))
        BY <2>1, <3>1, <3>2, <3>3 DEF Measured, SlotsSized
      <3>5. \A j \in Seek : p[h.chain[j].cluster] = num[h.chain[j].cluster]
        BY <1>5, <3>2 DEF HandleOK
      <3>6. dirent'[h.file] = dirent[h.file]
        BY <1>6, <3>2
      <3>7. TableOK(p, handle[t])'
        BY <3>2, <3>4, <3>5, <3>6 DEF TableOK
      <3> QED BY <1>12, <3>2, <3>3, <3>4, <3>7
    <2>2. PICK h : h = handle'[s]
      OBVIOUS
    <2>3. PICK d : d = dirent'
      OBVIOUS
    <2>4. /\ h.open /\ h.file = f /\ h.size = 0
          /\ h.chain[0].cluster = d[h.file].start
          /\ (\A j \in Seek : p[h.chain[j].cluster] = h.chain[j].index)
          /\ d[h.file].size = h.size
      <3>1. h = NewHandle(f, c, 0)
        BY <1>7, <2>2
      <3>2. d[f].start = c /\ d[f].size = 0
        BY <1>6, <2>3
      <3> QED BY <1>4, <3>1, <3>2, NewHandleMeasured
    <2>5. TableOK(p, handle[s])'
      BY <2>2, <2>3, <2>4 DEF TableOK
    <2>6. LengthOf(s)' = LenOf(0)
      BY <1>2, <2>2, <2>4 DEF LengthOf
    <2>7. EndsAt(fat, o[handle[s].file], p, LengthOf(s))'
      BY <1>11, <2>2, <2>4, <2>6
    <2> QED BY <2>1, <2>5, <2>7 DEF SlotsSized
  <1>15. CallSized(p)'
    <2>1. handle'[s].file = f
      BY <1>7 DEF NewHandle
    <2> QED BY <1>1, <1>4, <1>6, <2>1 DEF CallSized
  <1> QED BY <1>4, <1>13, <1>14, <1>15 DEF Measured

(* One cluster for fat_writeFile: it ends the chain now, and the file has  *)
(* one more.                                                               *)
LEMMA GrowMeasured ==
  ASSUME TypeOK, ~ ranOut, NEW own, Owns(own), NEW num, Measured(own, num),
         Grow, NEW o, Owns(o)'
  PROVE  \E p : Measured(o, p)'
  <1>0. /\ task.op = "grow" /\ task \in GrowTask /\ ~ ranOut' /\ UNCHANGED dirent
        /\ task.slot \in Slot /\ task.need \in Nat /\ task.pos \in Nat /\ task.size \in Nat
    <2>1. task.op = "grow" /\ task \in GrowTask
      BY TaskIs DEF Grow
    <2> QED BY <2>1, FilesAssumption DEF Grow, GrowTask, Position, Size
  <1>s. PICK s \in Slot : s = task.slot
    BY <1>0
  <1>c. PICK cur : cur = task.cur
    OBVIOUS
  <1>h. PICK h : h = handle[s]
    OBVIOUS
  <1>f. PICK f : f = h.file
    OBVIOUS
  <1>e. PICK end \in Nat : end = task.pos + task.size
    BY <1>0
  <1>k. PICK k \in Nat : k = task.need
    BY <1>0
  <1>1. PICK c \in Cluster :
          /\ GetFreeCluster(cur, c)
          /\ \/ /\ k > 1
                /\ task' = [task EXCEPT !.need = k - 1, !.cur = c]
                /\ handle' = handle
             \/ /\ k = 1
                /\ handle' = [handle EXCEPT ![s].lastCluster = c]
                /\ task' = StartIO(s, task.pos, task.size, TRUE, TRUE)
    BY <1>s, <1>c, <1>k DEF Grow
  <1>2. /\ h.open /\ h \in OpenFile /\ f \in File /\ h.size \in Nat
        /\ cur \in own[f] /\ fat[cur] = EOF
        /\ Exists(f) /\ HandleOK(own, h) /\ TableOK(num, h)
        /\ num[cur] \in Nat /\ num[cur] + 1 = Clusters(end) - k
        /\ k >= 1 /\ Clusters(end) > LenOf(h.size)
    <2>1. h.open /\ cur \in own[f] /\ fat[cur] = EOF
      BY <1>0, <1>s, <1>c, <1>h, <1>f DEF Owns, TaskOK, Lossless, EndsOK
    <2>2. h \in OpenFile
      BY <1>h, <2>1, OpenIs
    <2>3. f \in File /\ h.size \in Nat
      BY <1>f, <2>2, FilesAssumption DEF OpenFile, Size
    <2>4. HandleOK(own, h) /\ TableOK(num, h) /\ Exists(f)
      BY <1>h, <1>f, <2>1 DEF Owns, HandlesOK, HandleOK, Measured, SlotsSized
    <2>5. LengthOf(s) = Clusters(end) - k
      BY <1>0, <1>s, <1>e, <1>k DEF LengthOf
    <2>6. num[cur] + 1 = Clusters(end) - k /\ k >= 1 /\ Clusters(end) > LenOf(h.size)
      BY <1>0, <1>s, <1>c, <1>h, <1>e, <1>k, <2>5 DEF Measured, CallSized
    <2>7. num[cur] \in Nat
      BY <2>1, <2>3, Owner DEF Owns, Measured, Graded
    <2> QED BY <2>1, <2>2, <2>3, <2>4, <2>6, <2>7
  <1>n. PICK n \in Nat : n = num[cur] + 1
    BY <1>2
  <1>3. PICK p \in [Cluster -> Nat] : p[c] = n /\ \A x \in Cluster \ {c} : p[x] = num[x]
    <2>1. num \in [Cluster -> Nat]
      BY DEF Measured, Graded
    <2>2. PICK p : p = [num EXCEPT ![c] = n]
      OBVIOUS
    <2>3. p \in [Cluster -> Nat] /\ p[c] = n /\ \A x \in Cluster \ {c} : p[x] = num[x]
      BY <2>1, <2>2
    <2> QED BY <2>3
  <1>4. /\ Graded(fat', p) /\ fat'[c] = EOF /\ fat'[cur] = c /\ cur # c
        /\ \A x \in Cluster \ {c, cur} : fat'[x] = fat[x]
        /\ \A g \in File : c \notin own[g]
        /\ \A g \in File : Exists(g) => dirent[g].start # c
    <2>1. Graded(fat, num) /\ task.op # "delete"
      BY <1>0 DEF Measured
    <2>2. cur # 0 => n = num[cur] + 1 /\ \E g \in File : cur \in own[g]
      BY <1>2, <1>n
    <2>3. cur # 0
      BY <1>2, Owner, ClusterIs DEF Owns
    <2>4. /\ Graded(fat', p) /\ fat'[c] = EOF
          /\ \A x \in Cluster \ {c, cur} : fat'[x] = fat[x]
          /\ cur # 0 => fat'[cur] = c /\ cur # c
          /\ \A g \in File : c \notin own[g]
          /\ \A g \in File : Exists(g) => dirent[g].start # c
      BY <1>1, <1>3, <2>1, <2>2, FreeNumbered
    <2> QED BY <2>3, <2>4
  <1>5. /\ \A g \in File : own[g] \subseteq Cluster \ {c} /\ \A x \in own[g] : p[x] = num[x]
        /\ \A g \in File \ {f} : \A x \in own[g] : fat'[x] = fat[x]
        /\ \A x \in own[f] \ {cur} : fat'[x] = fat[x]
    <2>1. \A g \in File : own[g] \subseteq Cluster \ {c}
      BY <1>4 DEF Owns, OwnersOK
    <2>2. \A g \in File \ {f} : cur \notin own[g]
      BY <1>2, Owner DEF Owns
    <2> QED BY <1>2, <1>3, <1>4, <2>1, <2>2
  <1>6. /\ \A t \in Slot \ {s} : handle'[t] = handle[t]
        /\ handle'[s].open /\ handle'[s].file = f /\ handle'[s].size = h.size
        /\ handle'[s].chain = h.chain /\ handle'[s].sizeChange = h.sizeChange
    <2>1. \/ handle' = handle
          \/ handle'[s] = [h EXCEPT !.lastCluster = c] /\ \A t \in Slot \ {s} : handle'[t] = handle[t]
      BY <1>1, <1>h DEF TypeOK
    <2> QED BY <1>2, <1>h, <1>f, <2>1 DEF OpenFile
  <1>7. \/ /\ k > 1 /\ task'.op = "grow" /\ task'.slot = s /\ task'.need = k - 1 /\ task'.cur = c
           /\ task'.pos + task'.size = end
        \/ k = 1 /\ task'.op = "io" /\ task'.slot = s /\ task'.write /\ task'.grown /\ task'.end = end
    <2>1. CASE k > 1 /\ task' = [task EXCEPT !.need = k - 1, !.cur = c]
      <3>1. /\ task'.op = "grow" /\ task'.slot = s /\ task'.need = k - 1 /\ task'.cur = c
            /\ task'.pos = task.pos /\ task'.size = task.size
        BY <1>0, <1>s, <2>1 DEF GrowTask
      <3> QED BY <1>e, <2>1, <3>1
    <2>2. CASE k = 1 /\ task' = StartIO(s, task.pos, task.size, TRUE, TRUE)
      BY <1>e, <2>2 DEF StartIO
    <2> QED BY <1>1, <2>1, <2>2
  <1>8. \A g \in File : ~ Deleting(g) /\ ~ Deleting(g)'
    BY <1>0, <1>7 DEF Deleting
  <1>9. /\ LengthOf(s)' = n + 1
        /\ \A t \in Slot \ {s} : /\ LengthOf(t)' = LenOf(handle[t].size)
                                 /\ LengthOf(t) = LenOf(handle[t].size)
    <2>1. Clusters(end) \in Nat
      BY ClustersGrow
    <2>2. LengthOf(s)' = n + 1
      BY <1>2, <1>7, <1>n, <2>1 DEF LengthOf
    <2>3. \A t \in Slot \ {s} : LengthOf(t)' = LenOf(handle'[t].size)
      BY <1>7 DEF LengthOf
    <2>4. \A t \in Slot \ {s} : LengthOf(t) = LenOf(handle[t].size)
      BY <1>0, <1>s DEF LengthOf
    <2> QED BY <1>6, <2>2, <2>3, <2>4
  <1>10. \A g \in File \ {f} : o[g] \subseteq own[g]
    BY <1>0, <1>5, <1>8, OthersWithin DEF Exists
  <1>11. o[f] \subseteq own[f] \union {c}
    <2>1. PICK T : T = own[f] \union {c}
      OBVIOUS
    <2>2. T \in SUBSET Cluster /\ Inside(fat, own[f]) /\ dirent[f].start \in own[f]
      BY <1>2, <1>8, <2>1 DEF Owns, OwnersOK, StartsOK
    <2>3. Root(f)' \in T
      BY <1>0, <1>2, <1>8, <2>1, <2>2 DEF Root
    <2>4. \A x \in T : fat'[x] \in Cluster => fat'[x] \in T
      BY <1>4, <1>5, <2>1, <2>2, ClusterIs DEF Inside
    <2>5. o[f] \subseteq T
      BY <1>0, <1>2, <2>2, <2>3, <2>4, OwnedWithin
    <2> QED BY <2>1, <2>5
  <1>12. EndsAt(fat', o[f], p, n + 1)
    <2> SUFFICES ASSUME NEW x \in o[f], fat'[x] = EOF PROVE p[x] + 1 = n + 1
      BY DEF EndsAt
    <2>1. CASE x = c
      BY <1>3, <2>1
    <2>2. CASE x # c
      <3>1. x \in own[f] /\ x # cur /\ fat[x] = EOF
        BY <1>4, <1>5, <1>11, <2>2, ClusterIs
      <3>2. /\ own[f] \in SUBSET Cluster /\ Inside(fat, own[f]) /\ dirent[f].start \in own[f]
            /\ Reached(fat, own[f], dirent[f].start)
            /\ Graded(fat, num) /\ num[dirent[f].start] = 0
        BY <1>2, <1>8 DEF Owns, OwnersOK, StartsOK, Lossless, AllReached, Root, Measured, FilesSized
      <3>3. x = cur
        BY <1>2, <3>1, <3>2, OneEnd
      <3> QED BY <3>1, <3>3
    <2> QED BY <2>1, <2>2
  <1>13. \A g \in File \ {f} : \A m : EndsAt(fat, own[g], num, m) => EndsAt(fat', o[g], p, m)
    BY <1>5, <1>10 DEF EndsAt
  <1>14. FilesSized(o, p)'
    <2>1. \A t \in Slot : handle[t].open => handle'[t].open /\ handle'[t].file = handle[t].file
      BY <1>2, <1>h, <1>f, <1>6
    <2>2. \A g \in File : InNoSlot(g)' => InNoSlot(g) /\ g # f
      BY <1>6, <2>1 DEF InNoSlot
    <2>3. ASSUME NEW g \in File, Exists(g)
          PROVE  /\ p[dirent[g].start] = 0
                 /\ InNoSlot(g)' => EndsAt(fat', o[g], p, LenOf(dirent[g].size))
      <3>1. /\ num[dirent[g].start] = 0
            /\ InNoSlot(g) => EndsAt(fat, own[g], num, LenOf(dirent[g].size))
        BY <1>8, <2>3 DEF Measured, FilesSized
      <3>2. dirent[g].start \in own[g]
        BY <1>8, <2>3 DEF Owns, StartsOK
      <3> QED BY <1>5, <1>13, <2>2, <3>1, <3>2
    <2> QED BY <1>0, <2>3 DEF FilesSized, Exists
  <1>15. SlotsSized(o, p)'
    <2>1. ASSUME NEW t \in Slot, t # s, handle'[t].open
          PROVE  (TableOK(p, handle[t]) /\ EndsAt(fat, o[handle[t].file], p, LengthOf(t)))'
      <3>1. PICK e : e = handle[t]
        OBVIOUS
      <3>2. handle'[t] = e /\ e.open /\ e.file \in File \ {f} /\ HandleOK(own, e)
        <4>1. handle'[t] = e /\ e.open
          BY <1>6, <2>1, <3>1
        <4>2. e.file \in File
          BY <3>1, <4>1, OpenIs DEF OpenFile
        <4>3. e.file # f /\ HandleOK(own, e)
          BY <1>2, <1>h, <1>f, <2>1, <3>1, <4>1 DEF Owns, HandlesOK, OpenOnce
        <4> QED BY <4>1, <4>2, <4>3
      <3>3. LengthOf(t) = LenOf(e.size) /\ LengthOf(t)' = LenOf(e.size)
        BY <1>9, <2>1, <3>1
      <3>4. TableOK(num, e) /\ EndsAt(fat, own[e.file], num, LenOf(e.size))
        BY <2>1, <3>1, <3>2, <3>3 DEF Measured, SlotsSized
      <3>5. \A j \in Seek : p[e.chain[j].cluster] = num[e.chain[j].cluster]
        BY <1>5, <3>2 DEF HandleOK
      <3>6. TableOK(p, handle[t])'
        BY <1>0, <3>2, <3>4, <3>5 DEF TableOK
      <3> QED BY <1>13, <3>2, <3>3, <3>4, <3>6
    <2>2. TableOK(p, handle[s])'
      <3>1. \A j \in Seek : p[h.chain[j].cluster] = num[h.chain[j].cluster]
        BY <1>2, <1>5, <1>f DEF HandleOK
      <3> QED BY <1>0, <1>2, <1>6, <1>f, <3>1 DEF TableOK
    <2>3. EndsAt(fat, o[handle[s].file], p, LengthOf(s))'
      BY <1>6, <1>9, <1>12
    <2> QED BY <2>1, <2>2, <2>3 DEF SlotsSized
  <1>16. CallSized(p)'
    <2>1. CASE k > 1 /\ task'.op = "grow"
      <3>1. task'.slot = s /\ task'.need = k - 1 /\ task'.cur = c /\ task'.pos + task'.size = end
        BY <1>7, <2>1
      <3>2. k - 1 >= 1 /\ p[c] + 1 = LengthOf(s)'
        BY <1>3, <1>9, <2>1
      <3> QED BY <1>2, <1>6, <2>1, <3>1, <3>2 DEF CallSized
    <2>2. CASE k = 1 /\ task'.op = "io"
      <3>1. task'.slot = s /\ task'.write /\ task'.grown /\ task'.end = end
        BY <1>7, <2>2
      <3>2. end > h.size
        BY <1>2, LenOfIs
      <3> QED BY <1>6, <2>2, <3>1, <3>2 DEF CallSized
    <2> QED BY <1>7, <2>1, <2>2
  <1> QED BY <1>4, <1>14, <1>15, <1>16 DEF Measured

(* One round of fat_deleteClusterChain: the numbers stay, and a truncated  *)
(* file has its first cluster again.                                       *)
LEMMA DeleteMeasured ==
  ASSUME TypeOK, ~ ranOut, NEW own, Owns(own), NEW num, Measured(own, num),
         DeleteClusterChain, NEW o, Owns(o)'
  PROVE  Measured(o, num)'
  <1>0. /\ task.op = "delete" /\ task \in DeleteTask /\ ~ ranOut'
        /\ task.file \in File /\ task.truncate \in {0} \union Slot
    <2>1. task.op = "delete" /\ task \in DeleteTask
      BY TaskIs DEF DeleteClusterChain
    <2> QED BY <2>1 DEF DeleteClusterChain, DeleteTask
  <1>f. PICK f \in File : f = task.file
    BY <1>0
  <1>s. PICK s \in {0} \union Slot : s = task.truncate
    BY <1>0
  <1>t. PICK st : st = dirent[f].start
    OBVIOUS
  <1>1. /\ Deleting(f) /\ (\A g \in File \ {f} : ~ Deleting(g))
        /\ s # 0 <=> Exists(f)
        /\ s # 0 => ~ handle[s].open
    BY <1>0, <1>f, <1>s DEF Owns, TaskOK, Deleting, Measured, CallSized
  <1>g. PICK gone : /\ \A x \in FatIndex : gone[x] = 0 \/ gone[x] = fat[x]
                    /\ gone \in [FatIndex -> FatValue]
                    /\ \/ /\ fat' = gone
                          /\ \E c : task' = [task EXCEPT !.cluster = c]
                          /\ UNCHANGED <<dirent, handle>>
                       \/ s = 0 /\ fat' = gone /\ task' = Idle /\ UNCHANGED <<dirent, handle>>
                       \/ /\ s # 0
                          /\ fat' = [gone EXCEPT ![st] = EOF]
                          /\ dirent' = [dirent EXCEPT ![f].size = 0]
                          /\ handle' = [handle EXCEPT ![s] = NewHandle(f, st, 0)]
                          /\ task' = [op |-> "table", slot |-> s, cluster |-> st, index |-> 0]
    <2>1. PICK got : got = GetClusterChain(task.cluster, TRUE)
      OBVIOUS
    <2>2. PICK gone : gone = Deleted(fat, got)
      OBVIOUS
    <2>3. \E D : gone = [x \in FatIndex |-> IF x \in D THEN 0 ELSE fat[x]]
      BY <2>2 DEF Deleted
    <2>4. fat \in [FatIndex -> FatValue] /\ 0 \in FatValue
      BY FatAssumption DEF TypeOK, FatTypeOK, FatValue, EOF
    <2>5. (\A x \in FatIndex : gone[x] = 0 \/ gone[x] = fat[x]) /\ gone \in [FatIndex -> FatValue]
      BY <2>3, <2>4
    <2>6. \/ /\ fat' = gone
             /\ task' = [task EXCEPT !.cluster = got.buf[BufSize]]
             /\ UNCHANGED <<dirent, handle>>
          \/ s = 0 /\ fat' = gone /\ task' = Idle /\ UNCHANGED <<dirent, handle>>
          \/ /\ s # 0
             /\ fat' = [gone EXCEPT ![st] = EOF]
             /\ dirent' = [dirent EXCEPT ![f].size = 0]
             /\ handle' = [handle EXCEPT ![s] = NewHandle(f, st, 0)]
             /\ task' = [op |-> "table", slot |-> s, cluster |-> st, index |-> 0]
      BY <1>f, <1>s, <1>t, <2>1, <2>2 DEF DeleteClusterChain, ReadTable
    <2> QED BY <2>5, <2>6
  <1>2. \A x \in Cluster : x \in FatIndex /\ x # 0 /\ x # EOF
    BY ClusterIs
  <1>3. /\ \A x \in Cluster : fat'[x] \in Cluster => fat'[x] = fat[x]
        /\ \A x \in Cluster \ {st} : fat'[x] = EOF => fat[x] = EOF
        /\ s = 0 => \A x \in Cluster : fat'[x] = EOF => fat[x] = EOF
    <2>1. \A x \in Cluster : gone[x] \in Cluster \/ gone[x] = EOF => gone[x] = fat[x]
      BY <1>2, <1>g, ClusterIs
    <2>2. fat' = gone \/ (s # 0 /\ fat' = [gone EXCEPT ![st] = EOF])
      BY <1>g
    <2>3. \A x \in Cluster \ {st} : fat'[x] = gone[x]
      BY <1>2, <1>g, <2>2
    <2>4. \A x \in Cluster : fat'[x] = gone[x] \/ fat'[x] = EOF
      BY <1>2, <1>g, <2>2
    <2> QED BY <1>2, <2>1, <2>2, <2>3, <2>4, ClusterIs
  <1>4. Graded(fat', num)
    BY <1>3 DEF Measured, Graded
  <1>5. /\ \A g \in File : dirent'[g].start = dirent[g].start
        /\ \A g \in File \ {f} : dirent'[g] = dirent[g]
        /\ s # 0 /\ task'.op = "table" => dirent'[f].size = 0
        /\ task'.op \in {"none", "table", "delete"}
        /\ \A g \in File \ {f} : ~ Deleting(g)'
        /\ task'.op = "delete" => Deleting(f)' /\ task'.truncate = s
        /\ task'.op # "delete" => (s # 0 <=> task'.op = "table") /\ ~ Deleting(f)'
    <2>1. CASE (\E c : task' = [task EXCEPT !.cluster = c]) /\ UNCHANGED dirent
      <3>1. task'.op = "delete" /\ task'.file = f /\ task'.truncate = s
        BY <1>0, <1>f, <1>s, <2>1 DEF DeleteTask
      <3> QED BY <2>1, <3>1 DEF Deleting
    <2>2. CASE s = 0 /\ task' = Idle /\ UNCHANGED dirent
      BY <2>2 DEF Deleting, Idle
    <2>3. CASE /\ s # 0 /\ dirent' = [dirent EXCEPT ![f].size = 0]
               /\ task' = [op |-> "table", slot |-> s, cluster |-> st, index |-> 0]
      <3>1. dirent \in [File -> Dirent]
        BY DEF TypeOK
      <3>2. /\ \A g \in File : dirent'[g].start = dirent[g].start
            /\ \A g \in File \ {f} : dirent'[g] = dirent[g]
            /\ dirent'[f].size = 0
        BY <2>3, <3>1 DEF Dirent
      <3> QED BY <2>3, <3>2 DEF Deleting
    <2> QED BY <1>g, <2>1, <2>2, <2>3
  <1>6. \A t \in Slot : handle[t].open => handle[t].file \in File \ {f} /\ HandleOK(own, handle[t])
    BY <1>1, OpenIs DEF OpenFile, Owns, HandlesOK, HandleOK
  <1>7. \A g \in File \ {f} : o[g] \subseteq own[g]
    <2> SUFFICES ASSUME NEW g \in File \ {f} PROVE o[g] \subseteq own[g]
      OBVIOUS
    <2>1. own[g] \subseteq Cluster
      BY DEF Owns, OwnersOK
    <2>2. Exists(g)' => Exists(g) /\ dirent'[g].start = dirent[g].start
      BY <1>5 DEF Exists
    <2> QED BY <1>0, <1>1, <1>3, <1>5, <2>1, <2>2, OthersWithin
  <1>8. \A g \in File \ {f} : \A n : EndsAt(fat, own[g], num, n) => EndsAt(fat', o[g], num, n)
    <2> SUFFICES ASSUME NEW g \in File \ {f}, NEW x \in o[g], fat'[x] = EOF
                 PROVE  x \in own[g] /\ fat[x] = EOF
      BY DEF EndsAt
    <2>1. x \in own[g] /\ x \in Cluster
      BY <1>7 DEF Owns, OwnersOK
    <2>2. s # 0 => x # st
      BY <1>1, <1>t, <2>1 DEF Owns, StartsOK
    <2> QED BY <1>3, <2>1, <2>2
  <1>9. /\ \A t \in Slot \ {s} : handle'[t] = handle[t]
        /\ task'.op # "table" => handle' = handle
        /\ task'.op = "table" => handle'[s] = NewHandle(f, st, 0) /\ s \in Slot
    <2>1. task'.op = "table" => s # 0 /\ handle' = [handle EXCEPT ![s] = NewHandle(f, st, 0)]
      <3>1. CASE \E c : task' = [task EXCEPT !.cluster = c]
        BY <1>0, <3>1 DEF DeleteTask
      <3> QED BY <1>g, <3>1 DEF Idle
    <2>2. task'.op # "table" => handle' = handle
      BY <1>g
    <2> QED BY <2>1, <2>2 DEF TypeOK
  <1>10. /\ \A t \in Slot : LengthOf(t)' = LenOf(handle'[t].size)
         /\ \A t \in Slot : LengthOf(t) = LenOf(handle[t].size)
    <2>1. \A t \in Slot : LengthOf(t)' = LenOf(handle'[t].size)
      BY <1>5 DEF LengthOf
    <2>2. \A t \in Slot : LengthOf(t) = LenOf(handle[t].size)
      BY <1>0 DEF LengthOf
    <2> QED BY <2>1, <2>2
  <1>11. task'.op = "table" => num[st] = 0 /\ EndsAt(fat', o[f], num, LenOf(0))
    <2> SUFFICES ASSUME task'.op = "table" PROVE num[st] = 0 /\ EndsAt(fat', o[f], num, LenOf(0))
      OBVIOUS
    <2>1. s # 0 /\ Exists(f) /\ fat' = [gone EXCEPT ![st] = EOF]
      <3>1. CASE \E c : task' = [task EXCEPT !.cluster = c]
        BY <1>0, <3>1 DEF DeleteTask
      <3> QED BY <1>1, <1>g, <3>1 DEF Idle
    <2>2. st \in Cluster /\ num[st] = 0
      <3>1. dirent[f] \in Dirent
        BY DEF TypeOK
      <3> QED BY <1>t, <2>1, <3>1 DEF Dirent, Exists, Measured, FilesSized
    <2>3. fat'[st] = EOF
      BY <1>2, <1>g, <2>1, <2>2
    <2>4. Root(f)' = st
      BY <1>5, <1>t DEF Root
    <2>5. o[f] \subseteq {st}
      <3>1. {st} \in SUBSET Cluster /\ \A x \in {st} : fat'[x] \notin Cluster
        BY <1>2, <2>2, <2>3, ClusterIs
      <3> QED BY <1>0, <2>4, <3>1, OwnedWithin
    <2> QED BY <2>2, <2>5 DEF EndsAt, LenOf
  <1>12. FilesSized(o, num)'
    <2>1. ASSUME NEW t \in Slot, handle[t].open PROVE handle'[t] = handle[t]
      <3>1. CASE task'.op # "table"
        BY <1>9, <3>1
      <3>2. CASE task'.op = "table"
        <4>1. s # 0 /\ s \in Slot
          BY <1>5, <1>9, <3>2
        <4>2. t # s
          BY <1>1, <2>1, <4>1
        <4> QED BY <1>9, <4>2
      <3> QED BY <3>1, <3>2
    <2>2. \A g \in File : InNoSlot(g)' => InNoSlot(g)
      BY <2>1 DEF InNoSlot
    <2>3. ASSUME NEW g \in File, Exists(g)', g # f
          PROVE  /\ num[dirent'[g].start] = 0
                 /\ InNoSlot(g)' => EndsAt(fat', o[g], num, LenOf(dirent'[g].size))
      <3>1. dirent'[g] = dirent[g] /\ Exists(g)
        BY <1>5, <2>3 DEF Exists
      <3>2. /\ num[dirent[g].start] = 0
            /\ InNoSlot(g) => EndsAt(fat, own[g], num, LenOf(dirent[g].size))
        BY <1>1, <2>3, <3>1 DEF Measured, FilesSized
      <3> QED BY <1>8, <2>2, <2>3, <3>1, <3>2
    <2>4. ASSUME Exists(f)'
          PROVE  /\ num[dirent'[f].start] = 0
                 /\ ~ Deleting(f)' => EndsAt(fat', o[f], num, LenOf(dirent'[f].size))
      <3>1. Exists(f) /\ s # 0
        BY <1>1, <1>5, <2>4 DEF Exists
      <3>2. num[dirent'[f].start] = 0
        BY <1>5, <3>1 DEF Measured, FilesSized
      <3> QED BY <1>5, <1>11, <3>1, <3>2
    <2> QED BY <2>3, <2>4 DEF FilesSized
  <1>13. SlotsSized(o, num)'
    <2> SUFFICES ASSUME NEW t \in Slot, handle'[t].open
                 PROVE  (TableOK(num, handle[t]) /\ EndsAt(fat, o[handle[t].file], num, LengthOf(t)))'
      BY DEF SlotsSized
    <2>1. CASE t = s /\ task'.op = "table"
      <3>1. PICK h : h = handle'[s]
        OBVIOUS
      <3>2. PICK d : d = dirent'
        OBVIOUS
      <3>3. /\ h.open /\ h.file = f /\ h.size = 0
            /\ h.chain[0].cluster = d[h.file].start
            /\ (\A j \in Seek : num[h.chain[j].cluster] = h.chain[j].index)
            /\ d[h.file].size = h.size
        <4>1. h = NewHandle(f, st, 0) /\ num[st] = 0
          BY <1>9, <1>11, <2>1, <3>1
        <4>2. d[f].start = st /\ d[f].size = 0
          BY <1>5, <1>9, <1>t, <2>1, <3>2
        <4>3. PICK n : n = 0
          OBVIOUS
        <4>4. h = NewHandle(f, st, n) /\ num[st] = 0 /\ d[f].start = st /\ d[f].size = n
          BY <4>1, <4>2, <4>3
        <4>5. /\ h.open /\ h.file = f /\ h.size = n
              /\ h.chain[0].cluster = d[h.file].start
              /\ \A j \in Seek : num[h.chain[j].cluster] = h.chain[j].index
              /\ d[h.file].size = h.size
          BY ONLY <4>4, NewHandleMeasured
        <4> QED BY <4>3, <4>5
      <3>4. TableOK(num, handle[s])'
        BY <3>1, <3>2, <3>3 DEF TableOK
      <3>5. EndsAt(fat, o[handle[s].file], num, LengthOf(s))'
        BY <1>9, <1>10, <1>11, <2>1, <3>1, <3>3
      <3> QED BY <2>1, <3>4, <3>5
    <2>2. CASE ~ (t = s /\ task'.op = "table")
      <3>1. PICK h : h = handle[t]
        OBVIOUS
      <3>2. handle'[t] = h /\ h.open /\ h.file \in File \ {f}
        BY <1>6, <1>9, <2>2, <3>1
      <3>3. TableOK(num, h) /\ EndsAt(fat, own[h.file], num, LenOf(h.size))
        BY <1>10, <3>1, <3>2 DEF Measured, SlotsSized
      <3>4. TableOK(num, handle[t])'
        BY <1>5, <3>2, <3>3 DEF TableOK
      <3>5. LengthOf(t)' = LenOf(h.size)
        BY <1>10, <3>2
      <3> QED BY <1>8, <3>2, <3>3, <3>4, <3>5
    <2> QED BY <2>1, <2>2
  <1>14. CallSized(num)'
    <2>1. CASE task'.op = "table"
      <3>1. task' = [op |-> "table", slot |-> s, cluster |-> st, index |-> 0]
        <4>1. CASE \E c : task' = [task EXCEPT !.cluster = c]
          BY <1>0, <2>1, <4>1 DEF DeleteTask
        <4> QED BY <1>g, <2>1, <4>1 DEF Idle
      <3>2. handle'[s].file = f /\ dirent'[f].start = st
        BY <1>5, <1>9, <1>t, <2>1 DEF NewHandle
      <3> QED BY <1>11, <2>1, <3>1, <3>2 DEF CallSized
    <2>2. CASE task'.op = "delete"
      BY <1>1, <1>5, <1>9, <2>2 DEF CallSized
    <2>3. CASE task'.op = "none"
      BY <2>3 DEF CallSized
    <2> QED BY <1>5, <2>1, <2>2, <2>3
  <1> QED BY <1>4, <1>12, <1>13, <1>14 DEF Measured
-----------------------------------------------------------------------------
(* A medium without damage whose directory entries say how long the chains *)
(* are.                                                                    *)
HasSizes(m, own, num) ==
  /\ Graded(m.fat, num)
  /\ \A f \in File : m.dirent[f].start # 0 =>
       /\ num[m.dirent[f].start] = 0
       /\ EndsAt(m.fat, own[f], num, LenOf(m.dirent[f].size))

Sized(m) == Sound(m) /\ \E own, num : HasChains(m, own) /\ HasSizes(m, own, num)

(* There is nothing on a blank medium that could have a wrong size.        *)
LEMMA BlankIsSized ==
  ASSUME NEW m, Blank(m)
  PROVE  Sized(m)
  <1>1. PICK own : HasChains(m, own)
    BY BlankIsSound DEF Sound
  <1>2. PICK num : num = [c \in Cluster |-> 0]
    OBVIOUS
  <1>3. num \in [Cluster -> Nat]
    BY <1>2
  <1>4. \A c \in Cluster : m.fat[c] \notin Cluster
    BY ClusterIs DEF Blank
  <1>5. HasSizes(m, own, num)
    BY <1>3, <1>4 DEF HasSizes, Graded, Blank
  <1> QED BY <1>1, <1>5, BlankIsSound DEF Sized

(* The numbers fit whatever sets of clusters the first clusters lead to.   *)
LEMMA SizesFit ==
  ASSUME NEW m, Sized(m), NEW o,
         \A f \in File : IF m.dirent[f].start # 0 THEN Reached(m.fat, o[f], m.dirent[f].start)
                         ELSE o[f] = {}
  PROVE  \E num : HasSizes(m, o, num)
  <1>1. PICK own, num : HasChains(m, own) /\ HasSizes(m, own, num)
    BY DEF Sized
  <1>2. ASSUME NEW f \in File PROVE o[f] \subseteq own[f]
    <2>1. CASE m.dirent[f].start # 0
      <3>1. own[f] \in SUBSET Cluster /\ Inside(m.fat, own[f]) /\ m.dirent[f].start \in own[f]
        BY <1>1, <2>1 DEF HasChains
      <3>2. \A x \in own[f] : m.fat[x] \in Cluster => m.fat[x] \in own[f]
        BY <3>1, ClusterIs DEF Inside
      <3>3. Reached(m.fat, o[f], m.dirent[f].start)
        BY <2>1
      <3> QED BY <3>1, <3>2, <3>3 DEF Reached
    <2>2. CASE m.dirent[f].start = 0
      BY <2>2
    <2> QED BY <2>1, <2>2
  <1>3. HasSizes(m, o, num)
    BY <1>1, <1>2 DEF HasSizes, EndsAt
  <1> QED BY <1>3

(* Another medium is mounted: all files are closed.                        *)
LEMMA RemountMeasured ==
  ASSUME \A m \in Media : Sized(m), ~ ranOut, ChangeMedium, NEW o, Owns(o)'
  PROVE  \E num : Measured(o, num)'
  <1>1. PICK m \in Media : fat' = m.fat /\ dirent' = m.dirent
    BY DEF ChangeMedium, Remount
  <1>2. /\ task' = Idle /\ task'.op = "none" /\ UNCHANGED <<handle, ranOut>>
        /\ \A s \in Slot : ~ handle'[s].open
        /\ \A f \in File : ~ Deleting(f)'
    BY DEF ChangeMedium, Remount, Idle, Deleting
  <1>3. \A f \in File : IF m.dirent[f].start # 0 THEN Reached(m.fat, o[f], m.dirent[f].start)
                        ELSE o[f] = {}
    <2>1. AllReached(o)'
      BY <1>2 DEF Owns, Lossless
    <2> QED BY <1>1, <1>2, <2>1 DEF AllReached, Exists, Root
  <1>4. PICK num : HasSizes(m, o, num)
    BY <1>3, SizesFit
  <1>5. Graded(fat', num) /\ FilesSized(o, num)'
    BY <1>1, <1>4 DEF HasSizes, FilesSized, Exists
  <1>6. SlotsSized(o, num)' /\ CallSized(num)'
    BY <1>2 DEF SlotsSized, CallSized
  <1> QED BY <1>5, <1>6 DEF Measured

(* The first medium.                                                       *)
LEMMA InitMeasured ==
  ASSUME Init, \A m \in Media : Sized(m)
  PROVE  SeekInv
  <1>1. PICK m \in Media : fat = m.fat /\ dirent = m.dirent
    BY DEF Init
  <1>2. PICK o : Owns(o)
    BY InitOwns DEF Sized, FilesInv
  <1>3. /\ task.op = "none" /\ ~ ranOut
        /\ \A s \in Slot : ~ handle[s].open
        /\ \A f \in File : ~ Deleting(f)
    BY DEF Init, Idle, Deleting, Closed
  <1>4. \A f \in File : IF m.dirent[f].start # 0 THEN Reached(m.fat, o[f], m.dirent[f].start)
                        ELSE o[f] = {}
    <2>1. AllReached(o)
      BY <1>2, <1>3 DEF Owns, Lossless
    <2> QED BY <1>1, <1>3, <2>1 DEF AllReached, Exists, Root
  <1>5. PICK num : HasSizes(m, o, num)
    BY <1>4, SizesFit
  <1>6. Graded(fat, num) /\ FilesSized(o, num)
    BY <1>1, <1>5 DEF HasSizes, FilesSized, Exists
  <1>7. SlotsSized(o, num) /\ CallSized(num)
    BY <1>3 DEF SlotsSized, CallSized
  <1> QED BY <1>2, <1>6, <1>7 DEF Measured, SeekInv

(* The steps that change the table or the medium.                          *)
TableChanges ==
  (\E s \in Slot, f \in File : Create(s, f)) \/ Grow \/ DeleteClusterChain \/ ChangeMedium

(* Who once ran out of space has done so for ever.                         *)
LEMMA RanOutStays ==
  ASSUME [Next]_vars, ~ ranOut'
  PROVE  ~ ranOut
  <1>1. CASE GrowFails
    BY <1>1 DEF GrowFails
  <1>2. CASE Transfer
    BY <1>2 DEF Transfer
  <1>3. CASE UNCHANGED vars
    BY <1>3 DEF vars
  <1>4. CASE SetFatDirChain \/ Grow \/ TransferDone \/ DeleteClusterChain \/ ChangeMedium
    BY <1>4 DEF SetFatDirChain, Grow, TransferDone, DeleteClusterChain, ChangeMedium, Remount
  <1>5. CASE Call
    BY <1>5 DEF Call, Open, OpenTruncated, Create, Close, Read, Write, Remove
  <1> QED BY <1>1, <1>2, <1>3, <1>4, <1>5 DEF Next, Work

(* Every step keeps the clusters numbered, and only those that change the  *)
(* table give a cluster another number.                                    *)
LEMMA MeasuredStep ==
  ASSUME ~ ByPath, \A m \in Media : Sized(m), FilesInv, NEW own, Owns(own),
         NEW num, Measured(own, num), ~ ranOut', [Next]_vars, FilesInv'
  PROVE  \E o, p : (Owns(o) /\ Measured(o, p))' /\ ((o = own /\ p = num) \/ TableChanges)
  <1>0. TypeOK /\ \E o : Owns(o)'
    BY DEF FilesInv
  <1>1. ~ ranOut
    BY RanOutStays
  <1>2. Owns(own) /\ Measured(own, num)
    OBVIOUS
  <1>3. PICK o : Owns(o)'
    BY <1>0
  <1>4. CASE UNCHANGED vars
    <2>1. Owns(own)'
      BY <1>2, <1>4 DEF vars, fatVars, Owns, OwnersOK, StartsOK, CacheOK, CacheOf, HandlesOK, HandleOK,
         OpenOnce, TaskOK, Lossless, AllOwned, AllReached, EndsOK, CacheIsChain, Exists, Deleting,
         Root, Changing
    <2>2. Measured(own, num)'
      BY <1>2, <1>4 DEF vars, fatVars, Measured, FilesSized, SlotsSized, CallSized, TableOK,
         LengthOf, InNoSlot, Exists, Deleting
    <2> QED BY <2>1, <2>2
  <1>5. ASSUME NEW s \in Slot, NEW f \in File, Open(s, f)
        PROVE  Owns(own)' /\ Measured(own, num)'
    BY <1>0, <1>2, <1>5, OpenStep, OpenMeasured
  <1>6. ASSUME NEW s \in Slot, NEW f \in File, OpenTruncated(s, f)
        PROVE  Owns(own)' /\ Measured(own, num)'
    BY <1>0, <1>2, <1>6, OpenTruncatedStep, OpenTruncatedMeasured
  <1>7. ASSUME NEW s \in Slot, NEW f \in File, Create(s, f)
        PROVE  \E p : Measured(o, p)'
    BY <1>0, <1>1, <1>2, <1>3, <1>7, CreateMeasured
  <1>8. ASSUME NEW s \in Slot, Close(s) PROVE Owns(own)' /\ Measured(own, num)'
    BY <1>0, <1>2, <1>8, CloseStep, CloseMeasured
  <1>9. ASSUME NEW s \in Slot, Read(s) PROVE Owns(own)' /\ Measured(own, num)'
    BY <1>0, <1>2, <1>9, ReadStep, ReadMeasured
  <1>10. ASSUME NEW s \in Slot, Write(s) PROVE Owns(own)' /\ Measured(own, num)'
    BY <1>0, <1>1, <1>2, <1>10, WriteStep, WriteMeasured
  <1>11. ASSUME NEW f \in File, Remove(f) PROVE Owns(own)' /\ Measured(own, num)'
    BY <1>0, <1>2, <1>11, RemoveStep, RemoveMeasured
  <1>12. ASSUME SetFatDirChain PROVE Owns(own)' /\ Measured(own, num)'
    BY <1>0, <1>1, <1>2, <1>12, SetFatDirChainStep, SetFatDirChainMeasured
  <1>13. ASSUME Grow PROVE \E p : Measured(o, p)'
    BY <1>0, <1>1, <1>2, <1>3, <1>13, GrowMeasured
  <1>14. ~ GrowFails
    BY DEF GrowFails
  <1>15. ASSUME Transfer PROVE Owns(own)' /\ Measured(own, num)'
    BY <1>0, <1>2, <1>15, TransferStep, TransferMeasured
  <1>16. ASSUME TransferDone PROVE Owns(own)' /\ Measured(own, num)'
    BY <1>0, <1>2, <1>16, TransferDoneStep, TransferDoneMeasured
  <1>17. ASSUME DeleteClusterChain PROVE Measured(o, num)'
    BY <1>0, <1>1, <1>2, <1>3, <1>17, DeleteMeasured
  <1>18. ASSUME ChangeMedium PROVE \E p : Measured(o, p)'
    BY <1>1, <1>3, <1>18, RemountMeasured
  <1>19. CASE TableChanges
    <2>1. \E p : Measured(o, p)'
      BY <1>7, <1>13, <1>17, <1>18, <1>19 DEF TableChanges
    <2> QED BY <1>3, <1>19, <2>1
  <1>20. CASE ~ TableChanges
    <2>1. Owns(own)' /\ Measured(own, num)'
      BY <1>4, <1>5, <1>6, <1>8, <1>9, <1>10, <1>11, <1>12, <1>14, <1>15, <1>16, <1>20
         DEF Next, Call, Work, TableChanges
    <2> QED BY <2>1
  <1> QED BY <1>19, <1>20

(* The same of the invariant.                                              *)
LEMMA SeekStep ==
  ASSUME ~ ByPath, \A m \in Media : Sized(m), FilesInv, SeekInv, [Next]_vars, FilesInv'
  PROVE  SeekInv'
  <1> SUFFICES ASSUME ~ ranOut' PROVE \E o, p : (Owns(o) /\ Measured(o, p))'
    BY DEF SeekInv
  <1>1. PICK own, num : Owns(own) /\ Measured(own, num)
    BY RanOutStays DEF SeekInv
  <1> QED BY <1>1, MeasuredStep

(* The seek table and lastCluster of an open file are those of its chain,  *)
(* and the size says how long the chain is, however fs_write, fs_open with *)
(* O_TRUNC, fs_close and fs_remove follow each other, until a write runs   *)
(* out of space: fat_setFatDirChain and fat_writeFile keep the copy right. *)
THEOREM SeekTablesAreKept ==
  ASSUME ~ ByPath, \A m \in Media : Sized(m)
  PROVE  CarefulSpec => []SeekTableRight
  <1>1. \A m \in Media : Sound(m)
    BY DEF Sized
  <1>2. CarefulSpec => []FilesInv
    <2>1. CarefulSpec => [](FilesInv /\ Truncation)
      BY <1>1, FilesInvariant
    <2> QED BY <2>1, PTL
  <1>3. Init => SeekInv
    BY InitMeasured
  <1>4. FilesInv /\ SeekInv /\ [Next /\ StackNotStale]_vars /\ FilesInv' => SeekInv'
    <2>1. [Next /\ StackNotStale]_vars => [Next]_vars
      OBVIOUS
    <2> QED BY <2>1, SeekStep
  <1>5. FilesInv /\ SeekInv => SeekTableRight
    BY SeekInvImplies DEF FilesInv
  <1> QED BY <1>2, <1>3, <1>4, <1>5, PTL DEF CarefulSpec

(* With blank media no step is excluded.                                   *)
THEOREM SeekTablesAreRight ==
  ASSUME ~ ByPath, \A m \in Media : Blank(m)
  PROVE  Spec => []SeekTableRight
  <1>1. \A m \in Media : Sized(m)
    BY BlankIsSized
  <1>2. [Next]_vars => [Next /\ StackNotStale]_vars
    BY BlankIsCareful
  <1>3. CarefulSpec => []SeekTableRight
    BY <1>1, SeekTablesAreKept
  <1> QED BY <1>2, <1>3, PTL DEF Spec, CarefulSpec
-----------------------------------------------------------------------------
(* The transfer under way, with the clusters numbered: it reads its first  *)
(* buffer at a cluster that is as many clusters before the position as are *)
(* to be skipped, and has used the clusters that hold its positions.       *)
TransferOK(own, num) ==
  /\ lastChain \in Cluster => cbuf[1] = lastChain
  /\ task.op # "io" => touched = {}
  /\ task.op = "io" =>
       /\ Clusters(task.end) <= LengthOf(task.slot)
       /\ task.left > 0 => /\ task.start /\ num[task.cluster] + task.skip = task.index
                           /\ task.index + task.left = Clusters(task.end)
       /\ \A t \in touched : \E c \in own[handle[task.slot].file] : t = <<num[c], c>>

(* What the run checks.                                                    *)
LEMMA TransferOKImplies ==
  ASSUME TypeOK, ~ ranOut, NEW own, Owns(own), NEW num, Measured(own, num), TransferOK(own, num)
  PROVE  UsesItsClusters
  <1> SUFFICES ASSUME task.op = "io", NEW t \in touched
               PROVE  LET w == FileChain(handle[task.slot].file)
                      IN  t[1] < Len(w) /\ t[2] = w[t[1] + 1]
    BY DEF UsesItsClusters
  <1>f. PICK f : f = handle[task.slot].file
    OBVIOUS
  <1>0. task.slot \in Slot
    BY TaskIs DEF IOTask
  <1>1. handle[task.slot].open /\ f \in File /\ Exists(f) /\ ~ Deleting(f)
    <2>1. handle[task.slot].open
      BY DEF Owns, TaskOK
    <2>2. handle[task.slot] \in OpenFile /\ Exists(f) /\ ~ Deleting(f)
      BY <1>0, <1>f, <2>1, OpenIs DEF Owns, HandlesOK, HandleOK
    <2> QED BY <1>f, <2>1, <2>2 DEF OpenFile
  <1>2. /\ own[f] \in SUBSET Cluster /\ Inside(fat, own[f]) /\ dirent[f].start \in own[f]
        /\ Reached(fat, own[f], dirent[f].start)
        /\ Graded(fat, num) /\ num[dirent[f].start] = 0
    BY <1>1 DEF Owns, OwnersOK, StartsOK, Lossless, AllReached, Root, Measured, FilesSized
  <1> DEFINE w == ChainOf(dirent[f].start)
  <1>3. /\ Len(w) \in Nat \ {0}
        /\ \A x \in own[f] : num[x] + 1 \in 1 .. Len(w) /\ w[num[x] + 1] = x
    BY <1>2, ChainGraded
  <1> HIDE DEF w
  <1>4. PICK c \in own[f] : t = <<num[c], c>>
    BY <1>f DEF TransferOK
  <1>5. num[c] \in Nat
    BY <1>2 DEF Graded
  <1>6. t[1] < Len(w) /\ t[2] = w[t[1] + 1]
    BY <1>3, <1>4, <1>5
  <1> QED BY <1>6, <1>f DEF w, FileChain

(* A transfer begins in the seek table as many clusters before its         *)
(* position as it skips.                                                   *)
LEMMA StartIOCounts ==
  ASSUME TypeOK, NEW own, HandlesOK(own), NEW s \in Slot, handle[s].open, NEW num,
         \A j \in Seek : num[handle[s].chain[j].cluster] = handle[s].chain[j].index,
         NEW pos \in Nat, NEW n \in Nat \ {0},
         NEW write, NEW grown, NEW t, t = StartIO(s, pos, n, write, grown)
  PROVE  /\ t.op = "io" /\ t.slot = s /\ t.end = pos + n /\ t.grown = grown /\ t.start
         /\ num[t.cluster] + t.skip = t.index /\ t.index + t.left = Clusters(t.end)
  <1> DEFINE e == SeekEntry(handle[s], pos)
             p == pos \div ClusterBytes
             q == Clusters(pos + n)
  <1>1. handle[s] \in OpenFile /\ handle[s].chain[0].index = 0
    BY OpenIs DEF HandlesOK, HandleOK
  <1>2. (\E j \in Seek : e = handle[s].chain[j]) /\ e \in SeekRecord
    BY <1>1, SeekEntryIs
  <1>3. p \in Nat /\ q \in Nat
    BY ClustersAre
  <1>4. t = [op |-> "io", slot |-> s, end |-> pos + n, write |-> write, grown |-> grown,
             cluster |-> e.cluster, index |-> p, skip |-> p - e.index, left |-> q - p,
             start |-> TRUE]
    BY DEF StartIO
  <1> HIDE DEF e, p
  <1>5. e.index \in Nat /\ num[e.cluster] = e.index
    BY <1>2 DEF SeekRecord, Position
  <1>6. e.index + (p - e.index) = p /\ p + (q - p) = q
    BY <1>3, <1>5
  <1> HIDE DEF q
  <1>7. /\ t.op = "io" /\ t.slot = s /\ t.end = pos + n /\ t.grown = grown /\ t.start
        /\ num[t.cluster] + t.skip = p /\ t.index = p /\ t.index + t.left = q
    BY <1>4, <1>5, <1>6
  <1> QED BY <1>7 DEF q

(* fs_read.                                                                *)
LEMMA ReadCounts ==
  ASSUME TypeOK, NEW own, Owns(own), NEW num, Measured(own, num), TransferOK(own, num),
         NEW s \in Slot, Read(s)
  PROVE  TransferOK(own, num)'
  <1>1. /\ task = Idle /\ task.op = "none" /\ handle[s].open
        /\ UNCHANGED <<fat, cbuf, lastChain, dirent, handle, touched>>
    BY IdleIs DEF Read, fatVars
  <1>2. PICK pos \in 0 .. handle[s].size : \E n \in 1 .. handle[s].size - pos :
          task' = StartIO(s, pos, n, FALSE, FALSE)
    BY DEF Read
  <1>3. PICK n \in 1 .. handle[s].size - pos : task' = StartIO(s, pos, n, FALSE, FALSE)
    BY <1>2
  <1>4. handle[s].size \in Nat
    <2>1. handle[s] \in OpenFile
      BY <1>1, OpenIs
    <2>2. PICK h : h = handle[s]
      OBVIOUS
    <2>3. h.size \in Size
      BY <2>1, <2>2 DEF OpenFile
    <2> QED BY <2>2, <2>3, FilesAssumption DEF Size
  <1>5. pos \in Nat /\ n \in Nat \ {0} /\ pos + n \in Nat /\ pos + n <= handle[s].size
        /\ handle[s].size > 0
    BY <1>4
  <1>6. /\ HandlesOK(own)
        /\ \A j \in Seek : num[handle[s].chain[j].cluster] = handle[s].chain[j].index
    BY <1>1 DEF Owns, Measured, SlotsSized, TableOK
  <1>t. PICK t : t = task'
    OBVIOUS
  <1>7. /\ t.op = "io" /\ t.slot = s /\ t.end = pos + n /\ t.grown = FALSE /\ t.start
        /\ num[t.cluster] + t.skip = t.index /\ t.index + t.left = Clusters(t.end)
    <2>1. PICK no : no = FALSE
      OBVIOUS
    <2>2. TypeOK /\ handle[s].open /\ t = StartIO(s, pos, n, no, no)
      BY <1>1, <1>3, <1>t, <2>1
    <2>3. /\ t.op = "io" /\ t.slot = s /\ t.end = pos + n /\ t.grown = no /\ t.start
          /\ num[t.cluster] + t.skip = t.index /\ t.index + t.left = Clusters(t.end)
      BY ONLY <1>5, <1>6, <2>2, StartIOCounts
    <2> QED BY <2>1, <2>3
  <1>8. LengthOf(s)' = LenOf(handle[s].size)
    BY <1>1, <1>7, <1>t DEF LengthOf
  <1>9. Clusters(pos + n) <= LenOf(handle[s].size)
    BY <1>4, <1>5, ClustersGrow DEF LenOf
  <1> QED BY <1>1, <1>7, <1>8, <1>9, <1>t DEF TransferOK

(* fs_write.                                                               *)
LEMMA WriteCounts ==
  ASSUME TypeOK, NEW own, Owns(own), NEW num, Measured(own, num), TransferOK(own, num),
         NEW s \in Slot, Write(s), CallSized(num)'
  PROVE  TransferOK(own, num)'
  <1>1. /\ task = Idle /\ task.op = "none" /\ handle[s].open
        /\ UNCHANGED <<fat, cbuf, lastChain, dirent, handle, touched>>
    BY IdleIs DEF Write, fatVars
  <1> DEFINE have == IF handle[s].size = 0 THEN 1 ELSE Clusters(handle[s].size)
             need(p, n) == Clusters(p + n) - have
             after(p, n) == IF need(p, n) <= 0 THEN StartIO(s, p, n, TRUE, FALSE)
                            ELSE [op |-> "grow", slot |-> s, pos |-> p, size |-> n,
                                  need |-> need(p, n), cur |-> handle[s].lastCluster]
  <1>2. PICK pos \in 0 .. handle[s].size : \E n \in 1 .. MaxSize - pos : task' = after(pos, n)
    BY DEF Write
  <1>n. PICK n \in 1 .. MaxSize - pos : task' = after(pos, n)
    BY <1>2
  <1>3. task' = StartIO(s, pos, n, TRUE, FALSE) \/ task'.op = "grow"
    BY <1>n
  <1>4. handle[s].size \in Nat
    <2>1. handle[s] \in OpenFile
      BY <1>1, OpenIs
    <2>2. PICK h : h = handle[s]
      OBVIOUS
    <2>3. h.size \in Size
      BY <2>1, <2>2 DEF OpenFile
    <2> QED BY <2>2, <2>3, FilesAssumption DEF Size
  <1>5. pos \in Nat /\ n \in Nat \ {0} /\ pos + n \in Nat
    BY <1>4, FilesAssumption
  <1>6. /\ HandlesOK(own)
        /\ \A j \in Seek : num[handle[s].chain[j].cluster] = handle[s].chain[j].index
    BY <1>1 DEF Owns, Measured, SlotsSized, TableOK
  <1>t. PICK t : t = task'
    OBVIOUS
  <1>7. CASE task' = StartIO(s, pos, n, TRUE, FALSE)
    <2>1. /\ t.op = "io" /\ t.slot = s /\ t.end = pos + n /\ t.grown = FALSE /\ t.start
          /\ num[t.cluster] + t.skip = t.index /\ t.index + t.left = Clusters(t.end)
      <3>1. PICK yes, no : yes = TRUE /\ no = FALSE
        OBVIOUS
      <3>2. TypeOK /\ handle[s].open /\ t = StartIO(s, pos, n, yes, no)
        BY <1>1, <1>7, <1>t, <3>1
      <3>3. /\ t.op = "io" /\ t.slot = s /\ t.end = pos + n /\ t.grown = no /\ t.start
            /\ num[t.cluster] + t.skip = t.index /\ t.index + t.left = Clusters(t.end)
        BY ONLY <1>5, <1>6, <3>2, StartIOCounts
      <3> QED BY <3>1, <3>3
    <2>2. t.write
      BY <1>7, <1>t DEF StartIO
    <2>3. LengthOf(s)' = LenOf(handle[s].size)
      BY <1>1, <2>1, <1>t DEF LengthOf
    <2>4. Clusters(t.end) <= LenOf(handle[s].size)
      BY <1>1, <1>t, <2>1, <2>2 DEF CallSized
    <2> QED BY <1>1, <2>1, <2>3, <2>4, <1>t DEF TransferOK
  <1>8. CASE task'.op = "grow"
    BY <1>1, <1>8 DEF TransferOK
  <1> QED BY <1>3, <1>7, <1>8

(* fat_writeFile after its last new cluster.                               *)
LEMMA GrowCounts ==
  ASSUME TypeOK, NEW own, Owns(own), NEW num, TransferOK(own, num), Grow,
         NEW o, NEW p, Measured(o, p)', Owns(o)'
  PROVE  TransferOK(o, p)'
  <1>0. /\ task.op = "grow" /\ task.slot \in Slot /\ task.pos \in Nat /\ task.size \in Nat \ {0}
        /\ handle[task.slot].open
    <2>1. task.op = "grow" /\ task \in GrowTask
      BY TaskIs DEF Grow
    <2> QED BY <2>1, FilesAssumption DEF GrowTask, Size, Owns, TaskOK
  <1>s. PICK s \in Slot : s = task.slot
    BY <1>0
  <1>1. UNCHANGED touched /\ touched = {}
    BY <1>0 DEF Grow, TransferOK
  <1>2. CASE task' = [task EXCEPT !.need = @ - 1, !.cur = task'.cur] /\ UNCHANGED chainVars
    <2>1. task'.op = "grow"
      BY <1>0, <1>2, TaskIs DEF GrowTask
    <2> QED BY <1>0, <1>1, <1>2, <2>1 DEF TransferOK, chainVars
  <1>3. ASSUME NEW c \in Cluster, handle' = [handle EXCEPT ![s].lastCluster = c],
               task' = StartIO(s, task.pos, task.size, TRUE, TRUE), Invalidated
        PROVE  TransferOK(o, p)'
    <2>1. /\ handle'[s].open /\ handle'[s].chain = handle[s].chain
      <3>1. handle[s] \in OpenFile /\ handle \in [Slot -> OpenFile \union {Closed}]
        BY <1>0, <1>s, OpenIs DEF TypeOK
      <3> QED BY <1>3, <3>1, <1>0, <1>s DEF OpenFile
    <2>2. \A j \in Seek : p[handle[s].chain[j].cluster] = handle[s].chain[j].index
      BY <2>1 DEF Measured, SlotsSized, TableOK
    <2>t. PICK t : t = task'
      OBVIOUS
    <2>p. PICK pos \in Nat, n \in Nat \ {0} : pos = task.pos /\ n = task.size
      BY <1>0
    <2>3. /\ t.op = "io" /\ t.slot = s /\ t.end = pos + n /\ t.grown = TRUE /\ t.start
          /\ p[t.cluster] + t.skip = t.index /\ t.index + t.left = Clusters(t.end)
      <3>1. PICK yes : yes = TRUE
        OBVIOUS
      <3>2. TypeOK /\ HandlesOK(own) /\ handle[s].open /\ t = StartIO(s, pos, n, yes, yes)
        BY <1>0, <1>s, <1>3, <2>t, <2>p, <3>1 DEF Owns
      <3>3. /\ t.op = "io" /\ t.slot = s /\ t.end = pos + n /\ t.grown = yes /\ t.start
            /\ p[t.cluster] + t.skip = t.index /\ t.index + t.left = Clusters(t.end)
        BY ONLY <2>2, <3>2, StartIOCounts
      <3> QED BY <3>1, <3>3
    <2>4. LengthOf(s)' = Clusters(t.end)
      BY <2>3, <2>t DEF LengthOf
    <2>5. Clusters(t.end) \in Nat
      BY <2>3, <2>p, ClustersAre
    <2>6. lastChain' \notin Cluster
      BY <1>3, ClusterIs DEF Invalidated
    <2> QED BY <1>1, <2>t, <2>3, <2>4, <2>5, <2>6 DEF TransferOK
  <1> QED BY <1>2, <1>3, <1>s DEF Grow

(* A buffer that is read with its first cluster begins with it, if that    *)
(* was so of the one in cbuf.                                              *)
LEMMA BufferBegins ==
  ASSUME TypeOK, NEW own, OwnersOK(own), NEW f \in File, NEW c \in own[f],
         lastChain \in Cluster => cbuf[1] = lastChain
  PROVE  GetClusterChain(c, TRUE).buf[1] = c
  <1>1. own[f] \in SUBSET Cluster /\ Inside(fat, own[f])
    BY DEF OwnersOK
  <1>2. CASE c = lastChain
    BY <1>1, <1>2 DEF GetClusterChain
  <1>3. CASE c # lastChain
    <2> DEFINE w == ChainFrom(fat, c, BufSize)
    <2>1. Follows(fat, own[f], c, BufSize, w)
      BY <1>1, FatAssumption, ChainFollows DEF Inside
    <2>2. GetClusterChain(c, TRUE).buf = [i \in 1 .. BufSize |-> IF i <= Len(w) THEN w[i] ELSE cbuf[i]]
      BY <1>3 DEF GetClusterChain
    <2> HIDE DEF w
    <2>3. w[1] = c /\ 1 <= Len(w) /\ 1 \in 1 .. BufSize
      BY <2>1, FatAssumption DEF Follows
    <2> QED BY <2>2, <2>3
  <1> QED BY <1>2, <1>3

(* One buffer is all of the file that there is behind it, so the transfer  *)
(* ends with the first one.                                                *)
LEMMA TransferCounts ==
  ASSUME Clusters(MaxSize) <= BufSize,
         TypeOK, ~ ranOut, NEW own, Owns(own), NEW num, Measured(own, num),
         TransferOK(own, num), Transfer
  PROVE  TransferOK(own, num)'
  <1>0. /\ task.op = "io" /\ task \in IOTask /\ task.left > 0
        /\ task.slot \in Slot /\ task.end \in Nat /\ task.end <= MaxSize
    <2>1. task.op = "io" /\ task \in IOTask /\ task.left > 0
      BY TaskIs DEF Transfer
    <2> QED BY <2>1, FilesAssumption DEF IOTask, Size
  <1>s. PICK s \in Slot : s = task.slot
    BY <1>0
  <1>f. PICK f : f = handle[s].file
    OBVIOUS
  <1>c. PICK c : c = task.cluster
    OBVIOUS
  <1>n. PICK index, skip, left \in Nat : index = task.index /\ skip = task.skip /\ left = task.left
    BY <1>0 DEF IOTask, Position
  <1>l. PICK last : last = LengthOf(s)
    OBVIOUS
  <1>g. PICK got : got = GetClusterChain(c, TRUE)
    OBVIOUS
  <1>z. PICK n : n = ChainSize(got.result)
    OBVIOUS
  <1>1. /\ f \in File /\ c \in own[f] /\ own[f] \subseteq Cluster
        /\ EndsAt(fat, own[f], num, last) /\ Graded(fat, num)
    <2>1. handle[s].open /\ c \in own[f] /\ own[f] \subseteq Cluster
      <3>1. handle[s].open /\ c \in own[f]
        BY <1>0, <1>s, <1>f, <1>c DEF Owns, TaskOK
      <3>2. handle[s] \in OpenFile
        BY <3>1, OpenIs
      <3>3. f \in File
        BY <1>f, <3>2 DEF OpenFile
      <3> QED BY <3>1, <3>3 DEF Owns, OwnersOK
    <2>2. handle[s] \in OpenFile
      BY <2>1, OpenIs
    <2>3. EndsAt(fat, own[f], num, last) /\ Graded(fat, num)
      BY <1>f, <1>l, <2>1 DEF Measured, SlotsSized
    <2> QED BY <1>f, <2>1, <2>2, <2>3 DEF OpenFile
  <1>2. PICK e \in Nat : e = Clusters(task.end)
    BY <1>0, ClustersGrow
  <1>3. /\ task.start /\ num[c] + skip = index /\ index + left = e /\ e <= last /\ e <= BufSize
        /\ left > 0
    <2>1. Clusters(task.end) <= Clusters(MaxSize) /\ Clusters(MaxSize) \in Nat
      BY <1>0, ClustersGrow, FilesAssumption
    <2>2. e <= BufSize
      BY <1>2, <2>1, FatAssumption
    <2> QED BY <1>0, <1>2, <1>c, <1>l, <1>n, <1>s, <2>2 DEF TransferOK
  <1>4. /\ got.buf \in [1 .. BufSize -> FatIndex]
        /\ got.result \in 0 .. BufSize - 1 /\ n \in 1 .. BufSize
        /\ got.result = 0 => n = BufSize
        /\ got.result # 0 => n = got.result
        /\ \A i \in 1 .. n : got.buf[i] \in own[f]
        /\ Forward(fat, got.buf, n)
        /\ got.result # 0 => fat[got.buf[got.result]] = EOF
    <2>1. OwnersOK(own) /\ CacheOK(own) /\ CacheIsChain
      BY <1>0 DEF Owns, Lossless
    <2>2. TypeOK /\ f \in File /\ c \in own[f]
      BY <1>1
    <2>3. /\ got.buf \in [1 .. BufSize -> FatIndex]
          /\ got.result \in 0 .. BufSize - 1 /\ n \in 1 .. BufSize
          /\ got.result = 0 => n = BufSize
          /\ got.result # 0 => n = got.result
          /\ Buffered(fat, own[f], dirent[f].start, got.buf, n)
          /\ CacheIsChain => /\ Forward(fat, got.buf, n)
                             /\ got.result # 0 => fat[got.buf[got.result]] = EOF
      BY ONLY <1>g, <1>z, <2>1, <2>2, ReadBuffer
    <2> QED BY <2>1, <2>3 DEF Buffered
  <1>5. got.buf[1] = c
    BY <1>1, <1>g, BufferBegins DEF Owns, TransferOK
  <1>6. \A i \in 1 .. n : num[got.buf[i]] = num[c] + (i - 1)
    <2>1. n \in Nat /\ \A i \in 1 .. n : got.buf[i] \in Cluster
      BY <1>1, <1>4
    <2>2. \A i \in 1 .. n : num[got.buf[i]] = num[got.buf[1]] + (i - 1)
      BY <1>1, <1>4, <2>1, BufferGraded
    <2> QED BY <1>5, <2>2
  <1>k. PICK k \in Nat : k = num[c]
    BY <1>1 DEF Graded
  <1>7. skip + left <= n
    <2>1. CASE got.result = 0
      BY <1>3, <1>4, <1>k, <2>1, FatAssumption
    <2>2. CASE got.result # 0
      <3>1. n \in 1 .. n /\ fat[got.buf[n]] = EOF
        BY <1>4, <2>2
      <3>2. num[got.buf[n]] + 1 = last /\ num[got.buf[n]] = k + (n - 1)
        BY <1>1, <1>4, <1>6, <1>k, <3>1 DEF EndsAt
      <3>3. last = k + n
        BY <1>4, <3>2
      <3> QED BY <1>3, <1>4, <1>k, <3>3
    <2> QED BY <2>1, <2>2
  <1>8. Used(n) = left /\ ~ (skip >= BufSize)
    <2>1. n > skip /\ n - skip >= left /\ n <= BufSize
      BY <1>3, <1>4, <1>7
    <2>2. Used(n) = IF n - skip < left THEN n - skip ELSE left
      BY <1>n, <2>1 DEF Used
    <2> QED BY <1>4, <2>1, <2>2, FatAssumption
  <1>9. /\ UNCHANGED <<fat, handle>>
        /\ cbuf' = got.buf /\ lastChain' = c
        /\ touched' = touched \union {<<index + i, got.buf[skip + 1 + i]>> : i \in 0 .. left - 1}
        /\ task'.op = "io" /\ task'.slot = s /\ task'.end = task.end /\ task'.grown = task.grown
        /\ task'.left = 0
    <2>1. got = GetClusterChain(task.cluster, task.start)
      BY <1>3, <1>c, <1>g
    <2>2. /\ UNCHANGED <<fat, handle>> /\ Loaded(got, c)
          /\ touched' = touched \union {<<index + i, got.buf[skip + 1 + i]>> : i \in 0 .. left - 1}
          /\ \E x, i, l : task' = [task EXCEPT !.cluster = x, !.start = FALSE, !.skip = 0,
                                     !.index = i, !.left = l]
                           /\ l = IF got.result = 0 THEN left - left ELSE 0
      <3> DEFINE read == GetClusterChain(task.cluster, task.start)
                 size == ChainSize(read.result)
                 next == IF read.result = 0 THEN read.buf[BufSize] ELSE task.cluster
                 used == Used(size)
      <3>1. /\ UNCHANGED <<fat, handle>> /\ Loaded(read, task.cluster)
            /\ \/ task.skip >= BufSize
               \/ /\ touched' = touched \union
                       {<<task.index + i, read.buf[task.skip + 1 + i]>> : i \in 0 .. used - 1}
                  /\ task' = [task EXCEPT !.cluster = next, !.start = FALSE, !.skip = 0,
                                 !.index = @ + used,
                                 !.left = IF read.result = 0 THEN @ - used ELSE 0]
        BY DEF Transfer
      <3>2. read = got /\ size = n
        BY <1>z, <2>1
      <3> HIDE DEF read, size, next
      <3>3. used = left /\ ~ (task.skip >= BufSize)
        BY <1>8, <1>n, <3>2
      <3> HIDE DEF used
      <3>4. task.index = index /\ task.skip = skip /\ task.left = left /\ task.cluster = c
        BY <1>c, <1>n
      <3>5. touched' = touched \union {<<index + i, got.buf[skip + 1 + i]>> : i \in 0 .. left - 1}
        BY <3>1, <3>2, <3>3, <3>4
      <3>6. task' = [task EXCEPT !.cluster = next, !.start = FALSE, !.skip = 0,
                       !.index = task.index + used,
                       !.left = IF got.result = 0 THEN task.left - used ELSE 0]
        BY <1>0, <3>1, <3>2, <3>3 DEF IOTask
      <3> QED BY <3>1, <3>2, <3>3, <3>4, <3>5, <3>6
    <2>3. /\ task'.op = "io" /\ task'.slot = s /\ task'.end = task.end /\ task'.grown = task.grown
          /\ task'.left = 0
      BY <1>0, <1>n, <1>s, <2>2 DEF IOTask
    <2> QED BY <2>2, <2>3 DEF Loaded
  <1>10. LengthOf(s)' = LengthOf(s)
    BY <1>0, <1>9, <1>s DEF LengthOf
  <1>11. ASSUME NEW t \in touched' PROVE \E x \in own[f] : t = <<num[x], x>>
    <2>1. CASE t \in touched
      BY <1>0, <1>f, <1>s, <2>1 DEF TransferOK
    <2>2. CASE \E i \in 0 .. left - 1 : t = <<index + i, got.buf[skip + 1 + i]>>
      <3>1. PICK i \in 0 .. left - 1 : t = <<index + i, got.buf[skip + 1 + i]>>
        BY <2>2
      <3>4. index = k + skip /\ i \in Nat /\ i < left
        BY <1>3, <1>k
      <3>2. skip + 1 + i \in 1 .. n /\ k + ((skip + 1 + i) - 1) = index + i
        BY <1>4, <1>7, <3>4
      <3>3. got.buf[skip + 1 + i] \in own[f] /\ num[got.buf[skip + 1 + i]] = index + i
        BY <1>4, <1>6, <1>k, <3>2
      <3> QED BY <3>1, <3>3
    <2> QED BY <1>9, <2>1, <2>2
  <1>12. task'.end = task.end /\ Clusters(task'.end) <= LengthOf(s)'
    BY <1>2, <1>3, <1>9, <1>10, <1>l
  <1> QED BY <1>5, <1>9, <1>11, <1>12, <1>f DEF TransferOK

(* fat_setFatDirChain.                                                     *)
LEMMA SetFatDirChainCounts ==
  ASSUME TypeOK, NEW own, Owns(own), NEW num, TransferOK(own, num), SetFatDirChain
  PROVE  TransferOK(own, num)'
  <1>0. /\ task.op = "table" /\ task.slot \in Slot
    <2>1. task.op = "table" /\ task \in TableTask
      BY TaskIs DEF SetFatDirChain
    <2> QED BY <2>1 DEF TableTask
  <1>f. PICK f : f = handle[task.slot].file
    OBVIOUS
  <1>1. f \in File /\ task.cluster \in own[f]
    <2>1. handle[task.slot].open /\ task.cluster \in own[f]
      BY <1>0, <1>f DEF Owns, TaskOK
    <2>2. handle[task.slot] \in OpenFile
      BY <1>0, <2>1, OpenIs
    <2> QED BY <1>f, <2>1, <2>2 DEF OpenFile
  <1>2. GetClusterChain(task.cluster, TRUE).buf[1] = task.cluster
    BY <1>1, BufferBegins DEF Owns, TransferOK
  <1>3. /\ cbuf' = GetClusterChain(task.cluster, TRUE).buf /\ lastChain' = task.cluster
        /\ UNCHANGED touched /\ touched = {}
    BY <1>0 DEF SetFatDirChain, Loaded, TransferOK
  <1>4. task'.op # "io"
    <2>1. task' = Idle \/ \E x, i : task' = [task EXCEPT !.cluster = x, !.index = i]
      BY DEF SetFatDirChain
    <2>2. task \in TableTask
      BY <1>0, TaskIs
    <2>3. ASSUME NEW x, NEW i, task' = [task EXCEPT !.cluster = x, !.index = i]
          PROVE  task'.op # "io"
      BY <2>2, <2>3 DEF TableTask
    <2>4. task' = Idle => task'.op # "io"
      BY DEF Idle
    <2> QED BY <2>1, <2>3, <2>4
  <1> QED BY <1>2, <1>3, <1>4 DEF TransferOK

(* Steps after which no transfer is under way, and that leave cbuf alone   *)
(* or forget what is in it.                                                *)
LEMMA OthersCount ==
  ASSUME NEW own, NEW num, TransferOK(own, num), NEW o, NEW p,
         task'.op # "io", touched' = {},
         UNCHANGED <<cbuf, lastChain>> \/ lastChain' \notin Cluster
  PROVE  TransferOK(o, p)'
  BY DEF TransferOK

(* A step that changes nothing.                                            *)
LEMMA TransferOKStays ==
  ASSUME NEW own, NEW num, TransferOK(own, num), UNCHANGED vars
  PROVE  TransferOK(own, num)'
  BY DEF TransferOK, vars, fatVars, LengthOf

(* Calls that begin with the directory, and the end of a transfer.         *)
LEMMA CallsCount ==
  ASSUME TypeOK, NEW own, NEW num, TransferOK(own, num), NEW o, NEW p,
         \/ \E s \in Slot, f \in File : Open(s, f) \/ OpenTruncated(s, f) \/ Create(s, f)
         \/ \E s \in Slot : Close(s)
         \/ \E f \in File : Remove(f)
         \/ TransferDone \/ DeleteClusterChain \/ ChangeMedium
  PROVE  TransferOK(o, p)'
  <1>1. CASE \E s \in Slot, f \in File : Open(s, f) \/ OpenTruncated(s, f) \/ Create(s, f)
    <2>1. task.op = "none" /\ UNCHANGED <<touched, cbuf, lastChain>> /\ task'.op \in {"table", "delete"}
      BY <1>1, IdleIs DEF Open, OpenTruncated, Create, ReadTable, fatVars, chainVars
    <2>2. touched' = {}
      BY <2>1 DEF TransferOK
    <2> QED BY <2>1, <2>2, OthersCount
  <1>2. CASE \E s \in Slot : Close(s)
    <2>1. task.op = "none" /\ UNCHANGED <<touched, cbuf, lastChain, task>>
      BY <1>2, IdleIs DEF Close, fatVars
    <2>2. touched' = {}
      BY <2>1 DEF TransferOK
    <2> QED BY <2>1, <2>2, OthersCount
  <1>3. CASE \E f \in File : Remove(f)
    <2>1. task.op = "none" /\ UNCHANGED <<touched, cbuf, lastChain>> /\ task'.op = "delete"
      BY <1>3, IdleIs DEF Remove, fatVars
    <2>2. touched' = {}
      BY <2>1 DEF TransferOK
    <2> QED BY <2>1, <2>2, OthersCount
  <1>4. CASE TransferDone
    <2>1. touched' = {} /\ UNCHANGED <<cbuf, lastChain>> /\ task'.op # "io"
      BY <1>4 DEF TransferDone, EndIO, ReadTable, Idle, fatVars
    <2> QED BY <2>1, OthersCount
  <1>5. CASE DeleteClusterChain
    <2>1. task.op = "delete" /\ task \in DeleteTask
      BY <1>5, TaskIs DEF DeleteClusterChain
    <2>2. UNCHANGED touched /\ lastChain' = 0
      BY <1>5 DEF DeleteClusterChain
    <2>3. \/ \E c : task' = [task EXCEPT !.cluster = c]
          \/ task' = Idle
          \/ \E s, c : task' = [op |-> "table", slot |-> s, cluster |-> c, index |-> 0]
      BY <1>5 DEF DeleteClusterChain, ReadTable
    <2>4. task'.op # "io"
      <3>1. ASSUME NEW c, task' = [task EXCEPT !.cluster = c] PROVE task'.op # "io"
        BY <2>1, <3>1 DEF DeleteTask
      <3>2. task' = Idle => task'.op # "io"
        BY DEF Idle
      <3>3. ASSUME NEW s, NEW c, task' = [op |-> "table", slot |-> s, cluster |-> c, index |-> 0]
            PROVE  task'.op # "io"
        BY <3>3
      <3> QED BY <2>3, <3>1, <3>2, <3>3
    <2>5. touched' = {} /\ lastChain' \notin Cluster
      BY <2>1, <2>2, ClusterIs DEF TransferOK
    <2> QED BY <2>4, <2>5, OthersCount
  <1>6. CASE ChangeMedium
    <2>1. task.op = "none" /\ UNCHANGED <<touched, task>> /\ lastChain' = NoChain
      BY <1>6 DEF ChangeMedium, Remount, Idle
    <2>2. touched' = {} /\ lastChain' \notin Cluster
      BY <2>1, ClusterIs DEF TransferOK
    <2> QED BY <2>1, <2>2, OthersCount
  <1> QED BY <1>1, <1>2, <1>3, <1>4, <1>5, <1>6

(* Every step keeps the count, with the clusters numbered as before or,    *)
(* after a change of the table, anew.                                      *)
LEMMA TransferOKStep ==
  ASSUME Clusters(MaxSize) <= BufSize, TypeOK, ~ ranOut, ~ ranOut',
         NEW own, Owns(own), NEW num, Measured(own, num), TransferOK(own, num),
         NEW o, Owns(o)', NEW p, Measured(o, p)',
         (o = own /\ p = num) \/ TableChanges, [Next]_vars
  PROVE  TransferOK(o, p)'
  <1>1. CASE TableChanges
    <2>1. CASE Grow
      BY <2>1, GrowCounts
    <2>2. CASE DeleteClusterChain \/ ChangeMedium \/ \E s \in Slot, f \in File : Create(s, f)
      BY <2>2, CallsCount
    <2> QED BY <1>1, <2>1, <2>2 DEF TableChanges
  <1>2. CASE ~ TableChanges
    <2>0. o = own /\ p = num
      BY <1>2
    <2>1. CASE UNCHANGED vars
      BY <2>0, <2>1, TransferOKStays
    <2>2. CASE \E s \in Slot : Read(s)
      BY <2>0, <2>2, ReadCounts
    <2>3. CASE \E s \in Slot : Write(s)
      <3>1. CallSized(num)'
        BY <2>0 DEF Measured
      <3> QED BY <2>0, <2>3, <3>1, WriteCounts
    <2>4. CASE SetFatDirChain
      BY <2>0, <2>4, SetFatDirChainCounts
    <2>5. CASE Transfer
      BY <2>0, <2>5, TransferCounts
    <2>6. ~ GrowFails
      BY DEF GrowFails
    <2>7. CASE \/ \E s \in Slot, f \in File : Open(s, f) \/ OpenTruncated(s, f) \/ Create(s, f)
               \/ \E s \in Slot : Close(s)
               \/ \E f \in File : Remove(f)
               \/ TransferDone
      BY <2>7, CallsCount
    <2> QED BY <1>2, <2>1, <2>2, <2>3, <2>4, <2>5, <2>6, <2>7 DEF Next, Call, Work, TableChanges
  <1> QED BY <1>1, <1>2

(* As long as no write ran out of space.                                   *)
TransferInv ==
  ~ ranOut => \E own, num : Owns(own) /\ Measured(own, num) /\ TransferOK(own, num)

(* Every step keeps it.                                                    *)
LEMMA TransferInvStep ==
  ASSUME Clusters(MaxSize) <= BufSize, ~ ByPath, \A m \in Media : Sized(m),
         FilesInv, TransferInv, [Next]_vars, FilesInv'
  PROVE  TransferInv'
  <1> SUFFICES ASSUME ~ ranOut' PROVE \E o, p : (Owns(o) /\ Measured(o, p) /\ TransferOK(o, p))'
    BY DEF TransferInv
  <1>1. TypeOK /\ ~ ranOut
    BY RanOutStays DEF FilesInv
  <1>2. PICK own, num : Owns(own) /\ Measured(own, num) /\ TransferOK(own, num)
    BY <1>1 DEF TransferInv
  <1>3. PICK o, p : (Owns(o) /\ Measured(o, p))' /\ ((o = own /\ p = num) \/ TableChanges)
    BY <1>2, MeasuredStep
  <1>4. TransferOK(o, p)'
    BY <1>1, <1>2, <1>3, TransferOKStep
  <1> QED BY <1>3, <1>4

(* The first medium.                                                       *)
LEMMA TransferInvInit ==
  ASSUME Init, \A m \in Media : Sized(m)
  PROVE  TransferInv
  <1>1. PICK own, num : Owns(own) /\ Measured(own, num)
    <2>1. SeekInv /\ ~ ranOut
      BY InitMeasured DEF Init
    <2> QED BY <2>1 DEF SeekInv
  <1>2. lastChain \notin Cluster /\ touched = {} /\ task.op # "io"
    BY ClusterIs DEF Init, Idle
  <1> QED BY <1>1, <1>2 DEF TransferInv, TransferOK

(* A read or write uses the clusters that hold its positions, if a file    *)
(* has no more clusters than cbuf has room for (MAX_DIR_CLUSTER): then     *)
(* fat_readFile and fat_writeFile end with the first buffer.  For longer   *)
(* files it is not so, because fat_getClusterChain takes a chain that was  *)
(* read without its first cluster for one with it.                         *)
THEOREM TransfersUseTheirClusters ==
  ASSUME Clusters(MaxSize) <= BufSize, ~ ByPath, \A m \in Media : Blank(m)
  PROVE  Spec => [](~ ranOut => UsesItsClusters)
  <1>1. \A m \in Media : Sized(m) /\ Sound(m)
    BY BlankIsSized, BlankIsSound
  <1>2. [Next]_vars => [Next /\ StackNotStale]_vars
    BY BlankIsCareful
  <1>3. CarefulSpec => [](FilesInv /\ Truncation)
    BY <1>1, FilesInvariant
  <1>4. Init => TransferInv
    BY <1>1, TransferInvInit
  <1>5. FilesInv /\ TransferInv /\ [Next]_vars /\ FilesInv' => TransferInv'
    BY <1>1, TransferInvStep
  <1>6. FilesInv /\ TransferInv => (~ ranOut => UsesItsClusters)
    BY TransferOKImplies DEF FilesInv, TransferInv
  <1> QED BY <1>2, <1>3, <1>4, <1>5, <1>6, PTL DEF Spec, CarefulSpec
=================================================================================
