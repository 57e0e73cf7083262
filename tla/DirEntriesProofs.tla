---------------------------- MODULE DirEntriesProofs ----------------------------
(***************************************************************************)
(* Proofs about DirEntries, for any names, sizes of directories and        *)
(* numbers of entries: where the root directory begins with a label, names *)
(* are stored and removed whole, the places that were collected suffice,   *)
(* and the directories are the sets of names that DirNames promises.       *)
(***************************************************************************)
EXTENDS DirEntries, TLAPS, FiniteSetTheorems, SequenceTheorems

LEMMA FirstIs ==
  ASSUME NEW S, S \subseteq Nat, S # {}
  PROVE  First(S) \in S /\ \A j \in S : First(S) <= j
  <1> DEFINE T == {1 .. i : i \in S}
  <1>1. T \subseteq FiniteSubsetsOf(Nat) /\ T # {}
    <2>1. \A i \in S : 1 .. i \subseteq Nat /\ IsFiniteSet(1 .. i)
      BY FS_Interval
    <2> QED BY <2>1 DEF FiniteSubsetsOf
  <1>2. PICK i \in S : \A j \in S : ~ (1 .. j \subseteq 1 .. i /\ 1 .. j # 1 .. i)
    <2>1. PICK x \in T : \A y \in T : ~ (<<y, x>> \in StrictSubsetOrdering(Nat))
      BY <1>1, FS_StrictSubsetOrderingWellFounded, WFMin
    <2>2. PICK i \in S : x = 1 .. i
      OBVIOUS
    <2>3. \A j \in S : 1 .. j \in T /\ 1 .. j \in SUBSET Nat
      OBVIOUS
    <2> QED BY <2>1, <2>2, <2>3 DEF StrictSubsetOrdering
  <1>4. \A j \in S : i <= j
    <2> SUFFICES ASSUME NEW j \in S, j < i PROVE FALSE
      OBVIOUS
    <2>1. 1 .. j \subseteq 1 .. i
      OBVIOUS
    <2>2. i \in 1 .. i /\ i \notin 1 .. j
      OBVIOUS
    <2> QED BY <1>2, <2>1, <2>2
  <1>3. \E k \in S : \A j \in S : k <= j
    BY <1>4
  <1> QED BY <1>3 DEF First

LEMMA LastIs ==
  ASSUME NEW m \in Nat, NEW S, S \subseteq 0 .. m, S # {}
  PROVE  Last(S) \in S /\ \A j \in S : j <= Last(S)
  <1> DEFINE T == {m - i : i \in S}
  <1>1. First(T) \in T /\ \A j \in T : First(T) <= j
    <2>1. \A i \in S : m - i \in Nat
      OBVIOUS
    <2>2. T \subseteq Nat /\ T # {}
      BY <2>1
    <2> HIDE DEF T
    <2> QED BY <2>2, FirstIs
  <1>2. PICK k \in S : First(T) = m - k
    BY <1>1
  <1>3. \A j \in S : j <= k
    <2> SUFFICES ASSUME NEW j \in S PROVE j <= k
      OBVIOUS
    <2>1. m - k <= m - j
      BY <1>1, <1>2
    <2> QED BY <2>1
  <1> QED BY <1>3 DEF Last
-----------------------------------------------------------------------------
(* What the type of an entry says of it.                                   *)
LEMMA EntryIs ==
  ASSUME NEW e \in Entry
  PROVE  /\ e.type \in {"end", "deleted", "label", "dot", "lfn", "sfn"}
         /\ e.type = "end" <=> e = End
         /\ e.type = "deleted" <=> e = Deleted
         /\ e.type = "lfn" => /\ e.name \in Name /\ e.part \in 1 .. DeStackSize - 1
                              /\ e.part \in Nat \ {0} /\ e = Lfn(e.name, e.part)
         /\ e.type = "sfn" => e.name \in Name /\ e.kind \in Kind /\ e = Sfn(e.name, e.kind)
  <1>1. CASE e \in {End, Deleted, Label, Dot}
    BY <1>1 DEF End, Deleted, Label, Dot
  <1>2. CASE e \in {Lfn(n, p) : n \in Name, p \in 1 .. DeStackSize - 1}
    <2>1. PICK n \in Name, p \in 1 .. DeStackSize - 1 : e = Lfn(n, p)
      BY <1>2
    <2>2. e.type = "lfn" /\ e.name = n /\ e.part = p
      BY <2>1 DEF Lfn
    <2>3. p \in Nat \ {0}
      BY DirAssumption
    <2> QED BY <2>1, <2>2, <2>3 DEF End, Deleted
  <1>3. CASE e \in {Sfn(n, k) : n \in Name, k \in Kind}
    <2>1. PICK n \in Name, k \in Kind : e = Sfn(n, k)
      BY <1>3
    <2>2. e.type = "sfn" /\ e.name = n /\ e.kind = k
      BY <2>1 DEF Sfn
    <2> QED BY <2>1, <2>2 DEF End, Deleted
  <1> QED BY <1>1, <1>2, <1>3 DEF Entry

LEMMA FixedEntries ==
  /\ {End, Deleted, Label, Dot} \subseteq Entry
  /\ End.type = "end" /\ Deleted.type = "deleted" /\ Label.type = "label" /\ Dot.type = "dot"
  BY DEF Entry, End, Deleted, Label, Dot

LEMMA LfnIs ==
  \A n \in Name : \A p \in 1 .. DeStackSize - 1 :
    /\ Lfn(n, p) \in Entry /\ Lfn(n, p).type = "lfn"
    /\ Lfn(n, p).name = n /\ Lfn(n, p).part = p
  BY DEF Entry, Lfn

LEMMA SfnIs ==
  \A n \in Name : \A k \in Kind :
    /\ Sfn(n, k) \in Entry /\ Sfn(n, k).type = "sfn"
    /\ Sfn(n, k).name = n /\ Sfn(n, k).kind = k
  BY DEF Entry, Sfn

LEMMA PartsIs ==
  ASSUME NEW n \in Name
  PROVE  Parts[n] \in Nat \ {0} /\ Parts[n] \in 1 .. DeStackSize - 1
  BY DirAssumption
-----------------------------------------------------------------------------
(* One directory.  Besides what the properties say of it: it begins with   *)
(* an entry that is no name's, and an entry of a long name is one of the   *)
(* parts that the name has.                                                *)
Headed(s) == \A i \in DOMAIN s : i = 1 => s[i].type \in {"label", "dot"}

Whole(s) ==
  \A i \in DOMAIN s :
    /\ s[i].type = "sfn" =>
         /\ i > Parts[s[i].name]
         /\ \A p \in 1 .. Parts[s[i].name] : s[i - p] = Lfn(s[i].name, p)
    /\ s[i].type = "lfn" =>
         /\ s[i].part <= Parts[s[i].name]
         /\ i + s[i].part <= Len(s)
         /\ \E k \in Kind : s[i + s[i].part] = Sfn(s[i].name, k)

Visible(s) == \A i, j \in DOMAIN s : i < j /\ s[i] = End => s[j] = End

Once(s) ==
  \A i, j \in DOMAIN s :
    s[i].type = "sfn" /\ s[j].type = "sfn" /\ s[i].name = s[j].name => i = j

Fits(s) == s \in Seq(Entry) /\ Len(s) <= MaxRecord

GoodDirectory(s) == Fits(s) /\ Headed(s) /\ Whole(s) /\ Visible(s) /\ Once(s)

LEMMA EntryAt ==
  ASSUME NEW s \in Seq(Entry)
  PROVE  /\ Len(s) \in Nat /\ DOMAIN s = 1 .. Len(s)
         /\ \A i \in 1 .. Len(s) : s[i] \in Entry
  OBVIOUS

(* The scan sees all entries but those that were never used, and one of    *)
(* these.                                                                  *)
LEMMA RecordsAre ==
  ASSUME NEW s, Fits(s), Visible(s)
  PROVE  LET N == RecordCount(s)
         IN  /\ N \in 0 .. Len(s)
             /\ \A i \in 1 .. N - 1 : s[i] # End
             /\ \A i \in N + 1 .. Len(s) : s[i] = End
             /\ N < Len(s) => s[N] = End /\ N # 0
  <1> DEFINE E == {i \in DOMAIN s : s[i] = End}
             N == RecordCount(s)
  <1>1. Len(s) \in Nat /\ DOMAIN s = 1 .. Len(s) /\ Len(s) <= MaxRecord /\ MaxRecord \in Nat
    BY DirAssumption DEF Fits
  <1> DEFINE n == IF E = {} THEN Len(s) ELSE First(E)
  <1>0. N = IF n < MaxRecord THEN n ELSE MaxRecord
    BY DEF RecordCount
  <1> HIDE DEF N
  <1>2. CASE E = {}
    <2>1. N = Len(s)
      <3>1. n = Len(s)
        BY <1>2, Zenon
      <3> HIDE DEF E, n
      <3>2. Len(s) \in Nat /\ Len(s) <= MaxRecord /\ MaxRecord \in Nat
        BY <1>1
      <3> QED BY <1>0, <3>1, <3>2
    <2>2. \A i \in DOMAIN s : s[i] # End
      BY <1>2, Zenon
    <2> QED BY <1>1, <2>1, <2>2 DEF N
  <1>3. CASE E # {}
    <2>1. First(E) \in E /\ \A j \in E : First(E) <= j
      <3>1. E \subseteq Nat
        BY <1>1
      <3> QED BY <1>3, <3>1, FirstIs
    <2>2. N = First(E)
      <3>1. n = First(E)
        BY <1>3, Zenon
      <3> HIDE DEF n
      <3> QED BY <1>0, <1>1, <2>1, <3>1
    <2>3. N \in 1 .. Len(s) /\ s[N] = End /\ \A j \in 1 .. Len(s) : s[j] = End => N <= j
      BY <1>1, <2>1, <2>2
    <2>4. \A i \in N + 1 .. Len(s) : s[i] = End
      BY <1>1, <2>3 DEF Visible
    <2> QED BY <1>1, <2>3, <2>4 DEF N
  <1> QED BY <1>2, <1>3

LEMMA NamesAreSeen ==
  ASSUME NEW s, Fits(s), Visible(s), NEW i \in DOMAIN s, s[i].type # "end"
  PROVE  i \in 1 .. RecordCount(s)
  <1>1. i \in 1 .. Len(s) /\ s[i] # End
    BY FixedEntries DEF Fits
  <1>2. /\ RecordCount(s) \in 0 .. Len(s)
        /\ \A j \in RecordCount(s) + 1 .. Len(s) : s[j] = End
    BY RecordsAre
  <1> QED BY <1>1, <1>2

(* In front of the entries of a name is one that is of no long name.       *)
LEMMA BeforeName ==
  ASSUME NEW s, GoodDirectory(s), NEW h \in DOMAIN s, s[h].type = "sfn"
  PROVE  LET n == s[h].name
             g == h - Parts[n] - 1
         IN  /\ n \in Name /\ Parts[n] \in Nat \ {0} /\ g \in 1 .. Len(s) /\ g \in Nat \ {0}
             /\ h \in Nat /\ h <= Len(s)
             /\ s[g].type \notin {"lfn", "end"}
             /\ \A i \in g + 1 .. h - 1 : s[i].type = "lfn" /\ s[i] = Lfn(n, h - i)
  <1> DEFINE n == s[h].name
             g == h - Parts[n] - 1
  <1>1. /\ Len(s) \in Nat /\ DOMAIN s = 1 .. Len(s) /\ \A i \in 1 .. Len(s) : s[i] \in Entry
        /\ h \in 1 .. Len(s)
    BY EntryAt DEF GoodDirectory, Fits
  <1>2. n \in Name /\ Parts[n] \in Nat \ {0} /\ Parts[n] \in 1 .. DeStackSize - 1
    BY <1>1, EntryIs, PartsIs
  <1>3. h > Parts[n] /\ \A p \in 1 .. Parts[n] : s[h - p] = Lfn(n, p)
    BY DEF GoodDirectory, Whole
  <1>4. \A i \in g + 1 .. h - 1 : s[i].type = "lfn" /\ s[i] = Lfn(n, h - i)
    <2> SUFFICES ASSUME NEW i \in g + 1 .. h - 1 PROVE s[i].type = "lfn" /\ s[i] = Lfn(n, h - i)
      OBVIOUS
    <2>1. h - i \in 1 .. Parts[n] /\ h - (h - i) = i
      BY <1>1, <1>2
    <2>2. s[i] = Lfn(n, h - i)
      BY <1>3, <2>1
    <2> DEFINE p == h - i
    <2>3. p \in 1 .. DeStackSize - 1
      BY <1>2, <2>1, DirAssumption
    <2> HIDE DEF n, p
    <2>4. Lfn(n, p).type = "lfn"
      BY <1>2, <2>3, LfnIs
    <2> QED BY <2>2, <2>4 DEF p
  <1>5. g >= 1
    <2> SUFFICES ASSUME g = 0 PROVE FALSE
      BY <1>1, <1>2, <1>3
    <2>1. 1 \in g + 1 .. h - 1 /\ 1 \in DOMAIN s
      BY <1>1, <1>2
    <2>2. s[1].type = "lfn"
      BY <1>4, <2>1
    <2> QED BY <2>1, <2>2 DEF GoodDirectory, Headed
  <1>6. g \in 1 .. Len(s) /\ g < h
    BY <1>1, <1>2, <1>5
  <1>7. s[g].type # "end"
    <2> SUFFICES ASSUME s[g].type = "end" PROVE FALSE
      OBVIOUS
    <2>1. s[g] = End
      BY <1>1, <1>6, EntryIs
    <2>2. s[h] = End
      BY <1>1, <1>6, <2>1 DEF GoodDirectory, Visible
    <2> QED BY <2>2, FixedEntries
  <1>8. s[g].type # "lfn"
    <2> SUFFICES ASSUME s[g].type = "lfn" PROVE FALSE
      OBVIOUS
    <2> DEFINE m == s[g].name
               p == s[g].part
               j == g + p
    <2>1. /\ m \in Name /\ p \in 1 .. DeStackSize - 1 /\ p \in Nat \ {0} /\ Parts[m] \in Nat \ {0}
          /\ Parts[m] \in 1 .. DeStackSize - 1
      BY <1>1, <1>6, EntryIs, PartsIs
    <2>2. p <= Parts[m] /\ j \in 1 .. Len(s) /\ \E k \in Kind : s[j] = Sfn(m, k)
      <3>1. /\ p <= Parts[m] /\ j <= Len(s) /\ \E k \in Kind : s[j] = Sfn(m, k)
        BY <1>1, <1>6 DEF GoodDirectory, Whole
      <3> HIDE DEF g
      <3> QED BY <1>1, <1>6, <2>1, <3>1
    <2>3. s[j].type = "sfn" /\ s[j].name = m
      BY <2>1, <2>2, SfnIs
    <2> HIDE DEF j, p, m, n, g
    <2>4. CASE j < h
      <3>1. j \in g + 1 .. h - 1
        BY <1>1, <1>6, <2>1, <2>2, <2>4 DEF j
      <3> QED BY <1>4, <2>3, <3>1
    <2>5. CASE j = h
      <3>1. m = n
        BY <2>3, <2>5 DEF n
      <3>2. p = h - g
        BY <1>1, <1>6, <2>1, <2>5 DEF j
      <3>3. h - g = Parts[n] + 1
        BY <1>1, <1>2 DEF g
      <3> QED BY <1>2, <2>1, <2>2, <3>1, <3>2, <3>3
    <2>6. CASE j > h
      <3>1. \A q \in 1 .. Parts[m] : s[j - q] = Lfn(m, q)
        BY <1>1, <2>2, <2>3 DEF GoodDirectory, Whole
      <3>2. j - h \in 1 .. Parts[m] /\ j - (j - h) = h
        <4>1. j = g + p /\ p \in Nat /\ Parts[m] \in Nat /\ p <= Parts[m]
          BY <2>1, <2>2 DEF j
        <4>2. g \in Nat /\ h \in Nat /\ g < h
          BY <1>1, <1>6
        <4> QED BY ONLY <4>1, <4>2, <2>6
      <3>3. s[h] = Lfn(m, j - h) /\ j - h \in 1 .. DeStackSize - 1
        BY <2>1, <3>1, <3>2, DirAssumption
      <3> QED BY <2>1, <3>3, LfnIs
    <2>7. j < h \/ j = h \/ j > h
      <3>1. h \in Int /\ j \in Int
        BY <1>1, <2>2
      <3> QED BY ONLY <3>1
    <2> QED BY ONLY <2>4, <2>5, <2>6, <2>7
  <1> QED BY <1>1, <1>2, <1>4, <1>6, <1>7, <1>8
-----------------------------------------------------------------------------
(* The places of the entries of a long name in front of entry h of         *)
(* directory d, and with that entry.                                       *)
LongPlaces(d, h, n) == [i \in 1 .. Parts[n] |-> <<d, h - Parts[n] + i - 1>>]
NamePlaces(d, h, n) == Append(LongPlaces(d, h, n), <<d, h>>)

LEMMA LastIsOnly ==
  ASSUME NEW m \in Nat, NEW S, S \subseteq 0 .. m, NEW g \in S, \A i \in S : i <= g
  PROVE  Last(S) = g
  <1>1. Last(S) \in S /\ \A j \in S : j <= Last(S)
    BY LastIs
  <1>2. Last(S) \in 0 .. m /\ g \in 0 .. m
    BY <1>1
  <1>3. Last(S) <= g /\ g <= Last(S)
    BY <1>1
  <1> QED BY <1>2, <1>3

LEMMA PlacesAreSeq ==
  ASSUME NEW d, NEW k \in Nat, NEW from \in Nat
  PROVE  [i \in 1 .. k |-> <<d, from + i - 1>>] \in Seq({d} \X Int)
  <1> DEFINE places == [i \in 1 .. k |-> <<d, from + i - 1>>]
  <1>1. places \in [1 .. k -> {d} \X Int]
    OBVIOUS
  <1> HIDE DEF places
  <1>2. places \in Seq({d} \X Int)
    BY <1>1
  <1> QED BY <1>2 DEF places

(* Before a short name the places are those of its long name and no other, *)
(* whatever the scans before have left.                                    *)
LEMMA CollectedBefore ==
  ASSUME NEW d, GoodDirectory(slots[d]), NEW stack,
         NEW h \in DOMAIN slots[d], slots[d][h].type = "sfn"
  PROVE  Collected(stack, d, h - 1) = LongPlaces(d, h, slots[d][h].name)
  <1> DEFINE s == slots[d]
             n == s[h].name
             g == h - Parts[n] - 1
             R == {i \in 1 .. h - 1 : s[i].type \notin {"lfn", "end"}}
  <1>1. /\ Parts[n] \in Nat \ {0} /\ g \in Nat \ {0} /\ h \in Nat
        /\ s[g].type \notin {"lfn", "end"}
        /\ \A i \in g + 1 .. h - 1 : s[i].type = "lfn"
    BY BeforeName
  <1> HIDE DEF s, n
  <1>2. /\ h - 1 \in g + 1 .. h - 1 /\ h - 1 > 0 /\ h - 1 \in Nat
        /\ g \in 1 .. h - 1
    BY <1>1
  <1>3. s[h - 1] # End
    BY <1>1, <1>2, FixedEntries
  <1>4. R # {} /\ Last(R) = g
    <2>1. g \in R /\ R \subseteq 0 .. h - 1
      BY <1>1, <1>2
    <2>2. \A i \in R : i <= g
      <3> SUFFICES ASSUME NEW i \in R, i > g PROVE FALSE
        BY <1>1, <1>2
      <3>1. i \in g + 1 .. h - 1
        BY <1>1, <1>2
      <3> QED BY <1>1, <3>1
    <2> HIDE DEF R, g
    <2> QED BY <1>2, <2>1, <2>2, LastIsOnly
  <1> DEFINE span == [i \in 1 .. (h - 1) - (g + 1) + 1 |-> <<d, (g + 1) + i - 1>>]
  <1>5. Collected(stack, d, h - 1) = <<>> \o span
    BY <1>2, <1>3, <1>4 DEF Collected, s
  <1>6. span = LongPlaces(d, h, n)
    <2>1. (h - 1) - (g + 1) + 1 = Parts[n] /\ \A i \in Int : (g + 1) + i - 1 = h - Parts[n] + i - 1
      BY <1>1
    <2> QED BY <2>1 DEF LongPlaces
  <1>7. span \in Seq({d} \X Int)
    <2>1. (h - 1) - (g + 1) + 1 \in Nat /\ g + 1 \in Nat
      BY <1>1
    <2> QED BY <2>1, PlacesAreSeq
  <1>8. <<>> \o span = span
    BY <1>7, ConcatEmptySeq
  <1> QED BY <1>5, <1>6, <1>8 DEF n, s

(* A scan of a whole directory leaves none.                                *)
LEMMA CollectedAtEnd ==
  ASSUME NEW d, GoodDirectory(slots[d]), slots[d] # <<>>, NEW stack
  PROVE  Collected(stack, d, RecordCount(slots[d])) = <<>>
  <1> DEFINE s == slots[d]
             L == Len(s)
             m == RecordCount(s)
             R == {i \in 1 .. m : s[i].type \notin {"lfn", "end"}}
             from == Last(R) + 1
             to == IF m > 0 /\ s[m] = End THEN m - 1 ELSE m
  <1>1. /\ L \in Nat /\ DOMAIN s = 1 .. L /\ \A i \in 1 .. L : s[i] \in Entry
        /\ L # 0
    BY EntryAt, EmptySeq DEF GoodDirectory, Fits
  <1>2. /\ m \in 0 .. L
        /\ \A i \in 1 .. m - 1 : s[i] # End
        /\ \A i \in m + 1 .. L : s[i] = End
        /\ m < L => m # 0
    BY RecordsAre DEF GoodDirectory
  <1>3. s[1].type \in {"label", "dot"}
    BY <1>1 DEF GoodDirectory, Headed
  <1> HIDE DEF s, L, m
  <1>4. 1 \in R /\ R \subseteq 0 .. m /\ m \in Nat \ {0}
    BY <1>1, <1>2, <1>3
  <1>5. Last(R) \in R /\ \A j \in R : j <= Last(R)
    BY <1>4, LastIs
  <1>6. to \in Nat /\ from \in Nat /\ to <= m
    BY <1>4, <1>5
  <1>7. to < from
    <2> SUFFICES ASSUME from <= to PROVE FALSE
      BY <1>6
    <2>1. to \in 1 .. m /\ to \notin R /\ to \in 1 .. L /\ to > Last(R)
      BY <1>1, <1>2, <1>4, <1>5, <1>6
    <2>2. s[to] # End
      BY <1>2, <1>4, <2>1
    <2>3. s[to].type = "lfn"
      BY <1>1, <2>1, <2>2, EntryIs
    <2> DEFINE p == s[to].part
               j == to + p
    <2>4. p \in Nat \ {0} /\ s[to].name \in Name
      BY <1>1, <2>1, <2>3, EntryIs
    <2>5. j <= L /\ \E k \in Kind : s[j] = Sfn(s[to].name, k)
      BY <1>1, <2>1, <2>3 DEF GoodDirectory, Whole, s, L
    <2> HIDE DEF p
    <2>6. j \in 1 .. L /\ j > Last(R)
      <3>1. j <= L /\ Last(R) \in Nat
        BY <1>4, <1>5, <2>5
      <3> HIDE DEF to, R
      <3> QED BY <1>1, <2>1, <2>4, <3>1
    <2>7. s[j].type = "sfn"
      BY <2>4, <2>5, SfnIs
    <2>8. j \in 1 .. m
      BY <1>1, <1>2, <2>6, <2>7, FixedEntries
    <2>9. j \in R
      BY <2>7, <2>8
    <2> QED BY <1>5, <2>6, <2>9
  <1> DEFINE span == [i \in 1 .. to - from + 1 |-> <<d, from + i - 1>>]
  <1>8. span = <<>>
    <2>1. 1 .. to - from + 1 = {}
      <3> HIDE DEF from, to
      <3> QED BY <1>6, <1>7
    <2> QED BY <2>1
  <1>9. Collected(stack, d, m) = <<>> \o span
    BY <1>4, Zenon DEF Collected, s
  <1> QED BY <1>8, <1>9, ConcatEmptySeq, EmptySeq DEF m, s
-----------------------------------------------------------------------------
(* What fat_fillDirentryInfo finds.                                        *)
HasName(s, n) == \E i \in DOMAIN s : s[i].type = "sfn" /\ s[i].name = n

LEMMA FillAbsent ==
  ASSUME NEW d, GoodDirectory(slots[d]), slots[d] # <<>>, NEW stack,
         NEW n \in Name, NEW k \in Kind, ~ HasName(slots[d], n)
  PROVE  /\ FillDirentryInfo(stack, d, n, k).at = 0
         /\ FillDirentryInfo(stack, d, n, k).stack = <<>>
  <1> DEFINE H == {i \in 1 .. RecordCount(slots[d]) : \E x \in Kind : slots[d][i] = Sfn(n, x)}
  <1>1. RecordCount(slots[d]) \in 0 .. Len(slots[d]) /\ Len(slots[d]) \in Nat
    BY RecordsAre, EntryAt DEF GoodDirectory, Fits
  <1>2. H = {}
    <2> SUFFICES ASSUME NEW i \in H PROVE FALSE
      OBVIOUS
    <2>1. i \in 1 .. Len(slots[d])
      BY <1>1
    <2>2. i \in DOMAIN slots[d]
      BY <2>1, EntryAt DEF GoodDirectory, Fits
    <2> QED BY <2>2, SfnIs DEF HasName
  <1>3. FillDirentryInfo(stack, d, n, k) =
          [at |-> 0, kind |-> k, stack |-> Collected(stack, d, RecordCount(slots[d]))]
    BY <1>2 DEF FillDirentryInfo
  <1> QED BY <1>3, CollectedAtEnd

LEMMA FillFound ==
  ASSUME NEW d, GoodDirectory(slots[d]), NEW stack, NEW k \in Kind,
         NEW n, NEW h \in DOMAIN slots[d], slots[d][h].type = "sfn", slots[d][h].name = n
  PROVE  FillDirentryInfo(stack, d, n, k) =
           [at |-> h, kind |-> slots[d][h].kind,
            stack |-> IF slots[d][h].kind = k THEN NamePlaces(d, h, n) ELSE LongPlaces(d, h, n)]
  <1> DEFINE f == FillDirentryInfo(stack, d, n, k)
  <1> DEFINE s == slots[d]
             H == {i \in 1 .. RecordCount(s) : \E x \in Kind : s[i] = Sfn(n, x)}
  <1>1. /\ Len(s) \in Nat /\ DOMAIN s = 1 .. Len(s) /\ \A i \in 1 .. Len(s) : s[i] \in Entry
        /\ RecordCount(s) \in 0 .. Len(s)
    BY EntryAt, RecordsAre DEF GoodDirectory, Fits
  <1>2. n \in Name /\ s[h].kind \in Kind /\ s[h] = Sfn(n, s[h].kind) /\ h \in Nat
    BY <1>1, EntryIs
  <1>3. h \in 1 .. RecordCount(s)
    BY NamesAreSeen DEF GoodDirectory
  <1>4. \A i \in H : i = h
    <2> SUFFICES ASSUME NEW i \in H PROVE i = h
      OBVIOUS
    <2>1. i \in DOMAIN s
      <3> HIDE DEF s
      <3> QED BY <1>1
    <2>2. s[i].type = "sfn" /\ s[i].name = n
      BY <1>2, SfnIs
    <2> QED BY <2>1, <2>2 DEF GoodDirectory, Once
  <1>5. h \in H
    BY <1>2, <1>3
  <1> HIDE DEF H
  <1>6. First(H) = h
    <2>1. \E i \in H : \A j \in H : i <= j
      BY <1>2, <1>4, <1>5
    <2> QED BY <1>4, <2>1 DEF First
  <1>7. Collected(stack, d, h - 1) = LongPlaces(d, h, n)
    <2>1. Collected(stack, d, h - 1) = LongPlaces(d, h, s[h].name)
      BY CollectedBefore
    <2> QED BY <2>1
  <1>8. f = IF s[First(H)].kind # k
            THEN [at |-> First(H), kind |-> s[First(H)].kind, stack |-> Collected(stack, d, First(H) - 1)]
            ELSE [at |-> First(H), kind |-> k,
                  stack |-> Append(Collected(stack, d, First(H) - 1), <<d, First(H)>>)]
    <2>1. H # {}
      BY <1>5
    <2> QED BY <2>1, Zenon DEF FillDirentryInfo, H
  <1> HIDE DEF f
  <1>9. CASE s[h].kind # k
    BY <1>6, <1>7, <1>8, <1>9 DEF f
  <1>10. CASE s[h].kind = k
    BY <1>6, <1>7, <1>8, <1>10 DEF NamePlaces, f
  <1> QED BY <1>9, <1>10
-----------------------------------------------------------------------------
(* Where a name is stored: behind the entry that begins the directory and  *)
(* before anything that was never used, in entries that hold nothing.      *)
LEMMA StoreOffsetIs ==
  ASSUME NEW s, GoodDirectory(s), s # <<>>, NEW size \in Nat \ {0}
  PROVE  LET at == GetDirentryStoreOffset(s, size)
         IN  /\ at \in Nat /\ at >= 2 /\ at <= Len(s) + 1
             /\ \A i \in 1 .. at - 1 : s[i] # End
             /\ \A i \in at .. at + size - 1 : i <= Len(s) => Empty(s[i])
  <1> DEFINE at == GetDirentryStoreOffset(s, size)
             L == Len(s)
             N == RecordCount(s)
             tight == {r[1] : r \in {q \in Runs(s) : q[2] - q[1] + 1 = size}}
             loose == {r[2] - size + 1 : r \in {q \in Runs(s) : q[2] - q[1] + 1 > size}}
  <1>1. /\ L \in Nat \ {0} /\ DOMAIN s = 1 .. L
        /\ N \in 1 .. L
        /\ \A i \in 1 .. N - 1 : s[i] # End
        /\ \A i \in N + 1 .. L : s[i] = End
        /\ N < L => s[N] = End
    <2>1. L \in Nat \ {0} /\ DOMAIN s = 1 .. L
      BY EntryAt, EmptySeq DEF GoodDirectory, Fits
    <2>2. /\ N \in 0 .. L
          /\ \A i \in 1 .. N - 1 : s[i] # End
          /\ \A i \in N + 1 .. L : s[i] = End
          /\ N < L => s[N] = End /\ N # 0
      BY RecordsAre DEF GoodDirectory
    <2> HIDE DEF L, N
    <2> QED BY <2>1, <2>2
  <1>2. ~ Empty(s[1])
    <2>1. s[1].type \in {"label", "dot"}
      BY <1>1 DEF GoodDirectory, Headed
    <2> QED BY <2>1, FixedEntries DEF Empty
  <1>3. ASSUME NEW r \in Runs(s)
        PROVE  /\ r[1] \in 2 .. L /\ r[2] \in 2 .. L /\ r[1] <= r[2] /\ r[2] < N
               /\ \A i \in r[1] .. r[2] : Empty(s[i])
    <2>1. /\ r[1] \in 1 .. N /\ r[2] \in 1 .. N /\ r[1] <= r[2] /\ r[2] < N
          /\ \A i \in r[1] .. r[2] : Empty(s[i])
      BY DEF Runs
    <2> HIDE DEF L, N
    <2>2. r[1] # 1
      <3> SUFFICES ASSUME r[1] = 1 PROVE FALSE
        OBVIOUS
      <3>1. 1 \in r[1] .. r[2]
        BY <2>1
      <3> QED BY <1>2, <2>1, <3>1
    <2> QED BY <1>1, <2>1, <2>2
  <1> HIDE DEF L, N
  <1>4. CASE tight # {}
    <2>1. First(tight) \in tight
      <3>1. tight \subseteq Nat
        BY <1>1, <1>3
      <3> HIDE DEF tight
      <3> QED BY <1>4, <3>1, FirstIs
    <2>2. at = First(tight)
      BY <1>4 DEF GetDirentryStoreOffset
    <2>3. PICK r \in Runs(s) : r[2] - r[1] + 1 = size /\ at = r[1]
      BY <2>1, <2>2
    <2> HIDE DEF at
    <2>4. /\ at \in 2 .. L /\ at + size - 1 < N
          /\ \A i \in at .. at + size - 1 : Empty(s[i])
      BY <1>1, <1>3, <2>3
    <2> QED BY <1>1, <2>4 DEF at, L
  <1>5. CASE tight = {} /\ loose # {}
    <2>0. loose \subseteq Nat
      <3> SUFFICES ASSUME NEW r \in Runs(s), r[2] - r[1] + 1 > size PROVE r[2] - size + 1 \in Nat
        OBVIOUS
      <3> QED BY <1>1, <1>3
    <2>1. First(loose) \in loose
      <3> HIDE DEF loose
      <3> QED BY <1>5, <2>0, FirstIs
    <2>2. at = First(loose)
      BY <1>5, Zenon DEF GetDirentryStoreOffset
    <2>3. PICK r \in Runs(s) : r[2] - r[1] + 1 > size /\ at = r[2] - size + 1
      BY <2>1, <2>2
    <2> HIDE DEF at
    <2>4. /\ at \in 2 .. L /\ at + size - 1 < N
          /\ \A i \in at .. at + size - 1 : Empty(s[i])
      <3>1. /\ r[1] \in 2 .. L /\ r[2] \in 2 .. L /\ r[1] <= r[2] /\ r[2] < N
            /\ \A i \in r[1] .. r[2] : Empty(s[i])
        BY <1>3
      <3>2. at \in r[1] .. r[2] /\ at + size - 1 = r[2]
        BY <1>1, <2>3, <3>1
      <3> QED BY <1>1, <3>1, <3>2
    <2> QED BY <1>1, <2>4 DEF at, L
  <1>6. CASE tight = {} /\ loose = {}
    <2>1. at = IF Empty(s[N]) THEN N ELSE N + 1
      BY <1>6, Zenon DEF GetDirentryStoreOffset, N
    <2> HIDE DEF at
    <2>2. N # 1 \/ at # N
      BY <1>2, <2>1
    <2>3. /\ at \in Nat /\ at >= 2 /\ at <= L + 1
          /\ \A i \in 1 .. at - 1 : s[i] # End
      <3>1. CASE Empty(s[N])
        BY <1>1, <2>1, <2>2, <3>1
      <3>2. CASE ~ Empty(s[N])
        <4>1. N = L /\ s[N] # End
          BY <1>1, <3>2 DEF Empty
        <4> QED BY <1>1, <2>1, <3>2, <4>1
      <3> QED BY <3>1, <3>2
    <2>4. \A i \in at .. at + size - 1 : i <= L => Empty(s[i])
      BY <1>1, <2>1, <2>3 DEF Empty
    <2> QED BY <2>3, <2>4 DEF at, L
  <1> QED BY <1>4, <1>5, <1>6

LEMMA CreatedIs ==
  ASSUME NEW n \in Name, NEW k \in Kind
  PROVE  LET buf == CreateDirentry(n, k)
         IN  /\ Len(buf) = Parts[n] + 1
             /\ \A i \in 1 .. Parts[n] : buf[i] = Lfn(n, Parts[n] + 1 - i)
             /\ buf[Parts[n] + 1] = Sfn(n, k)
  <1> DEFINE P == Parts[n]
             l == [p \in 1 .. P |-> Lfn(n, P + 1 - p)]
             r == <<Sfn(n, k)>>
  <1>1. P \in Nat \ {0} /\ P \in 1 .. DeStackSize - 1 /\ DeStackSize \in Nat
    BY PartsIs, DirAssumption
  <1> HIDE DEF P
  <1>2. \A p \in 1 .. P : Lfn(n, P + 1 - p) \in Entry
    <2> SUFFICES ASSUME NEW p \in 1 .. P PROVE Lfn(n, P + 1 - p) \in Entry
      OBVIOUS
    <2>1. P + 1 - p \in 1 .. DeStackSize - 1
      BY <1>1
    <2> QED BY <2>1, LfnIs
  <1>3. l \in Seq(Entry) /\ Len(l) = P /\ \A i \in 1 .. P : l[i] = Lfn(n, P + 1 - i)
    BY <1>1, <1>2
  <1>4. r \in Seq(Entry) /\ Len(r) = 1 /\ r[1] = Sfn(n, k)
    BY SfnIs
  <1>5. CreateDirentry(n, k) = l \o r
    BY DEF CreateDirentry, P
  <1> HIDE DEF l, r
  <1>6. /\ Len(l \o r) = P + 1
        /\ \A i \in 1 .. P + 1 : (l \o r)[i] = IF i <= P THEN l[i] ELSE r[i - P]
    <2>1. /\ Len(l \o r) = Len(l) + Len(r)
          /\ \A i \in 1 .. Len(l) + Len(r) : (l \o r)[i] = IF i <= Len(l) THEN l[i] ELSE r[i - Len(l)]
      BY <1>3, <1>4, ConcatProperties
    <2> QED BY <1>3, <1>4, <2>1
  <1>7. \A i \in 1 .. P : (l \o r)[i] = Lfn(n, P + 1 - i)
    BY <1>1, <1>3, <1>6
  <1>8. (l \o r)[P + 1] = Sfn(n, k)
    <2>1. P + 1 \in 1 .. P + 1 /\ ~ (P + 1 <= P) /\ (P + 1) - P = 1
      BY <1>1
    <2> QED BY <1>4, <1>6, <2>1
  <1> QED BY <1>5, <1>6, <1>7, <1>8 DEF P
-----------------------------------------------------------------------------
(* The names in a directory, as all its entries say.                       *)
NameSet(s) == {<<s[i].name, s[i].kind>> : i \in {j \in DOMAIN s : s[j].type = "sfn"}}

(* A name that is not there is stored over entries that hold nothing.      *)
LEMMA SavedAre ==
  ASSUME NEW s \in Seq(Entry), NEW n \in Name, NEW k \in Kind,
         NEW at \in Nat \ {0}, at + Parts[n] <= Len(s)
  PROVE  LET t == Saved(s, at, CreateDirentry(n, k))
             e == at + Parts[n]
         IN  /\ t \in Seq(Entry) /\ Len(t) = Len(s)
             /\ \A i \in at .. e - 1 : t[i] = Lfn(n, e - i)
             /\ t[e] = Sfn(n, k)
             /\ \A i \in 1 .. Len(s) : i \notin at .. e => t[i] = s[i]
  <1> DEFINE P == Parts[n]
             e == at + P
             L == Len(s)
             buf == CreateDirentry(n, k)
             t == Saved(s, at, buf)
  <1>1. P \in Nat \ {0} /\ P \in 1 .. DeStackSize - 1 /\ DeStackSize \in Nat
    BY PartsIs, DirAssumption
  <1>2. /\ Len(buf) = P + 1 /\ buf[P + 1] = Sfn(n, k)
        /\ \A i \in 1 .. P : buf[i] = Lfn(n, P + 1 - i)
    BY CreatedIs
  <1>3. L \in Nat /\ DOMAIN s = 1 .. L /\ \A i \in 1 .. L : s[i] \in Entry
    BY EntryAt
  <1>4. t = [i \in 1 .. L |-> IF i >= at /\ i < at + Len(buf) THEN buf[i - at + 1] ELSE s[i]]
    BY <1>3 DEF Saved
  <1> HIDE DEF P, L, buf, t
  <1>5. e \in 1 .. L /\ e \in Nat
    BY <1>1, <1>3 DEF P, L
  <1>6. \A i \in at .. e - 1 : t[i] = Lfn(n, e - i) /\ t[i] \in Entry
    <2> SUFFICES ASSUME NEW i \in at .. e - 1 PROVE t[i] = Lfn(n, e - i) /\ t[i] \in Entry
      OBVIOUS
    <2>1. i \in 1 .. L /\ i >= at /\ i < at + Len(buf) /\ i - at + 1 \in 1 .. P
      BY <1>1, <1>2, <1>3, <1>5
    <2>2. t[i] = Lfn(n, P + 1 - (i - at + 1))
      BY <1>2, <1>4, <2>1
    <2>3. P + 1 - (i - at + 1) = e - i /\ e - i \in 1 .. DeStackSize - 1
      BY <1>1, <1>5, <2>1
    <2> QED BY <2>2, <2>3, LfnIs
  <1>7. t[e] = Sfn(n, k) /\ t[e] \in Entry
    <2>1. e >= at /\ e < at + Len(buf) /\ e - at + 1 = P + 1
      BY <1>1, <1>2, <1>5
    <2>2. t[e] = buf[e - at + 1]
      BY <1>4, <1>5, <2>1
    <2> QED BY <1>2, <2>1, <2>2, SfnIs
  <1>8. \A i \in 1 .. L : i \notin at .. e => t[i] = s[i]
    <2> SUFFICES ASSUME NEW i \in 1 .. L, i \notin at .. e PROVE t[i] = s[i]
      OBVIOUS
    <2>1. ~ (i >= at /\ i < at + Len(buf))
      BY <1>1, <1>2, <1>5
    <2> QED BY <1>4, <2>1
  <1>9. \A i \in 1 .. L : t[i] \in Entry
    <2> SUFFICES ASSUME NEW i \in 1 .. L PROVE t[i] \in Entry
      OBVIOUS
    <2>1. i \in at .. e - 1 \/ i = e \/ i \notin at .. e
      BY <1>5
    <2> QED BY <1>3, <1>6, <1>7, <1>8, <2>1
  <1>10. t \in Seq(Entry) /\ Len(t) = L
    <2>1. t \in [1 .. L -> Entry]
      BY <1>4, <1>9
    <2> QED BY <1>3, <2>1
  <1> QED BY <1>6, <1>7, <1>8, <1>10 DEF P, L, t, buf

LEMMA SavedGood ==
  ASSUME NEW s, GoodDirectory(s), NEW n \in Name, NEW k \in Kind, ~ HasName(s, n),
         NEW at \in Nat, at >= 2, at + Parts[n] <= Len(s),
         \A i \in 1 .. at - 1 : s[i] # End,
         \A i \in at .. at + Parts[n] : Empty(s[i])
  PROVE  LET t == Saved(s, at, CreateDirentry(n, k))
         IN  /\ GoodDirectory(t) /\ Len(t) = Len(s)
             /\ NameSet(t) = NameSet(s) \union {<<n, k>>}
  <1> DEFINE P == Parts[n]
             e == at + P
             L == Len(s)
             t == Saved(s, at, CreateDirentry(n, k))
  <1>1. /\ t \in Seq(Entry) /\ Len(t) = L
        /\ \A i \in at .. e - 1 : t[i] = Lfn(n, e - i)
        /\ t[e] = Sfn(n, k)
        /\ \A i \in 1 .. L : i \notin at .. e => t[i] = s[i]
    <2>1. s \in Seq(Entry) /\ at \in Nat \ {0}
      BY DEF GoodDirectory, Fits
    <2> HIDE DEF t
    <2> QED BY <2>1, SavedAre DEF t
  <1>2. /\ L \in Nat /\ DOMAIN s = 1 .. L /\ \A i \in 1 .. L : s[i] \in Entry
        /\ DOMAIN t = 1 .. L /\ L <= MaxRecord
    BY <1>1, EntryAt DEF GoodDirectory, Fits
  <1>3. P \in Nat \ {0} /\ P \in 1 .. DeStackSize - 1 /\ DeStackSize \in Nat
    BY PartsIs, DirAssumption
  <1> HIDE DEF t, L, P
  <1>4. e \in 1 .. L /\ e \in Nat /\ at \in 2 .. L /\ e > at
    BY <1>2, <1>3 DEF P, L
  <1>5. \A i \in at .. e : s[i].type \notin {"lfn", "sfn", "label", "dot"}
    BY FixedEntries DEF Empty, P
  <1>6. \A i \in at .. e - 1 : /\ t[i].type = "lfn" /\ t[i].name = n /\ t[i].part = e - i
    <2> SUFFICES ASSUME NEW i \in at .. e - 1
                 PROVE  t[i].type = "lfn" /\ t[i].name = n /\ t[i].part = e - i
      OBVIOUS
    <2> DEFINE p == e - i
    <2>1. p \in 1 .. DeStackSize - 1 /\ t[i] = Lfn(n, p)
      BY <1>1, <1>3, <1>4
    <2> HIDE DEF p
    <2> QED BY <2>1, LfnIs DEF p
  <1>7. t[e].type = "sfn" /\ t[e].name = n /\ t[e].kind = k
    BY <1>1, SfnIs
  <1>8. \A i \in 1 .. L : i \in at .. e - 1 \/ i = e \/ (i \notin at .. e /\ t[i] = s[i])
    BY <1>1, <1>4
  <1>9. Fits(t)
    BY <1>1, <1>2 DEF Fits
  <1>10. Headed(t)
    <2> SUFFICES ASSUME 1 \in DOMAIN t PROVE t[1].type \in {"label", "dot"}
      BY DEF Headed
    <2>1. t[1] = s[1]
      BY <1>2, <1>4, <1>8
    <2> QED BY <1>2, <2>1 DEF GoodDirectory, Headed
  <1>11. Whole(t)
    <2> SUFFICES ASSUME NEW i \in 1 .. L
                 PROVE  /\ t[i].type = "sfn" =>
                             /\ i > Parts[t[i].name]
                             /\ \A p \in 1 .. Parts[t[i].name] : t[i - p] = Lfn(t[i].name, p)
                        /\ t[i].type = "lfn" =>
                             /\ t[i].part <= Parts[t[i].name]
                             /\ i + t[i].part <= Len(t)
                             /\ \E x \in Kind : t[i + t[i].part] = Sfn(t[i].name, x)
      BY <1>2 DEF Whole
    <2>1. CASE i = e
      <3>1. i > P
        BY <1>3, <1>4, <2>1
      <3>2. \A p \in 1 .. P : t[e - p] = Lfn(n, p)
        <4> SUFFICES ASSUME NEW p \in 1 .. P PROVE t[e - p] = Lfn(n, p)
          OBVIOUS
        <4>1. e - p \in at .. e - 1 /\ e - (e - p) = p
          BY <1>3, <1>4
        <4> QED BY <1>1, <4>1
      <3> QED BY <1>7, <2>1, <3>1, <3>2 DEF P
    <2>2. CASE i \in at .. e - 1
      <3>1. t[i].type = "lfn" /\ t[i].name = n /\ t[i].part = e - i
        BY <1>6, <2>2
      <3>2. e - i <= P /\ i + (e - i) = e /\ e <= Len(t)
        BY <1>1, <1>2, <1>3, <1>4, <2>2
      <3> QED BY <1>1, <3>1, <3>2 DEF P
    <2>3. CASE i \notin at .. e /\ t[i] = s[i]
      <3>1. ASSUME s[i].type = "sfn"
            PROVE  /\ i > Parts[s[i].name]
                   /\ \A p \in 1 .. Parts[s[i].name] : t[i - p] = Lfn(s[i].name, p)
        <4> DEFINE m == s[i].name
        <4>1. m \in Name /\ Parts[m] \in Nat \ {0} /\ Parts[m] \in 1 .. DeStackSize - 1
          BY <1>2, <3>1, EntryIs, PartsIs
        <4>2. i > Parts[m] /\ \A p \in 1 .. Parts[m] : s[i - p] = Lfn(m, p)
          BY <1>2, <3>1 DEF GoodDirectory, Whole
        <4> HIDE DEF m
        <4>3. ASSUME NEW p \in 1 .. Parts[m] PROVE t[i - p] = Lfn(m, p)
          <5>1. i - p \in 1 .. L /\ p \in 1 .. DeStackSize - 1
            BY <1>2, <1>3, <4>1, <4>2
          <5>2. s[i - p].type = "lfn"
            BY <4>1, <4>2, <5>1, LfnIs
          <5>3. i - p \notin at .. e
            BY <1>5, <5>2
          <5>4. t[i - p] = s[i - p]
            BY <1>1, <5>1, <5>3
          <5> QED BY <4>2, <5>4
        <4> QED BY <4>2, <4>3 DEF m
      <3>2. ASSUME s[i].type = "lfn"
            PROVE  /\ s[i].part <= Parts[s[i].name]
                   /\ i + s[i].part <= L
                   /\ \E x \in Kind : t[i + s[i].part] = Sfn(s[i].name, x)
        <4> DEFINE m == s[i].name
                   p == s[i].part
        <4>1. m \in Name /\ p \in Nat \ {0}
          BY <1>2, <3>2, EntryIs
        <4>2. p <= Parts[m] /\ i + p <= L /\ \E x \in Kind : s[i + p] = Sfn(m, x)
          BY <1>2, <3>2 DEF GoodDirectory, Whole, L
        <4> HIDE DEF m, p
        <4>3. i + p \in 1 .. L
          BY <1>2, <4>1, <4>2
        <4>4. s[i + p].type = "sfn"
          BY <4>1, <4>2, SfnIs
        <4>5. i + p \notin at .. e
          BY <1>5, <4>4
        <4>6. t[i + p] = s[i + p]
          BY <1>1, <4>3, <4>5
        <4> QED BY <4>2, <4>6 DEF m, p
      <3> QED BY <1>1, <2>3, <3>1, <3>2
    <2> QED BY <1>8, <2>1, <2>2, <2>3
  <1>12. Visible(t)
    <2> SUFFICES ASSUME NEW i \in 1 .. L, NEW j \in 1 .. L, i < j, t[i] = End PROVE t[j] = End
      BY <1>2 DEF Visible
    <2>1. i \notin at .. e /\ s[i] = End
      BY <1>6, <1>7, <1>8, FixedEntries
    <2>2. ~ (i <= at - 1)
      BY <2>1
    <2>3. j \notin at .. e
      BY <1>2, <1>4, <2>1, <2>2
    <2> QED BY <1>1, <1>2, <2>1, <2>3 DEF GoodDirectory, Visible
  <1>13. \A i \in 1 .. L : t[i].type = "sfn" => i = e \/ (t[i] = s[i] /\ s[i].name # n)
    BY <1>2, <1>6, <1>8 DEF HasName
  <1>14. Once(t)
    <2> SUFFICES ASSUME NEW i \in 1 .. L, NEW j \in 1 .. L,
                        t[i].type = "sfn", t[j].type = "sfn", t[i].name = t[j].name
                 PROVE  i = j
      BY <1>2 DEF Once
    <2>1. CASE i = e \/ j = e
      BY <1>7, <1>13, <2>1
    <2>2. CASE i # e /\ j # e
      BY <1>2, <1>13, <2>2 DEF GoodDirectory, Once
    <2> QED BY <2>1, <2>2
  <1>15. NameSet(t) = NameSet(s) \union {<<n, k>>}
    <2>1. \A i \in 1 .. L : t[i].type = "sfn" => i = e \/ (t[i] = s[i] /\ s[i].type = "sfn")
      BY <1>13
    <2>2. \A i \in 1 .. L : s[i].type = "sfn" => t[i] = s[i]
      BY <1>1, <1>5
    <2>3. NameSet(t) \subseteq NameSet(s) \union {<<n, k>>}
      BY <1>2, <1>7, <2>1 DEF NameSet
    <2>4. NameSet(s) \subseteq NameSet(t)
      BY <1>2, <2>2 DEF NameSet
    <2>5. <<n, k>> \in NameSet(t)
      BY <1>2, <1>4, <1>7 DEF NameSet
    <2> QED BY <2>3, <2>4, <2>5
  <1> QED BY <1>1, <1>9, <1>10, <1>11, <1>12, <1>14, <1>15 DEF GoodDirectory, t, L
-----------------------------------------------------------------------------
(* A name is removed: all its entries are marked, and nothing else.        *)
LEMMA MarkedGood ==
  ASSUME NEW s, GoodDirectory(s), NEW h \in DOMAIN s, s[h].type = "sfn",
         NEW t, DOMAIN t = DOMAIN s, t = [i \in DOMAIN t |-> t[i]],
         \A i \in DOMAIN s : t[i] = IF i \in h - Parts[s[h].name] .. h THEN Deleted ELSE s[i]
  PROVE  /\ GoodDirectory(t) /\ Len(t) = Len(s)
         /\ NameSet(t) = NameSet(s) \ {<<s[h].name, s[h].kind>>}
         /\ \A i \in DOMAIN s : s[i].type \in {"label", "dot"} => t[i] = s[i]
  <1> DEFINE n == s[h].name
             P == Parts[n]
             at == h - P
             L == Len(s)
  <1>1. /\ L \in Nat /\ DOMAIN s = 1 .. L /\ \A i \in 1 .. L : s[i] \in Entry
        /\ DOMAIN t = 1 .. L /\ L <= MaxRecord
    BY EntryAt DEF GoodDirectory, Fits
  <1>2. /\ n \in Name /\ P \in Nat \ {0} /\ at - 1 \in 1 .. L /\ at - 1 \in Nat \ {0}
        /\ h \in Nat /\ h <= L
        /\ \A i \in (at - 1) + 1 .. h - 1 : s[i].type = "lfn" /\ s[i] = Lfn(n, h - i)
    BY BeforeName
  <1>3. \A i \in 1 .. L : t[i] = IF i \in at .. h THEN Deleted ELSE s[i]
    BY <1>1
  <1>4. t \in Seq(Entry) /\ Len(t) = L
    <2>1. \A i \in 1 .. L : t[i] \in Entry
      BY <1>1, <1>3, FixedEntries
    <2>2. t \in [1 .. L -> Entry]
      BY <1>1, <2>1
    <2> QED BY <1>1, <2>2
  <1>5. P \in 1 .. DeStackSize - 1 /\ DeStackSize \in Nat
    BY <1>2, PartsIs, DirAssumption
  <1>6. s[h].type = "sfn" /\ s[h].name = n
    OBVIOUS
  <1> HIDE DEF n, P, L
  <1>7. h \in 1 .. L /\ at \in 2 .. L /\ at < h
    BY <1>1, <1>2
  <1>8. \A i \in at .. h - 1 : s[i].type = "lfn" /\ s[i].name = n /\ s[i].part = h - i
    <2> SUFFICES ASSUME NEW i \in at .. h - 1
                 PROVE  s[i].type = "lfn" /\ s[i].name = n /\ s[i].part = h - i
      OBVIOUS
    <2> DEFINE p == h - i
    <2>1. p \in 1 .. DeStackSize - 1 /\ s[i] = Lfn(n, p)
      BY <1>2, <1>5, <1>7
    <2> HIDE DEF p
    <2> QED BY <1>2, <2>1, LfnIs DEF p
  <1>9. Fits(t)
    BY <1>1, <1>4 DEF Fits
  <1>10. \A i \in 1 .. L : s[i].type \in {"label", "dot"} => t[i] = s[i]
    <2> SUFFICES ASSUME NEW i \in 1 .. L, s[i].type \in {"label", "dot"}
                 PROVE  i \notin at .. h
      BY <1>3
    <2>1. i # h /\ i \notin at .. h - 1
      BY <1>6, <1>8
    <2> QED BY <1>7, <2>1
  <1>11. Headed(t)
    <2> SUFFICES ASSUME 1 \in DOMAIN t PROVE t[1].type \in {"label", "dot"}
      BY DEF Headed
    <2>1. s[1].type \in {"label", "dot"}
      BY <1>1 DEF GoodDirectory, Headed
    <2> QED BY <1>1, <1>10, <2>1
  <1>12. \A i \in 1 .. L : t[i].type # "deleted" => i \notin at .. h /\ t[i] = s[i]
    BY <1>3, FixedEntries
  <1>13. Whole(t)
    <2> SUFFICES ASSUME NEW i \in 1 .. L, t[i] = s[i], i \notin at .. h
                 PROVE  /\ s[i].type = "sfn" =>
                             /\ i > Parts[s[i].name]
                             /\ \A p \in 1 .. Parts[s[i].name] : t[i - p] = Lfn(s[i].name, p)
                        /\ s[i].type = "lfn" =>
                             /\ s[i].part <= Parts[s[i].name]
                             /\ i + s[i].part <= L
                             /\ \E x \in Kind : t[i + s[i].part] = Sfn(s[i].name, x)
      BY <1>1, <1>4, <1>12 DEF Whole
    <2>1. ASSUME s[i].type = "sfn"
          PROVE  /\ i > Parts[s[i].name]
                 /\ \A p \in 1 .. Parts[s[i].name] : t[i - p] = Lfn(s[i].name, p)
      <3> DEFINE m == s[i].name
      <3>1. m \in Name /\ Parts[m] \in Nat \ {0} /\ Parts[m] \in 1 .. DeStackSize - 1
        BY <1>1, <2>1, EntryIs, PartsIs
      <3>2. i > Parts[m] /\ \A p \in 1 .. Parts[m] : s[i - p] = Lfn(m, p)
        BY <1>1, <2>1 DEF GoodDirectory, Whole
      <3>3. m # n
        BY <1>1, <1>6, <1>7, <2>1 DEF GoodDirectory, Once
      <3> HIDE DEF m
      <3>4. ASSUME NEW p \in 1 .. Parts[m] PROVE t[i - p] = Lfn(m, p)
        <4>1. i - p \in 1 .. L /\ p \in 1 .. DeStackSize - 1
          BY <1>1, <1>5, <3>1, <3>2
        <4>2. s[i - p].type = "lfn" /\ s[i - p].name = m
          BY <3>1, <3>2, <4>1, LfnIs
        <4>3. i - p # h /\ i - p \notin at .. h - 1
          BY <1>6, <1>8, <3>3, <4>2
        <4>4. i - p \notin at .. h
          BY <1>7, <4>1, <4>3
        <4> QED BY <1>3, <3>2, <4>1, <4>4
      <3> QED BY <3>2, <3>4 DEF m
    <2>2. ASSUME s[i].type = "lfn"
          PROVE  /\ s[i].part <= Parts[s[i].name]
                 /\ i + s[i].part <= L
                 /\ \E x \in Kind : t[i + s[i].part] = Sfn(s[i].name, x)
      <3> DEFINE m == s[i].name
                 p == s[i].part
      <3>1. m \in Name /\ p \in Nat \ {0}
        BY <1>1, <2>2, EntryIs
      <3>2. p <= Parts[m] /\ i + p <= L /\ \E x \in Kind : s[i + p] = Sfn(m, x)
        BY <1>1, <2>2 DEF GoodDirectory, Whole, L
      <3> HIDE DEF m, p
      <3>3. i + p \in 1 .. L
        BY <1>1, <3>1, <3>2
      <3>4. s[i + p].type = "sfn" /\ s[i + p].name = m
        BY <3>1, <3>2, SfnIs
      <3>5. i + p # h
        <4> SUFFICES ASSUME i + p = h PROVE FALSE
          OBVIOUS
        <4>1. m = n
          BY <1>6, <3>4
        <4>2. p <= P
          BY <3>2, <4>1 DEF P
        <4>3. i \in at .. h
          BY <1>2, <1>7, <3>1, <4>2
        <4> QED BY <4>3
      <3>6. i + p \notin at .. h - 1
        BY <1>8, <3>4
      <3>7. i + p \notin at .. h
        BY <1>7, <3>3, <3>5, <3>6
      <3> QED BY <1>3, <3>2, <3>3, <3>7 DEF m, p
    <2> QED BY <2>1, <2>2
  <1>14. Visible(t)
    <2> SUFFICES ASSUME NEW i \in 1 .. L, NEW j \in 1 .. L, i < j, t[i] = End PROVE t[j] = End
      BY <1>1 DEF Visible
    <2>1. s[i] = End
      BY <1>12, FixedEntries
    <2>2. s[j] = End
      BY <1>1, <2>1 DEF GoodDirectory, Visible
    <2>3. j # h /\ j \notin at .. h - 1
      BY <1>6, <1>8, <2>2, FixedEntries
    <2>4. j \notin at .. h
      BY <1>7, <2>3
    <2> QED BY <1>3, <2>2, <2>4
  <1>15. \A i \in 1 .. L : t[i].type = "sfn" => t[i] = s[i] /\ i # h
    BY <1>7, <1>12
  <1>16. Once(t)
    BY <1>1, <1>15 DEF GoodDirectory, Once
  <1>17. NameSet(t) = NameSet(s) \ {<<n, s[h].kind>>}
    <2>1. \A i \in 1 .. L : s[i].type = "sfn" /\ i # h => s[i].name # n
      BY <1>1, <1>6, <1>7 DEF GoodDirectory, Once
    <2>2. \A i \in 1 .. L : s[i].type = "sfn" /\ i # h => t[i] = s[i]
      <3> SUFFICES ASSUME NEW i \in 1 .. L, s[i].type = "sfn", i # h PROVE i \notin at .. h
        BY <1>3
      <3>1. i \notin at .. h - 1
        BY <1>8
      <3> QED BY <1>7, <3>1
    <2>3. ASSUME NEW x \in NameSet(t) PROVE x \in NameSet(s) /\ x # <<n, s[h].kind>>
      <3>1. PICK i \in 1 .. L : t[i].type = "sfn" /\ x = <<t[i].name, t[i].kind>>
        BY <1>1 DEF NameSet
      <3>2. t[i] = s[i] /\ i # h
        BY <1>15, <3>1
      <3>3. s[i].name # n /\ x = <<s[i].name, s[i].kind>>
        BY <2>1, <3>1, <3>2
      <3> QED BY <1>1, <3>1, <3>2, <3>3 DEF NameSet
    <2>4. ASSUME NEW x \in NameSet(s), x # <<n, s[h].kind>> PROVE x \in NameSet(t)
      <3>1. PICK i \in 1 .. L : s[i].type = "sfn" /\ x = <<s[i].name, s[i].kind>>
        BY <1>1 DEF NameSet
      <3>2. i # h
        BY <2>4, <3>1 DEF n
      <3> QED BY <1>1, <2>2, <3>1, <3>2 DEF NameSet
    <2> QED BY <2>3, <2>4
  <1> QED BY <1>1, <1>4, <1>9, <1>10, <1>11, <1>13, <1>14, <1>16, <1>17 DEF GoodDirectory, n, L
-----------------------------------------------------------------------------
(* The directories together: each is good and has the room it may have, a  *)
(* directory but the root begins with its two own entries, and those that  *)
(* are there are the ones that the root directory names.                   *)
Room(d, len) ==
  \/ d = Root /\ len = RootSlots
  \/ d # Root /\ len \in {ClusterSlots * m : m \in 0 .. MaxClusters}

DirOK(d, s) ==
  /\ GoodDirectory(s) /\ Room(d, Len(s))
  /\ d # Root => \A i \in DOMAIN s : s[i].type \in {"label", "dot"} <=> i <= 2

Linked(dirs) == \A d \in DirName : dirs[d] # <<>> <=> <<d, "dir">> \in NameSet(dirs[Root])

DirsOK(dirs) ==
  /\ dirs \in [Dir -> Seq(Entry)]
  /\ \A d \in Dir : DirOK(d, dirs[d])
  /\ Linked(dirs)

LEMMA Multiples ==
  ASSUME NEW c \in Nat
  PROVE  /\ \A m \in Nat : c * m \in Nat /\ c * (m + 1) = c * m + c
         /\ \A m, q \in Nat : m <= q => c * m <= c * q
         /\ \A m, q \in Nat : c * m < c * q => m < q
  <1>1. \A m \in Nat : c * m \in Nat /\ c * (m + 1) = c * m + c
    BY SMTT(30)
  <1>2. \A m, q \in Nat : m <= q => c * m <= c * q
    BY SMTT(30)
  <1>3. \A m, q \in Nat : c * m < c * q => m < q
    <2> SUFFICES ASSUME NEW m \in Nat, NEW q \in Nat, c * m < c * q, q <= m PROVE FALSE
      OBVIOUS
    <2>1. c * q <= c * m /\ c * q \in Nat /\ c * m \in Nat
      BY <1>1, <1>2
    <2> QED BY <2>1
  <1> QED BY <1>1, <1>2, <1>3

LEMMA RoomFits ==
  ASSUME NEW d, NEW len \in Nat, Room(d, len)
  PROVE  len <= MaxRecord
  <1>1. CASE d = Root
    BY <1>1, DirAssumption DEF Room
  <1>2. CASE d # Root
    <2>1. PICK m \in 0 .. MaxClusters : len = ClusterSlots * m
      BY <1>2 DEF Room
    <2>2. /\ ClusterSlots \in Nat /\ MaxClusters \in Nat /\ MaxRecord \in Nat
          /\ MaxClusters * ClusterSlots <= MaxRecord
          /\ MaxClusters * ClusterSlots = ClusterSlots * MaxClusters
      BY DirAssumption
    <2>3. ClusterSlots * m <= ClusterSlots * MaxClusters /\ ClusterSlots * MaxClusters \in Nat
      BY <2>1, <2>2, Multiples
    <2> QED BY <2>1, <2>2, <2>3
  <1> QED BY <1>1, <1>2

LEMMA NewClusterIs ==
  /\ ClusterSlots \in Nat
  /\ NewCluster \in Seq(Entry) /\ Len(NewCluster) = ClusterSlots
  /\ \A i \in 1 .. ClusterSlots : NewCluster[i] = End
  BY DirAssumption, FixedEntries DEF NewCluster

(* A directory with one more cluster holds the same names.                 *)
LEMMA EnlargedOK ==
  ASSUME NEW d \in Dir, DirOK(d, slots[d]), slots[d] # <<>>,
         NEW needed \in Nat, needed <= Len(slots[d]) + ClusterSlots,
         NEW s \in Enlarged(d, needed)
  PROVE  /\ DirOK(d, s) /\ needed <= Len(s)
         /\ Len(slots[d]) <= Len(s)
         /\ \A i \in 1 .. Len(slots[d]) : s[i] = slots[d][i]
         /\ \A i \in Len(slots[d]) + 1 .. Len(s) : s[i] = End
         /\ NameSet(s) = NameSet(slots[d])
         /\ \A n \in Name : HasName(s, n) <=> HasName(slots[d], n)
  <1> DEFINE o == slots[d]
             L == Len(o)
             M == Len(s)
  <1>1. /\ o \in Seq(Entry) /\ L \in Nat /\ DOMAIN o = 1 .. L
        /\ \A i \in 1 .. L : o[i] \in Entry
    BY EntryAt DEF DirOK, GoodDirectory, Fits
  <1>2. L # 0
    BY <1>1, EmptySeq
  <1>3. CASE s = o
    <2>1. needed <= L
      <3>0. SUFFICES ASSUME ~ (needed <= L) PROVE FALSE
        OBVIOUS
      <3>1. s = o \o NewCluster
        BY <1>1, <3>0 DEF Enlarged
      <3>2. Len(s) = L + ClusterSlots
        BY <1>1, <3>1, NewClusterIs, ConcatProperties
      <3>3. ClusterSlots = 0
        BY <1>1, <1>3, <3>2, NewClusterIs
      <3> QED BY <1>1, <3>0, <3>3
    <2> QED BY <1>1, <1>3, <2>1
  <1>4. CASE s = o \o NewCluster /\ d # Root /\ L < MaxClusters * ClusterSlots
    <2> DEFINE C == ClusterSlots
    <2>1. C \in Nat /\ MaxClusters \in Nat
      BY DirAssumption
    <2>2. /\ s \in Seq(Entry) /\ M = L + C
          /\ \A i \in 1 .. L + C : s[i] = IF i <= L THEN o[i] ELSE NewCluster[i - L]
      <3>1. /\ s \in Seq(Entry) /\ M = Len(o) + Len(NewCluster)
            /\ \A i \in 1 .. Len(o) + Len(NewCluster) : s[i] = IF i <= Len(o) THEN o[i] ELSE NewCluster[i - Len(o)]
        BY <1>1, <1>4, NewClusterIs, ConcatProperties, ZenonT(60)
      <3> QED BY <3>1, NewClusterIs
    <2>3. DOMAIN s = 1 .. M /\ M \in Nat
      BY <2>2, EntryAt
    <2> HIDE DEF o, L, M
    <2>4. /\ \A i \in 1 .. L : s[i] = o[i]
          /\ \A i \in L + 1 .. M : s[i] = End
      <3>1. \A i \in 1 .. L : s[i] = o[i]
        BY <1>1, <2>1, <2>2
      <3>2. ASSUME NEW i \in L + 1 .. M PROVE s[i] = End
        <4>1. i - L \in 1 .. C /\ i \in 1 .. L + C /\ ~ (i <= L)
          BY <1>1, <2>1, <2>2
        <4> QED BY <2>2, <4>1, NewClusterIs
      <3> QED BY <3>1, <3>2
    <2>5. \A i \in 1 .. M : s[i] # End => i \in 1 .. L /\ s[i] = o[i]
      BY <1>1, <2>3, <2>4
    <2>6. \A i \in 1 .. M : s[i].type # "end" => i \in 1 .. L /\ s[i] = o[i]
      BY <2>5, FixedEntries
    <2>7. L <= M /\ \A i \in 1 .. L : i \in 1 .. M
      BY <1>1, <2>1, <2>2
    <2>8. Room(d, M)
      <3>1. PICK m \in 0 .. MaxClusters : L = C * m
        BY <1>4 DEF DirOK, Room, L, o
      <3>2. C * m < C * MaxClusters
        BY <1>4, <2>1, <3>1
      <3>3. m < MaxClusters
        BY <2>1, <3>2, Multiples
      <3>4. M = C * (m + 1) /\ m + 1 \in 0 .. MaxClusters
        BY <2>1, <2>2, <3>1, <3>3, Multiples
      <3> QED BY <1>4, <3>4 DEF Room
    <2>9. Fits(s)
      BY <2>2, <2>3, <2>8, RoomFits DEF Fits, M
    <2>10. GoodDirectory(o)
      BY DEF DirOK, o
    <2>11. Headed(s) /\ Once(s)
      BY <1>1, <1>2, <2>3, <2>4, <2>6, <2>7, <2>10 DEF GoodDirectory, Headed, Once
    <2>12. Visible(s)
      <3> SUFFICES ASSUME NEW i \in 1 .. M, NEW j \in 1 .. M, i < j, s[i] = End PROVE s[j] = End
        BY <2>3 DEF Visible
      <3>1. CASE j \in L + 1 .. M
        BY <2>4, <3>1
      <3>2. CASE j \in 1 .. L
        <4>1. i \in 1 .. L
          BY <1>1, <3>2
        <4> QED BY <1>1, <2>4, <2>10, <3>2, <4>1 DEF GoodDirectory, Visible
      <3> QED BY <1>1, <2>3, <3>1, <3>2
    <2>13. Whole(s)
      <3> SUFFICES ASSUME NEW i \in 1 .. M
                   PROVE  /\ s[i].type = "sfn" =>
                               /\ i > Parts[s[i].name]
                               /\ \A p \in 1 .. Parts[s[i].name] : s[i - p] = Lfn(s[i].name, p)
                          /\ s[i].type = "lfn" =>
                               /\ s[i].part <= Parts[s[i].name]
                               /\ i + s[i].part <= M
                               /\ \E x \in Kind : s[i + s[i].part] = Sfn(s[i].name, x)
        BY <2>3 DEF Whole, M
      <3>1. CASE s[i].type = "sfn"
        <4>1. i \in 1 .. L /\ s[i] = o[i]
          BY <2>6, <3>1
        <4> DEFINE n == o[i].name
        <4>2. i > Parts[n] /\ \A p \in 1 .. Parts[n] : o[i - p] = Lfn(n, p)
          BY <1>1, <2>10, <3>1, <4>1 DEF GoodDirectory, Whole
        <4>3. n \in Name /\ Parts[n] \in Nat \ {0}
          BY <1>1, <3>1, <4>1, EntryIs, PartsIs
        <4> HIDE DEF n
        <4>4. \A p \in 1 .. Parts[n] : i - p \in 1 .. L
          BY <1>1, <4>1, <4>2, <4>3
        <4> QED BY <2>4, <3>1, <4>1, <4>2, <4>4 DEF n
      <3>2. CASE s[i].type = "lfn"
        <4>1. i \in 1 .. L /\ s[i] = o[i]
          BY <2>6, <3>2
        <4> DEFINE n == o[i].name
                   p == o[i].part
        <4>2. p <= Parts[n] /\ i + p <= L /\ \E x \in Kind : o[i + p] = Sfn(n, x)
          BY <1>1, <2>10, <3>2, <4>1 DEF GoodDirectory, Whole, L
        <4>3. p \in Nat \ {0}
          BY <1>1, <3>2, <4>1, EntryIs
        <4> HIDE DEF n, p
        <4>4. i + p \in 1 .. L /\ i + p <= M
          BY <1>1, <2>3, <2>7, <4>1, <4>2, <4>3
        <4> QED BY <2>4, <3>2, <4>1, <4>2, <4>4 DEF n, p
      <3> QED BY <3>1, <3>2
    <2>14. \A i \in 1 .. M : s[i].type \in {"label", "dot"} <=> i <= 2
      <3>1. \A i \in 1 .. L : o[i].type \in {"label", "dot"} <=> i <= 2
        BY <1>1, <1>4 DEF DirOK, o
      <3>2. 2 <= L
        <4>1. PICK m \in 0 .. MaxClusters : L = C * m
          BY <1>4 DEF DirOK, Room, L, o
        <4>2. C >= 2
          BY <1>4, DirAssumption DEF Dir
        <4>3. m >= 1
          BY <1>2, <2>1, <4>1
        <4>4. C * 1 <= C * m
          BY <2>1, <4>3, Multiples
        <4> QED BY <2>1, <4>1, <4>2, <4>4
      <3>3. ASSUME NEW i \in L + 1 .. M PROVE s[i].type \notin {"label", "dot"} /\ ~ (i <= 2)
        BY <1>1, <2>4, <3>2, <3>3, FixedEntries
      <3> QED BY <1>1, <2>3, <2>4, <3>1, <3>3
    <2>15. NameSet(s) = NameSet(o)
      BY <1>1, <2>3, <2>4, <2>6, <2>7 DEF NameSet
    <2>16. \A n \in Name : HasName(s, n) <=> HasName(o, n)
      BY <1>1, <2>3, <2>4, <2>6, <2>7 DEF HasName
    <2> QED BY <2>2, <2>3, <2>4, <2>7, <2>8, <2>9, <2>10, <2>11, <2>12, <2>13, <2>14, <2>15, <2>16
            DEF DirOK, GoodDirectory, M, L, o
  <1>5. s = o \/ (s = o \o NewCluster /\ d # Root /\ L < MaxClusters * ClusterSlots)
    BY <1>1 DEF Enlarged
  <1> QED BY <1>3, <1>4, <1>5

(* A name that is not there, stored where fat_modifyDirSpace stores it.    *)
LEMMA StoredOK ==
  ASSUME NEW d \in Dir, DirOK(d, slots[d]), slots[d] # <<>>,
         NEW n \in Name, NEW k \in Kind, ~ HasName(slots[d], n),
         NEW s \in Enlarged(d, GetDirentryStoreOffset(slots[d], Parts[n] + 1) - 1 + (Parts[n] + 1))
  PROVE  LET t == Saved(s, GetDirentryStoreOffset(slots[d], Parts[n] + 1), CreateDirentry(n, k))
         IN  /\ DirOK(d, t) /\ t # <<>>
             /\ NameSet(t) = NameSet(slots[d]) \union {<<n, k>>}
  <1> DEFINE o == slots[d]
             P == Parts[n]
             at == GetDirentryStoreOffset(slots[d], Parts[n] + 1)
             t == Saved(s, at, CreateDirentry(n, k))
  <1>1. P \in Nat \ {0} /\ P + 1 \in Nat \ {0} /\ P + 1 <= ClusterSlots /\ ClusterSlots \in Nat
    BY PartsIs, DirAssumption
  <1>2. GoodDirectory(o) /\ o # <<>> /\ Len(o) \in Nat /\ DOMAIN o = 1 .. Len(o)
    BY EntryAt DEF DirOK, GoodDirectory, Fits
  <1>3. /\ at \in Nat /\ at >= 2 /\ at <= Len(o) + 1
        /\ \A i \in 1 .. at - 1 : o[i] # End
        /\ \A i \in at .. at + (P + 1) - 1 : i <= Len(o) => Empty(o[i])
    BY <1>1, <1>2, StoreOffsetIs
  <1> DEFINE needed == at - 1 + (P + 1)
  <1>4. needed \in Nat /\ needed <= Len(o) + ClusterSlots /\ needed = at + P
    <2> DEFINE L == Len(o)
    <2>1. L \in Nat /\ at \in Nat /\ at >= 2 /\ at <= L + 1
      BY <1>2, <1>3
    <2> HIDE DEF L, P
    <2>2. needed \in Nat /\ needed <= L + ClusterSlots /\ needed = at + P
      BY <1>1, <2>1
    <2> QED BY <2>2 DEF L
  <1>5. /\ DirOK(d, s) /\ needed <= Len(s)
        /\ Len(o) <= Len(s)
        /\ \A i \in 1 .. Len(o) : s[i] = o[i]
        /\ \A i \in Len(o) + 1 .. Len(s) : s[i] = End
        /\ NameSet(s) = NameSet(o)
        /\ ~ HasName(s, n)
    <2> HIDE DEF needed
    <2> QED BY <1>4, EnlargedOK DEF needed
  <1>6. GoodDirectory(s) /\ Len(s) \in Nat /\ DOMAIN s = 1 .. Len(s)
    BY <1>5, EntryAt DEF DirOK, GoodDirectory, Fits
  <1> HIDE DEF o, P, t, at
  <1>7. \A i \in 1 .. at - 1 : s[i] # End
    BY <1>2, <1>3, <1>5
  <1>8. \A i \in at .. at + P : Empty(s[i])
    <2> SUFFICES ASSUME NEW i \in at .. at + P PROVE Empty(s[i])
      OBVIOUS
    <2>1. CASE i <= Len(o)
      <3>1. i \in at .. at + (P + 1) - 1 /\ i \in 1 .. Len(o)
        BY <1>1, <1>2, <1>3, <2>1
      <3> QED BY <1>3, <1>5, <2>1, <3>1
    <2>2. CASE ~ (i <= Len(o))
      <3>1. i \in Len(o) + 1 .. Len(s)
        BY <1>1, <1>2, <1>3, <1>4, <1>5, <1>6, <2>2
      <3> QED BY <1>5, <3>1 DEF Empty
    <2> QED BY <2>1, <2>2
  <1>9. /\ GoodDirectory(t) /\ Len(t) = Len(s)
        /\ NameSet(t) = NameSet(s) \union {<<n, k>>}
    BY <1>3, <1>4, <1>5, <1>6, <1>7, <1>8, SavedGood DEF P, t
  <1>10. at + P <= Len(s) /\ at \in Nat \ {0} /\ s \in Seq(Entry)
    BY <1>3, <1>4, <1>5, <1>6 DEF GoodDirectory, Fits
  <1>11. /\ t[at + P] = Sfn(n, k)
         /\ \A i \in at .. at + P - 1 : t[i] = Lfn(n, at + P - i)
         /\ \A i \in 1 .. Len(s) : i \notin at .. at + P => t[i] = s[i]
    <2> DEFINE u == Saved(s, at, CreateDirentry(n, k))
               e == at + Parts[n]
    <2>1. at + Parts[n] <= Len(s)
      BY <1>10 DEF P
    <2>2. /\ \A i \in at .. e - 1 : u[i] = Lfn(n, e - i)
          /\ u[e] = Sfn(n, k)
          /\ \A i \in 1 .. Len(s) : i \notin at .. e => u[i] = s[i]
      <3> HIDE DEF u, e
      <3> QED BY <1>10, <2>1, SavedAre DEF u, e
    <2>3. t = u /\ at + P = e
      BY Zenon DEF P, t
    <2> HIDE DEF u, e
    <2> QED BY <1>1, <1>10, <2>2, <2>3
  <1>12. \A i \in at .. at + P : s[i].type \notin {"label", "dot"} /\ t[i].type \notin {"label", "dot"}
    <2> SUFFICES ASSUME NEW i \in at .. at + P
                 PROVE  s[i].type \notin {"label", "dot"} /\ t[i].type \notin {"label", "dot"}
      OBVIOUS
    <2>1. s[i].type \notin {"label", "dot"}
      BY <1>8, FixedEntries DEF Empty
    <2>2. CASE i = at + P
      BY <1>11, <2>1, <2>2, SfnIs
    <2>3. CASE i # at + P
      <3> DEFINE p == at + P - i
      <3>1. i \in at .. at + P - 1 /\ p \in 1 .. P
        <4>1. at \in Nat
          BY <1>10
        <4> QED BY <1>1, <2>3, <4>1
      <3>2. p \in 1 .. DeStackSize - 1
        BY <1>1, <3>1, PartsIs, DirAssumption DEF P
      <3>3. t[i] = Lfn(n, p)
        BY <1>11, <3>1
      <3> HIDE DEF p
      <3> QED BY <2>1, <3>2, <3>3, LfnIs
    <2> QED BY <2>2, <2>3
  <1>13. d # Root => \A i \in DOMAIN t : t[i].type \in {"label", "dot"} <=> i <= 2
    <2> SUFFICES ASSUME d # Root, NEW i \in DOMAIN t
                 PROVE  t[i].type \in {"label", "dot"} <=> i <= 2
      OBVIOUS
    <2>1. i \in 1 .. Len(s) /\ i \in DOMAIN s
      BY <1>6, <1>9, EntryAt DEF GoodDirectory, Fits
    <2>2. s[i].type \in {"label", "dot"} <=> i <= 2
      BY <1>5, <2>1 DEF DirOK
    <2> QED BY <1>11, <1>12, <2>1, <2>2
  <1>14. DirOK(d, t)
    BY <1>5, <1>9, <1>13 DEF DirOK
  <1>15. t # <<>>
    BY <1>1, <1>3, <1>9, <1>10
  <1> QED BY <1>5, <1>9, <1>14, <1>15 DEF t, o, at
-----------------------------------------------------------------------------
(* A directory that was made: it holds nothing but its own two entries.    *)
LEMMA NewDirectoryOK ==
  ASSUME NEW d \in DirName
  PROVE  DirOK(d, NewDirectory) /\ NewDirectory # <<>> /\ NameSet(NewDirectory) = {}
  <1> DEFINE s == NewDirectory
             C == ClusterSlots
  <1>1. C \in Nat /\ C >= 2 /\ d \in Dir /\ d # Root /\ MaxClusters \in Nat \ {0}
    <2>1. d \in Name
      BY DirAssumption
    <2>2. Parts[d] \in Nat \ {0} /\ Parts[d] + 1 <= DeStackSize
      BY <2>1, DirAssumption
    <2> QED BY <2>2, DirAssumption DEF Dir
  <1>2. /\ s \in Seq(Entry) /\ Len(s) = C /\ DOMAIN s = 1 .. C
        /\ \A i \in 1 .. C : s[i] = IF i <= 2 THEN Dot ELSE End
    BY <1>1, FixedEntries DEF NewDirectory
  <1> HIDE DEF s, C
  <1>3. \A i \in 1 .. C : s[i].type = IF i <= 2 THEN "dot" ELSE "end"
    BY <1>2, FixedEntries
  <1>4. Room(d, C)
    <2>1. C * 1 = C /\ 1 \in 0 .. MaxClusters
      BY <1>1
    <2> QED BY <1>1, <2>1 DEF Room, C
  <1>5. Fits(s) /\ Headed(s) /\ Whole(s) /\ Once(s)
    BY <1>1, <1>2, <1>3, <1>4, RoomFits DEF Fits, Headed, Whole, Once
  <1>6. Visible(s)
    BY <1>1, <1>2, <1>3, FixedEntries DEF Visible
  <1>7. NameSet(s) = {}
    BY <1>2, <1>3 DEF NameSet
  <1>8. \A i \in DOMAIN s : s[i].type \in {"label", "dot"} <=> i <= 2
    BY <1>1, <1>2, <1>3
  <1> QED BY <1>1, <1>2, <1>4, <1>5, <1>6, <1>7, <1>8 DEF DirOK, GoodDirectory, s

LEMMA NoDirectoryOK ==
  ASSUME NEW d \in DirName
  PROVE  DirOK(d, <<>>) /\ NameSet(<<>>) = {}
  <1>1. d # Root /\ MaxClusters \in Nat /\ ClusterSlots \in Nat /\ MaxRecord \in Nat
    BY DirAssumption
  <1>2. <<>> \in Seq(Entry) /\ Len(<<>>) = 0 /\ DOMAIN <<>> = {}
    OBVIOUS
  <1>3. Room(d, 0)
    <2>1. ClusterSlots * 0 = 0 /\ 0 \in 0 .. MaxClusters
      BY <1>1
    <2> QED BY <1>1, <2>1 DEF Room
  <1>4. Fits(<<>>)
    BY <1>1, <1>2 DEF Fits
  <1> QED BY <1>2, <1>3, <1>4 DEF DirOK, GoodDirectory, Headed, Whole, Visible, Once, NameSet
-----------------------------------------------------------------------------
LEMMA LongPlacesAre ==
  ASSUME NEW d \in Dir, GoodDirectory(slots[d]), NEW h \in DOMAIN slots[d], slots[d][h].type = "sfn"
  PROVE  LET n == slots[d][h].name
         IN  /\ LongPlaces(d, h, n) \in Seq(Place) /\ Len(LongPlaces(d, h, n)) = Parts[n]
             /\ NamePlaces(d, h, n) \in Seq(Place) /\ Len(NamePlaces(d, h, n)) = Parts[n] + 1
             /\ \A i \in 1 .. Parts[n] : NamePlaces(d, h, n)[i] = <<d, h - Parts[n] + i - 1>>
             /\ NamePlaces(d, h, n)[Parts[n] + 1] = <<d, h>>
  <1> DEFINE n == slots[d][h].name
             P == Parts[n]
             l == LongPlaces(d, h, n)
             L == Len(slots[d])
  <1>1. /\ n \in Name /\ P \in Nat \ {0} /\ h - P - 1 \in Nat \ {0}
        /\ h \in Nat /\ h <= L
    BY BeforeName
  <1>2. L \in Nat /\ L <= MaxRecord /\ MaxRecord \in Nat
    BY EntryAt, DirAssumption DEF GoodDirectory, Fits
  <1> HIDE DEF n, P, L
  <1>3. \A i \in 1 .. P : <<d, h - P + i - 1>> \in Place
    <2> SUFFICES ASSUME NEW i \in 1 .. P PROVE h - P + i - 1 \in 1 .. MaxRecord
      BY DEF Place
    <2> QED BY <1>1, <1>2
  <1>4. l = [i \in 1 .. P |-> <<d, h - P + i - 1>>]
    BY DEF LongPlaces, P
  <1> HIDE DEF l
  <1>5. l \in [1 .. P -> Place]
    BY <1>3, <1>4
  <1>6. l \in Seq(Place) /\ Len(l) = P
    BY <1>1, <1>5
  <1>7. <<d, h>> \in Place
    <2>1. h \in 1 .. MaxRecord
      BY <1>1, <1>2
    <2> QED BY <2>1 DEF Place
  <1> DEFINE b == Append(l, <<d, h>>)
  <1>8. /\ b \in Seq(Place) /\ Len(b) = P + 1
        /\ \A i \in 1 .. P : b[i] = l[i]
        /\ b[P + 1] = <<d, h>>
    BY <1>1, <1>6, <1>7, AppendProperties
  <1> HIDE DEF b
  <1>9. \A i \in 1 .. P : b[i] = <<d, h - P + i - 1>>
    BY <1>4, <1>8
  <1> QED BY <1>6, <1>8, <1>9 DEF NamePlaces, n, P, l, b

(* The removal of a name marks its own entries and no other.               *)
LEMMA MarkedOK ==
  ASSUME NEW d \in Dir, DirsOK(slots), NEW h \in DOMAIN slots[d], slots[d][h].type = "sfn"
  PROVE  LET n == slots[d][h].name
             t == Marked(NamePlaces(d, h, n))
         IN  /\ DOMAIN t = Dir
             /\ \A e \in Dir : e # d => t[e] = slots[e]
             /\ DirOK(d, t[d]) /\ t[d] # <<>>
             /\ NameSet(t[d]) = NameSet(slots[d]) \ {<<n, slots[d][h].kind>>}
  <1> DEFINE s == slots[d]
             n == s[h].name
             P == Parts[n]
             L == Len(s)
             stack == NamePlaces(d, h, n)
             t == Marked(stack)
  <1>1. /\ DirOK(d, s) /\ GoodDirectory(s) /\ L \in Nat /\ DOMAIN s = 1 .. L
        /\ \A e \in Dir : slots[e] \in Seq(Entry)
    BY EntryAt DEF DirsOK, DirOK, GoodDirectory, Fits
  <1>2. /\ n \in Name /\ P \in Nat \ {0} /\ h - P - 1 \in Nat \ {0}
        /\ h \in Nat /\ h <= L
    BY <1>1, BeforeName
  <1>3. /\ stack \in Seq(Place) /\ Len(stack) = P + 1
        /\ \A i \in 1 .. P : stack[i] = <<d, h - P + i - 1>>
        /\ stack[P + 1] = <<d, h>>
    BY <1>1, LongPlacesAre
  <1>4. DOMAIN stack = 1 .. P + 1
    BY <1>3
  <1>5. /\ DOMAIN t = Dir
        /\ \A e \in Dir : t[e] = [i \in DOMAIN slots[e] |->
                                    IF \E j \in DOMAIN stack : stack[j] = <<e, i>> THEN Deleted ELSE slots[e][i]]
    BY DEF Marked
  <1> HIDE DEF s, n, P, L, stack, t
  <1>6. ASSUME NEW j \in 1 .. P + 1
        PROVE  stack[j] = <<d, h - P + j - 1>>
    <2>1. j \in 1 .. P \/ (j = P + 1 /\ h - P + j - 1 = h)
      BY <1>2
    <2> QED BY <1>3, <2>1
  <1>7. ASSUME NEW e \in Dir, e # d PROVE t[e] = slots[e]
    <2>1. \A i \in DOMAIN slots[e] : ~ (\E j \in DOMAIN stack : stack[j] = <<e, i>>)
      BY <1>4, <1>6, <1>7
    <2>2. t[e] = [i \in DOMAIN slots[e] |-> slots[e][i]]
      BY <1>5, <2>1
    <2> QED BY <1>1, <2>2
  <1>8. \A i \in 1 .. L : (\E j \in DOMAIN stack : stack[j] = <<d, i>>) <=> i \in h - P .. h
    <2> SUFFICES ASSUME NEW i \in 1 .. L
                 PROVE  (\E j \in 1 .. P + 1 : stack[j] = <<d, i>>) <=> i \in h - P .. h
      BY <1>4
    <2>1. ASSUME NEW j \in 1 .. P + 1, stack[j] = <<d, i>> PROVE i \in h - P .. h
      <3>1. i = h - P + j - 1
        BY <1>6, <2>1
      <3> QED BY <1>2, <3>1
    <2>2. ASSUME i \in h - P .. h PROVE \E j \in 1 .. P + 1 : stack[j] = <<d, i>>
      <3> DEFINE j == i - h + P + 1
      <3>1. j \in 1 .. P + 1 /\ h - P + j - 1 = i
        BY <1>2, <2>2
      <3> HIDE DEF j
      <3> QED BY <1>6, <3>1
    <2> QED BY <2>1, <2>2
  <1>9. /\ DOMAIN t[d] = DOMAIN s
        /\ t[d] = [i \in DOMAIN t[d] |-> t[d][i]]
        /\ \A i \in DOMAIN s : t[d][i] = IF i \in h - P .. h THEN Deleted ELSE s[i]
    <2>1. t[d] = [i \in 1 .. L |-> IF \E j \in DOMAIN stack : stack[j] = <<d, i>> THEN Deleted ELSE s[i]]
      BY <1>1, <1>5, Zenon DEF s
    <2> QED BY <1>1, <1>8, <2>1
  <1>10. h \in DOMAIN s /\ s[h].type = "sfn" /\ s[h].name = n /\ P = Parts[s[h].name]
    BY DEF s, n, P
  <1>11. /\ GoodDirectory(t[d]) /\ Len(t[d]) = Len(s)
         /\ NameSet(t[d]) = NameSet(s) \ {<<n, s[h].kind>>}
         /\ \A i \in DOMAIN s : s[i].type \in {"label", "dot"} => t[d][i] = s[i]
    BY <1>1, <1>9, <1>10, MarkedGood, SMTT(60)
  <1>12. d # Root => \A i \in DOMAIN t[d] : t[d][i].type \in {"label", "dot"} <=> i <= 2
    BY <1>1, <1>9, <1>11, FixedEntries DEF DirOK
  <1>13. DirOK(d, t[d])
    BY <1>1, <1>11, <1>12 DEF DirOK
  <1>14. t[d] # <<>>
    BY <1>1, <1>2, <1>11 DEF L
  <1> QED BY <1>5, <1>7, <1>11, <1>13, <1>14 DEF s, n, t, stack
-----------------------------------------------------------------------------
LEMMA NamesAre ==
  ASSUME NEW s, GoodDirectory(s)
  PROVE  {<<s[i].name, s[i].kind>> : i \in {j \in 1 .. RecordCount(s) : s[j].type = "sfn"}} = NameSet(s)
  <1>1. {j \in 1 .. RecordCount(s) : s[j].type = "sfn"} = {j \in DOMAIN s : s[j].type = "sfn"}
    <2>1. Len(s) \in Nat /\ DOMAIN s = 1 .. Len(s) /\ RecordCount(s) \in 0 .. Len(s)
      BY RecordsAre, EntryAt DEF GoodDirectory, Fits
    <2>2. \A j \in 1 .. RecordCount(s) : j \in DOMAIN s
      BY <2>1
    <2>3. \A j \in DOMAIN s : s[j].type = "sfn" => j \in 1 .. RecordCount(s)
      BY NamesAreSeen DEF GoodDirectory
    <2> QED BY <2>2, <2>3
  <1> QED BY <1>1 DEF NameSet

LEMMA HasNameIs ==
  ASSUME NEW s \in Seq(Entry), NEW n
  PROVE  HasName(s, n) <=> \E k \in Kind : <<n, k>> \in NameSet(s)
  <1>1. ASSUME NEW i \in DOMAIN s, s[i].type = "sfn" PROVE s[i].kind \in Kind
    <2>1. s[i] \in Entry
      BY EntryAt
    <2> QED BY <1>1, <2>1, EntryIs
  <1> QED BY <1>1 DEF HasName, NameSet

LEMMA RootIsThere ==
  ASSUME DirsOK(slots)
  PROVE  Root \in Dir /\ slots[Root] # <<>>
  <1>1. Len(slots[Root]) = RootSlots /\ RootSlots # 0
    BY DirAssumption DEF DirsOK, DirOK, Room, Dir
  <1> QED BY <1>1 DEF Dir

(* All that the calls need to know of fat_fillDirentryInfo.                *)
LEMMA FillIs ==
  ASSUME DirsOK(slots), NEW d \in Dir, slots[d] # <<>>, NEW n \in Name, NEW k \in Kind, NEW stack
  PROVE  LET f == FillDirentryInfo(stack, d, n, k)
         IN  /\ f.stack \in Seq(Place) /\ Len(f.stack) <= DeStackSize
             /\ f.at = 0 => \A x \in Kind : <<n, x>> \notin NameSet(slots[d])
             /\ f.at = 0 <=> ~ HasName(slots[d], n)
             /\ f.at # 0 => /\ f.kind \in Kind /\ <<n, f.kind>> \in NameSet(slots[d])
                            /\ \A x \in Kind : <<n, x>> \in NameSet(slots[d]) => x = f.kind
             /\ f.at # 0 /\ f.kind = k =>
                  \E h \in DOMAIN slots[d] :
                    /\ slots[d][h].type = "sfn" /\ slots[d][h].name = n /\ slots[d][h].kind = k
                    /\ f.stack = NamePlaces(d, h, n)
  <1> DEFINE s == slots[d]
             f == FillDirentryInfo(stack, d, n, k)
  <1>1. GoodDirectory(s) /\ s \in Seq(Entry)
    BY DEF DirsOK, DirOK
  <1>2. HasName(s, n) <=> \E x \in Kind : <<n, x>> \in NameSet(s)
    BY <1>1, HasNameIs
  <1>3. CASE ~ HasName(s, n)
    <2>1. f.at = 0 /\ f.stack = <<>>
      BY <1>1, <1>3, FillAbsent
    <2>2. <<>> \in Seq(Place) /\ Len(<<>>) <= DeStackSize
      BY DirAssumption
    <2> HIDE DEF f
    <2> QED BY <1>2, <1>3, <2>1, <2>2 DEF f
  <1>4. CASE HasName(s, n)
    <2>1. PICK h \in DOMAIN s : s[h].type = "sfn" /\ s[h].name = n
      BY <1>4 DEF HasName
    <2>2. /\ f.at = h /\ f.kind = s[h].kind
          /\ f.kind = k => f.stack = NamePlaces(d, h, n)
          /\ f.kind # k => f.stack = LongPlaces(d, h, n)
      <3>1. f = [at |-> h, kind |-> s[h].kind,
                 stack |-> IF s[h].kind = k THEN NamePlaces(d, h, n) ELSE LongPlaces(d, h, n)]
        <4>1. h \in DOMAIN slots[d] /\ slots[d][h].type = "sfn" /\ slots[d][h].name = n /\ GoodDirectory(slots[d])
          BY <1>1, <2>1
        <4>2. FillDirentryInfo(stack, d, n, k) =
                [at |-> h, kind |-> slots[d][h].kind,
                 stack |-> IF slots[d][h].kind = k THEN NamePlaces(d, h, n) ELSE LongPlaces(d, h, n)]
          BY ONLY <4>1, k \in Kind, FillFound
        <4> QED BY <4>2
      <3> HIDE DEF f
      <3> QED BY <3>1
    <2>3. /\ LongPlaces(d, h, n) \in Seq(Place) /\ Len(LongPlaces(d, h, n)) = Parts[n]
          /\ NamePlaces(d, h, n) \in Seq(Place) /\ Len(NamePlaces(d, h, n)) = Parts[n] + 1
      BY <1>1, <2>1, LongPlacesAre
    <2>4. h # 0 /\ s[h].kind \in Kind
      <3>1. h \in 1 .. Len(s) /\ s[h] \in Entry
        BY <1>1, EntryAt
      <3> QED BY <2>1, <3>1, EntryIs
    <2>5. <<n, s[h].kind>> \in NameSet(s)
      BY <2>1 DEF NameSet
    <2>6. \A x \in Kind : <<n, x>> \in NameSet(s) => x = s[h].kind
      <3> SUFFICES ASSUME NEW x \in Kind, NEW i \in DOMAIN s, s[i].type = "sfn", <<n, x>> = <<s[i].name, s[i].kind>>
                   PROVE  x = s[h].kind
        BY DEF NameSet
      <3>1. i = h
        BY <1>1, <2>1 DEF GoodDirectory, Once
      <3> QED BY <3>1
    <2>7. Parts[n] \in Nat /\ Parts[n] + 1 <= DeStackSize /\ DeStackSize \in Nat
      BY DirAssumption
    <2>8. f.stack \in Seq(Place) /\ Len(f.stack) <= DeStackSize
      <3>1. CASE f.kind = k
        BY <2>2, <2>3, <2>7, <3>1
      <3>2. CASE f.kind # k
        BY <2>2, <2>3, <2>7, <3>2
      <3> QED BY <3>1, <3>2
    <2> HIDE DEF f, s
    <2>9. f.at # 0 /\ f.kind \in Kind /\ <<n, f.kind>> \in NameSet(s)
      BY <2>2, <2>4, <2>5
    <2>10. f.kind = k => \E i \in DOMAIN s : /\ s[i].type = "sfn" /\ s[i].name = n /\ s[i].kind = k
                                             /\ f.stack = NamePlaces(d, i, n)
      BY <2>1, <2>2
    <2> QED BY <1>4, <2>2, <2>6, <2>8, <2>9, <2>10 DEF f, s
  <1> QED BY <1>3, <1>4

(* What may become of a directory before a name is stored in it.           *)
LEMMA SpaceOK ==
  ASSUME NEW d \in Dir, DirOK(d, slots[d]), slots[d] # <<>>, NEW n \in Name,
         NEW s \in Enlarged(d, GetDirentryStoreOffset(slots[d], Parts[n] + 1) - 1 + (Parts[n] + 1))
  PROVE  DirOK(d, s) /\ s # <<>> /\ NameSet(s) = NameSet(slots[d])
  <1> DEFINE at == GetDirentryStoreOffset(slots[d], Parts[n] + 1)
             L == Len(slots[d])
             needed == at - 1 + (Parts[n] + 1)
  <1>1. /\ Parts[n] \in Nat \ {0} /\ Parts[n] + 1 \in Nat \ {0} /\ Parts[n] + 1 <= ClusterSlots
        /\ ClusterSlots \in Nat
    BY PartsIs, DirAssumption
  <1>2. GoodDirectory(slots[d]) /\ L \in Nat /\ L # 0
    BY EntryAt, EmptySeq DEF DirOK, GoodDirectory, Fits
  <1>3. at \in Nat /\ at >= 2 /\ at <= L + 1
    BY <1>1, <1>2, StoreOffsetIs
  <1>4. needed \in Nat /\ needed <= L + ClusterSlots
    <2>1. L \in Nat
      BY <1>2
    <2> HIDE DEF at, L
    <2> QED BY <1>1, <1>3, <2>1
  <1> HIDE DEF needed
  <1>5. DirOK(d, s) /\ L <= Len(s) /\ NameSet(s) = NameSet(slots[d])
    BY <1>4, EnlargedOK DEF needed
  <1>6. s # <<>>
    <2> HIDE DEF L
    <2> QED BY <1>2, <1>5
  <1> QED BY <1>5, <1>6

(* One directory changes, and names the same directories.                  *)
LEMMA OneChanged ==
  ASSUME DirsOK(slots), NEW d \in Dir, slots[d] # <<>>,
         NEW s, DirOK(d, s), s # <<>>,
         d = Root => \A x \in DirName : <<x, "dir">> \in NameSet(s) <=> <<x, "dir">> \in NameSet(slots[Root]),
         NEW t, t = [e \in Dir |-> IF e = d THEN s ELSE slots[e]]
  PROVE  DirsOK(t)
  <1>1. s \in Seq(Entry)
    BY DEF DirOK, GoodDirectory, Fits
  <1>2. \A e \in Dir : t[e] = IF e = d THEN s ELSE slots[e]
    OBVIOUS
  <1>3. t \in [Dir -> Seq(Entry)] /\ \A e \in Dir : DirOK(e, t[e])
    BY <1>1, <1>2 DEF DirsOK
  <1>4. Linked(t)
    <2> SUFFICES ASSUME NEW x \in DirName PROVE t[x] # <<>> <=> <<x, "dir">> \in NameSet(t[Root])
      BY DEF Linked
    <2>1. x \in Dir /\ Root \in Dir /\ x # Root
      BY DirAssumption DEF Dir
    <2>2. slots[x] # <<>> <=> <<x, "dir">> \in NameSet(slots[Root])
      BY DEF DirsOK, Linked
    <2> QED BY <1>2, <2>1, <2>2
  <1> QED BY <1>3, <1>4 DEF DirsOK

(* A directory comes or goes, and its name with it.                        *)
LEMMA LinkChanged ==
  ASSUME DirsOK(slots), NEW n \in DirName, NEW s, DirOK(Root, s), NEW c, DirOK(n, c),
         c # <<>> <=> <<n, "dir">> \in NameSet(s),
         \A x \in DirName \ {n} : <<x, "dir">> \in NameSet(s) <=> <<x, "dir">> \in NameSet(slots[Root]),
         NEW t, t = [e \in Dir |-> IF e = Root THEN s ELSE IF e = n THEN c ELSE slots[e]]
  PROVE  DirsOK(t)
  <1>1. s \in Seq(Entry) /\ c \in Seq(Entry)
    BY DEF DirOK, GoodDirectory, Fits
  <1>2. \A e \in Dir : t[e] = IF e = Root THEN s ELSE IF e = n THEN c ELSE slots[e]
    OBVIOUS
  <1>3. t \in [Dir -> Seq(Entry)] /\ \A e \in Dir : DirOK(e, t[e])
    BY <1>1, <1>2 DEF DirsOK
  <1>4. Linked(t)
    <2> SUFFICES ASSUME NEW x \in DirName PROVE t[x] # <<>> <=> <<x, "dir">> \in NameSet(t[Root])
      BY DEF Linked
    <2>1. x \in Dir /\ Root \in Dir /\ x # Root
      BY DirAssumption DEF Dir
    <2>2. slots[x] # <<>> <=> <<x, "dir">> \in NameSet(slots[Root])
      BY DEF DirsOK, Linked
    <2> QED BY <1>2, <2>1, <2>2
  <1> QED BY <1>3, <1>4 DEF DirsOK
-----------------------------------------------------------------------------
(* The invariant, and what the directories are for their user.             *)
StackOK == deStack \in Seq(Place) /\ Len(deStack) <= DeStackSize

DirInv == DirsOK(slots) /\ StackOK

NamesOf(dirs) == [d \in Dir |-> NameSet(dirs[d])]

LEMMA NamesMapped ==
  /\ DirsOK(slots) => [d \in Dir |-> NamesIn(d)] = NamesOf(slots)
  /\ DirsOK(slots') => [d \in Dir |-> NamesIn(d)]' = NamesOf(slots')
  BY NamesAre DEF DirsOK, DirOK, NamesIn, NamesOf

LEMMA ThereMapped ==
  ASSUME DirsOK(slots), NEW d \in Dir, IsThere(d)
  PROVE  Names!IsThere(d)
  <1>1. CASE d = Root
    BY <1>1 DEF Names!IsThere
  <1>2. CASE d # Root
    <2>1. d \in DirName
      BY <1>2 DEF Dir
    <2>2. <<d, "dir">> \in NameSet(slots[Root])
      BY <2>1 DEF DirsOK, Linked, IsThere
    <2>3. [e \in Dir |-> NamesIn(e)][Root] = NameSet(slots[Root])
      BY NamesMapped, RootIsThere DEF NamesOf
    <2> QED BY <2>2, <2>3 DEF Names!IsThere
  <1> QED BY <1>1, <1>2

LEMMA LookStep ==
  ASSUME DirInv, NEW d \in Dir, NEW n \in Name, Look(d, n)
  PROVE  DirInv' /\ Names!Look(d, n)
  <1> DEFINE f == FillDirentryInfo(deStack, d, n, "file")
             N == [e \in Dir |-> NamesIn(e)]
  <1>1. DirsOK(slots) /\ slots[d] # <<>> /\ "file" \in Kind /\ slots' = slots
    BY DEF DirInv, Look, IsThere, Kind
  <1>2. /\ f.stack \in Seq(Place) /\ Len(f.stack) <= DeStackSize
        /\ f.at = 0 => \A x \in Kind : <<n, x>> \notin NameSet(slots[d])
        /\ f.at # 0 => /\ f.kind \in Kind /\ <<n, f.kind>> \in NameSet(slots[d])
                       /\ \A x \in Kind : <<n, x>> \in NameSet(slots[d]) => x = f.kind
    BY <1>1, FillIs
  <1>3. /\ deStack' = f.stack
        /\ Answer("look", d, n, "file", IF f.at = 0 THEN "absent"
                                        ELSE IF f.kind = "file" THEN "found" ELSE "other kind")
    BY DEF Look
  <1> HIDE DEF f
  <1>4. DirInv'
    BY <1>1, <1>2, <1>3 DEF DirInv, StackOK
  <1>5. Names!IsThere(d)
    BY <1>1, ThereMapped DEF IsThere
  <1>6. N = NamesOf(slots) /\ N' = N
    BY <1>1, NamesMapped
  <1>7. N[d] = NameSet(slots[d])
    BY <1>6 DEF NamesOf
  <1> HIDE DEF N
  <1>8. Names!Look(d, n)
    <2>1. (IF <<n, "file">> \in N[d] THEN "found"
           ELSE IF \E k \in Kind : <<n, k>> \in N[d] THEN "other kind" ELSE "absent")
          = (IF f.at = 0 THEN "absent" ELSE IF f.kind = "file" THEN "found" ELSE "other kind")
      BY <1>1, <1>2, <1>7
    <2> QED BY <1>3, <1>5, <1>6, <2>1 DEF Names!Look, Names!Answer, Names!Has, Answer, N, Names!Kind, Kind
  <1> QED BY <1>4, <1>8

LEMMA MakeStep ==
  ASSUME DirInv, NEW d \in Dir, NEW n \in Name, NEW k \in Kind, Make(d, n, k)
  PROVE  DirInv' /\ Names!Make(d, n, k)
  <1> DEFINE f == FillDirentryInfo(deStack, d, n, k)
             at == GetDirentryStoreOffset(slots[d], Parts[n] + 1)
             room == Enlarged(d, at - 1 + (Parts[n] + 1))
             N == [e \in Dir |-> NamesIn(e)]
  <1>1. /\ DirsOK(slots) /\ DirOK(d, slots[d]) /\ slots[d] # <<>> /\ slots \in [Dir -> Seq(Entry)]
        /\ k = "dir" => d = Root /\ n \in DirName
    BY DEF DirInv, DirsOK, Make, IsThere
  <1>2. /\ f.stack \in Seq(Place) /\ Len(f.stack) <= DeStackSize
        /\ f.at = 0 => \A x \in Kind : <<n, x>> \notin NameSet(slots[d])
        /\ f.at = 0 <=> ~ HasName(slots[d], n)
        /\ f.at # 0 => /\ f.kind \in Kind /\ <<n, f.kind>> \in NameSet(slots[d])
                       /\ \A x \in Kind : <<n, x>> \in NameSet(slots[d]) => x = f.kind
    BY <1>1, FillIs
  <1>3. Names!IsThere(d)
    BY <1>1, ThereMapped DEF IsThere
  <1>4. \A e \in Dir : N[e] = NameSet(slots[e])
    BY <1>1, NamesMapped DEF NamesOf
  <1>5. /\ deStack' = f.stack
        /\ \/ /\ f.at # 0
              /\ Answer("make", d, n, k, IF f.kind = k THEN "found" ELSE "other kind")
              /\ UNCHANGED slots
           \/ /\ f.at = 0
              /\ Answer("make", d, n, k, "no space")
              /\ slots' \in {slots} \union {[slots EXCEPT ![d] = s] : s \in room}
           \/ /\ f.at = 0
              /\ Answer("make", d, n, k, "made")
              /\ \E s \in room :
                   slots' = [e \in Dir |-> IF e = d THEN Saved(s, at, CreateDirentry(n, k))
                                           ELSE IF k = "dir" /\ e = n THEN NewDirectory
                                           ELSE slots[e]]
    BY DEF Make
  <1>6. ASSUME DirsOK(slots') PROVE DirInv' /\ \A e \in Dir : N'[e] = NameSet(slots'[e])
    <2>1. N' = NamesOf(slots')
      BY <1>6, NamesMapped
    <2>2. \A e \in Dir : NamesOf(slots')[e] = NameSet(slots'[e])
      BY DEF NamesOf
    <2> HIDE DEF N, f
    <2> QED BY <1>2, <1>5, <1>6, <2>1, <2>2 DEF DirInv, StackOK
  <1>7. DOMAIN N = Dir /\ DOMAIN N' = Dir /\ N = [e \in Dir |-> N[e]] /\ N' = [e \in Dir |-> N'[e]]
    OBVIOUS
  <1> HIDE DEF f, at, room
  <1>8. CASE f.at # 0
    <2>1. slots' = slots /\ Answer("make", d, n, k, IF f.kind = k THEN "found" ELSE "other kind")
      BY <1>5, <1>8
    <2>2. DirInv' /\ \A e \in Dir : N'[e] = NameSet(slots[e])
      BY <1>1, <1>6, <2>1
    <2> HIDE DEF N
    <2>3. N' = N
      BY <1>4, <1>7, <2>2
    <2>4. \E x \in Kind : <<n, x>> \in N[d]
      BY <1>2, <1>4, <1>8
    <2>5. (IF <<n, k>> \in N[d] THEN "found" ELSE "other kind") = (IF f.kind = k THEN "found" ELSE "other kind")
      BY <1>2, <1>4, <1>8
    <2>6. Names!Make(d, n, k)
      BY <1>3, <2>1, <2>3, <2>4, <2>5 DEF Names!Make, Names!Has, Names!Kind, Kind, Names!Answer, Answer, N
    <2> QED BY <2>2, <2>6
  <1>9. CASE f.at = 0 /\ Answer("make", d, n, k, "no space")
    <2>1. slots' \in {slots} \union {[slots EXCEPT ![d] = s] : s \in room}
      BY <1>5, <1>9 DEF Answer
    <2>2. CASE slots' = slots
      <3>1. DirInv' /\ \A e \in Dir : N'[e] = NameSet(slots[e])
        BY <1>1, <1>6, <2>2
      <3> HIDE DEF N
      <3>2. N' = N
        BY <1>4, <1>7, <3>1
      <3>3. ~ \E x \in Kind : <<n, x>> \in N[d]
        BY <1>2, <1>4, <1>9
      <3>4. Names!Make(d, n, k)
        BY <1>3, <1>9, <3>2, <3>3 DEF Names!Make, Names!Has, Names!Kind, Kind, Names!Answer, Answer, N
      <3> QED BY <3>1, <3>4
    <2>3. CASE \E s \in room : slots' = [slots EXCEPT ![d] = s]
      <3>1. PICK s \in room : slots' = [slots EXCEPT ![d] = s]
        BY <2>3
      <3>2. DirOK(d, s) /\ s # <<>> /\ NameSet(s) = NameSet(slots[d])
        BY <1>1, SpaceOK DEF room, at
      <3>3. slots' = [e \in Dir |-> IF e = d THEN s ELSE slots[e]]
        BY <1>1, <3>1
      <3>4. DirsOK(slots')
        BY <1>1, <3>2, <3>3, OneChanged
      <3>5. DirInv' /\ \A e \in Dir : N'[e] = NameSet(slots[e])
        BY <1>6, <3>2, <3>3, <3>4
      <3> HIDE DEF N
      <3>6. N' = N
        BY <1>4, <1>7, <3>5
      <3>7. ~ \E x \in Kind : <<n, x>> \in N[d]
        BY <1>2, <1>4, <1>9
      <3>8. Names!Make(d, n, k)
        BY <1>3, <1>9, <3>6, <3>7 DEF Names!Make, Names!Has, Names!Kind, Kind, Names!Answer, Answer, N
      <3> QED BY <3>5, <3>8
    <2> QED BY <2>1, <2>2, <2>3
  <1>10. CASE f.at = 0 /\ ~ Answer("make", d, n, k, "no space")
    <2>1. Answer("make", d, n, k, "made")
      BY <1>5, <1>10
    <2>2. PICK s \in room :
            slots' = [e \in Dir |-> IF e = d THEN Saved(s, at, CreateDirentry(n, k))
                                    ELSE IF k = "dir" /\ e = n THEN NewDirectory
                                    ELSE slots[e]]
      BY <1>5, <1>10
    <2> DEFINE t == Saved(s, at, CreateDirentry(n, k))
    <2>3. /\ DirOK(d, t) /\ t # <<>>
          /\ NameSet(t) = NameSet(slots[d]) \union {<<n, k>>}
      <3>1. ~ HasName(slots[d], n)
        BY <1>2, <1>10
      <3>2. at = GetDirentryStoreOffset(slots[d], Parts[n] + 1) /\ s \in Enlarged(d, at - 1 + (Parts[n] + 1))
        BY DEF room, at
      <3> QED BY ONLY d \in Dir, n \in Name, k \in Kind, <1>1, <3>1, <3>2, StoredOK DEF t
    <2> HIDE DEF t
    <2>4. DirsOK(slots') /\ \A e \in Dir : e # d => NameSet(slots'[e]) = NameSet(slots[e])
      <3>1. CASE k = "file"
        <4>1. slots' = [e \in Dir |-> IF e = d THEN t ELSE slots[e]]
          BY <2>2, <3>1 DEF t
        <4>2. \A x \in DirName : <<x, "dir">> \in NameSet(t) <=> <<x, "dir">> \in NameSet(slots[d])
          BY <2>3, <3>1
        <4>3. DirsOK(slots')
          BY <1>1, <2>3, <4>1, <4>2, OneChanged
        <4> QED BY <4>1, <4>3
      <3>2. CASE k = "dir"
        <4>1. d = Root /\ n \in DirName /\ n # Root /\ n \in Dir
          BY <1>1, <3>2, DirAssumption DEF Dir
        <4>2. slots' = [e \in Dir |-> IF e = Root THEN t ELSE IF e = n THEN NewDirectory ELSE slots[e]]
          BY <2>2, <3>2, <4>1 DEF t
        <4>3. DirOK(n, NewDirectory) /\ NewDirectory # <<>> /\ NameSet(NewDirectory) = {}
          BY <4>1, NewDirectoryOK
        <4>4. <<n, "dir">> \in NameSet(t) /\ <<n, "dir">> \notin NameSet(slots[Root])
          BY <1>2, <1>10, <2>3, <3>2, <4>1
        <4>5. \A x \in DirName \ {n} : <<x, "dir">> \in NameSet(t) <=> <<x, "dir">> \in NameSet(slots[Root])
          BY <2>3, <4>1
        <4>6. DirsOK(slots')
          <5>1. DirOK(Root, t) /\ (NewDirectory # <<>> <=> <<n, "dir">> \in NameSet(t))
            BY <2>3, <4>1, <4>3, <4>4
          <5> QED BY ONLY <1>1, <4>1, <4>2, <4>3, <4>5, <5>1, LinkChanged, ZenonT(60)
        <4>7. slots[n] = <<>> /\ NameSet(slots[n]) = {}
          BY <1>1, <4>1, <4>4, NoDirectoryOK DEF DirsOK, Linked
        <4> QED BY <4>1, <4>2, <4>3, <4>6, <4>7
      <3> QED BY <3>1, <3>2 DEF Kind
    <2>5. slots'[d] = t
      BY <2>2 DEF t
    <2>6. DirInv' /\ \A e \in Dir : N'[e] = NameSet(slots'[e])
      BY <1>6, <2>4
    <2> HIDE DEF N
    <2>7. N' = [N EXCEPT ![d] = @ \union {<<n, k>>}]
      BY <1>4, <1>7, <2>3, <2>4, <2>5, <2>6
    <2>8. ~ \E x \in Kind : <<n, x>> \in N[d]
      BY <1>2, <1>4, <1>10
    <2>9. Names!Make(d, n, k)
      BY <1>3, <2>1, <2>7, <2>8 DEF Names!Make, Names!Has, Names!Kind, Kind, Names!Answer, Answer, N
    <2> QED BY <2>6, <2>9
  <1> QED BY <1>8, <1>9, <1>10

LEMMA RemoveStep ==
  ASSUME DirInv, NEW d \in Dir, NEW n \in Name, Remove(d, n)
  PROVE  DirInv' /\ Names!Drop(d, n, "file")
  <1> DEFINE f == FillDirentryInfo(deStack, d, n, "file")
             found == f.at # 0 /\ f.kind = "file"
             N == [e \in Dir |-> NamesIn(e)]
  <1>1. /\ DirsOK(slots) /\ DirOK(d, slots[d]) /\ slots[d] # <<>> /\ slots \in [Dir -> Seq(Entry)]
        /\ "file" \in Kind
    BY DEF DirInv, DirsOK, Remove, IsThere, Kind
  <1>2. /\ f.stack \in Seq(Place) /\ Len(f.stack) <= DeStackSize
        /\ f.at = 0 => \A x \in Kind : <<n, x>> \notin NameSet(slots[d])
        /\ f.at # 0 => /\ f.kind \in Kind /\ <<n, f.kind>> \in NameSet(slots[d])
                       /\ \A x \in Kind : <<n, x>> \in NameSet(slots[d]) => x = f.kind
        /\ f.at # 0 /\ f.kind = "file" =>
             \E h \in DOMAIN slots[d] :
               /\ slots[d][h].type = "sfn" /\ slots[d][h].name = n /\ slots[d][h].kind = "file"
               /\ f.stack = NamePlaces(d, h, n)
    BY <1>1, FillIs
  <1>3. Names!IsThere(d)
    BY <1>1, ThereMapped DEF IsThere
  <1>4. \A e \in Dir : N[e] = NameSet(slots[e])
    BY <1>1, NamesMapped DEF NamesOf
  <1>5. /\ deStack' = f.stack
        /\ slots' = IF found THEN Marked(f.stack) ELSE slots
        /\ Answer("drop", d, n, "file", IF found THEN "dropped" ELSE "absent")
    BY DEF Remove
  <1> HIDE DEF f
  <1>6. ASSUME DirsOK(slots') PROVE DirInv' /\ \A e \in Dir : N'[e] = NameSet(slots'[e])
    <2>1. N' = NamesOf(slots')
      BY <1>6, NamesMapped
    <2>2. \A e \in Dir : NamesOf(slots')[e] = NameSet(slots'[e])
      BY DEF NamesOf
    <2> HIDE DEF N
    <2> QED BY <1>2, <1>5, <1>6, <2>1, <2>2 DEF DirInv, StackOK
  <1>7. DOMAIN N = Dir /\ DOMAIN N' = Dir /\ N = [e \in Dir |-> N[e]] /\ N' = [e \in Dir |-> N'[e]]
    OBVIOUS
  <1>8. CASE ~ found
    <2>1. DirInv' /\ \A e \in Dir : N'[e] = NameSet(slots[e])
      BY <1>1, <1>5, <1>6, <1>8
    <2> HIDE DEF N
    <2>2. N' = N
      BY <1>4, <1>7, <2>1
    <2>3. <<n, "file">> \notin N[d]
      BY <1>1, <1>2, <1>4, <1>8
    <2>4. Names!Drop(d, n, "file")
      BY <1>3, <1>5, <1>8, <2>2, <2>3 DEF Names!Drop, Names!Answer, Answer, N
    <2> QED BY <2>1, <2>4
  <1>9. CASE found
    <2>1. PICK h \in DOMAIN slots[d] :
            /\ slots[d][h].type = "sfn" /\ slots[d][h].name = n /\ slots[d][h].kind = "file"
            /\ f.stack = NamePlaces(d, h, n)
      BY <1>2, <1>9
    <2> DEFINE t == slots'
    <2>2. t = Marked(NamePlaces(d, h, slots[d][h].name))
      BY <1>5, <1>9, <2>1
    <2>3. /\ DOMAIN t = Dir
          /\ \A e \in Dir : e # d => t[e] = slots[e]
          /\ DirOK(d, t[d]) /\ t[d] # <<>>
          /\ NameSet(t[d]) = NameSet(slots[d]) \ {<<slots[d][h].name, slots[d][h].kind>>}
      BY <1>1, <2>1, <2>2, MarkedOK
    <2>4. t = [e \in Dir |-> IF e = d THEN t[d] ELSE slots[e]]
      <3>1. t = [e \in Dir |-> t[e]]
        BY <2>2, <2>3 DEF Marked
      <3> QED BY <2>3, <3>1
    <2>5. NameSet(t[d]) = NameSet(slots[d]) \ {<<n, "file">>}
      BY <2>1, <2>3
    <2>6. \A x \in DirName : <<x, "dir">> \in NameSet(t[d]) <=> <<x, "dir">> \in NameSet(slots[d])
      BY <2>5
    <2>7. DirsOK(slots')
      BY <1>1, <2>3, <2>4, <2>6, OneChanged
    <2>8. DirInv' /\ \A e \in Dir : N'[e] = NameSet(slots'[e])
      BY <1>6, <2>7
    <2> HIDE DEF N
    <2>9. N' = [N EXCEPT ![d] = @ \ {<<n, "file">>}]
      BY <1>4, <1>7, <2>3, <2>5, <2>8
    <2>10. <<n, "file">> \in N[d]
      BY <1>2, <1>4, <1>9
    <2>11. Names!Drop(d, n, "file")
      BY <1>3, <1>5, <1>9, <2>9, <2>10 DEF Names!Drop, Names!Answer, Answer, N
    <2> QED BY <2>8, <2>11
  <1> QED BY <1>8, <1>9

(* A directory is empty when it holds no name.                             *)
LEMMA DirspaceEmptyIs ==
  ASSUME NEW d \in DirName, NEW s, DirOK(d, s)
  PROVE  DirspaceEmpty(s) <=> NameSet(s) = {}
  <1>1. /\ GoodDirectory(s) /\ d # Root /\ Len(s) \in Nat /\ DOMAIN s = 1 .. Len(s)
        /\ \A i \in 1 .. Len(s) : s[i] \in Entry
        /\ RecordCount(s) \in 0 .. Len(s)
        /\ \A i \in DOMAIN s : s[i].type \in {"label", "dot"} <=> i <= 2
    BY EntryAt, RecordsAre, DirAssumption DEF DirOK, GoodDirectory, Fits
  <1> DEFINE R == RecordCount(s)
             L == Len(s)
  <1> HIDE DEF R, L
  <1>2. ASSUME DirspaceEmpty(s), NEW i \in DOMAIN s, s[i].type = "sfn" PROVE FALSE
    <2>1. i \in 1 .. R /\ ~ (i <= 2)
      BY <1>1, <1>2, NamesAreSeen DEF GoodDirectory, R
    <2>2. R \in Nat
      BY <1>1 DEF R
    <2>3. i \in 3 .. R
      BY <2>1, <2>2
    <2>4. Empty(s[i])
      BY <1>2, <2>3 DEF DirspaceEmpty, R
    <2> QED BY <1>2, <2>4, FixedEntries DEF Empty
  <1>3. ASSUME ~ DirspaceEmpty(s) PROVE \E i \in DOMAIN s : s[i].type = "sfn"
    <2>1. PICK i \in 3 .. R : ~ Empty(s[i])
      BY <1>3 DEF DirspaceEmpty, R
    <2>2. i \in 1 .. L /\ i \in DOMAIN s /\ ~ (i <= 2) /\ s[i] \in Entry
      <3>1. L \in Nat /\ R \in 0 .. L
        BY <1>1 DEF L, R
      <3>2. i \in 1 .. L /\ ~ (i <= 2)
        BY <3>1
      <3> QED BY <1>1, <3>2 DEF L
    <2>3. s[i].type \in {"lfn", "sfn"}
      BY <1>1, <2>1, <2>2, EntryIs DEF Empty
    <2>4. CASE s[i].type = "lfn"
      <3> DEFINE p == s[i].part
                 j == i + p
      <3>1. p \in Nat \ {0} /\ s[i].name \in Name
        BY <2>2, <2>4, EntryIs
      <3>2. j <= L /\ \E k \in Kind : s[j] = Sfn(s[i].name, k)
        BY <1>1, <2>2, <2>4 DEF GoodDirectory, Whole, L
      <3> HIDE DEF p
      <3>3. j \in 1 .. L
        <4>1. L \in Nat
          BY <1>1 DEF L
        <4> QED BY <2>2, <3>1, <3>2, <4>1
      <3>4. s[j].type = "sfn"
        BY <3>1, <3>2, SfnIs
      <3>5. j \in DOMAIN s
        BY <1>1, <3>3 DEF L
      <3> QED BY <3>4, <3>5
    <2> QED BY <2>2, <2>3, <2>4
  <1> QED BY <1>2, <1>3 DEF NameSet

LEMMA RemoveDirStep ==
  ASSUME DirInv, NEW n \in DirName, RemoveDir(n)
  PROVE  DirInv' /\ Names!Drop(Root, n, "dir")
  <1> DEFINE f == FillDirentryInfo(deStack, Root, n, "dir")
             found == f.at # 0 /\ f.kind = "dir"
             inner == Collected(f.stack, n, RecordCount(slots[n]))
             g == FillDirentryInfo(inner, Root, n, "dir")
             N == [e \in Dir |-> NamesIn(e)]
  <1>1. /\ DirsOK(slots) /\ slots \in [Dir -> Seq(Entry)] /\ "dir" \in Kind /\ n \in Name
        /\ Root \in Dir /\ n \in Dir /\ n # Root
        /\ slots[Root] # <<>> /\ DirOK(Root, slots[Root]) /\ DirOK(n, slots[n])
    BY RootIsThere, DirAssumption DEF DirInv, DirsOK, Kind, Dir
  <1>2. /\ f.stack \in Seq(Place) /\ Len(f.stack) <= DeStackSize
        /\ f.at = 0 => \A x \in Kind : <<n, x>> \notin NameSet(slots[Root])
        /\ f.at # 0 => /\ f.kind \in Kind /\ <<n, f.kind>> \in NameSet(slots[Root])
                       /\ \A x \in Kind : <<n, x>> \in NameSet(slots[Root]) => x = f.kind
        /\ f.at = 0 <=> ~ HasName(slots[Root], n)
    BY <1>1, FillIs
  <1>3. Names!IsThere(Root)
    BY DEF Names!IsThere
  <1>4. \A e \in Dir : N[e] = NameSet(slots[e])
    BY <1>1, NamesMapped DEF NamesOf
  <1>5. \/ /\ ~ found
           /\ deStack' = f.stack
           /\ Answer("drop", Root, n, "dir", "absent")
           /\ UNCHANGED slots
        \/ /\ found /\ ~ DirspaceEmpty(slots[n])
           /\ deStack' = inner
           /\ Answer("drop", Root, n, "dir", "not empty")
           /\ UNCHANGED slots
        \/ /\ found /\ DirspaceEmpty(slots[n])
           /\ deStack' = g.stack
           /\ Answer("drop", Root, n, "dir", "dropped")
           /\ slots' = [Marked(g.stack) EXCEPT ![n] = <<>>]
    BY DEF RemoveDir
  <1>6. /\ g.stack \in Seq(Place) /\ Len(g.stack) <= DeStackSize
        /\ g.at = 0 <=> ~ HasName(slots[Root], n)
        /\ g.at # 0 => \A x \in Kind : <<n, x>> \in NameSet(slots[Root]) => x = g.kind
        /\ g.at # 0 /\ g.kind = "dir" =>
             \E h \in DOMAIN slots[Root] :
               /\ slots[Root][h].type = "sfn" /\ slots[Root][h].name = n /\ slots[Root][h].kind = "dir"
               /\ g.stack = NamePlaces(Root, h, n)
    <2> HIDE DEF inner
    <2>1. /\ g.stack \in Seq(Place) /\ Len(g.stack) <= DeStackSize
          /\ g.at = 0 <=> ~ HasName(slots[Root], n)
          /\ g.at # 0 => /\ g.kind \in Kind /\ <<n, g.kind>> \in NameSet(slots[Root])
                         /\ \A x \in Kind : <<n, x>> \in NameSet(slots[Root]) => x = g.kind
      BY <1>1, FillIs
    <2>2. g.at # 0 /\ g.kind = "dir" =>
             \E h \in DOMAIN slots[Root] :
               /\ slots[Root][h].type = "sfn" /\ slots[Root][h].name = n /\ slots[Root][h].kind = "dir"
               /\ g.stack = NamePlaces(Root, h, n)
      BY <1>1, FillIs
    <2> HIDE DEF g
    <2> QED BY <2>1, <2>2
  <1>7. found => inner = <<>> /\ <<n, "dir">> \in NameSet(slots[Root]) /\ slots[n] # <<>>
    <2> SUFFICES ASSUME found PROVE inner = <<>> /\ <<n, "dir">> \in NameSet(slots[Root]) /\ slots[n] # <<>>
      OBVIOUS
    <2>1. <<n, "dir">> \in NameSet(slots[Root])
      BY <1>2
    <2>2. slots[n] # <<>> /\ GoodDirectory(slots[n])
      BY <1>1, <2>1 DEF DirsOK, Linked, DirOK
    <2> QED BY <2>1, <2>2, CollectedAtEnd
  <1> HIDE DEF f, g, inner
  <1>8. ASSUME DirsOK(slots') PROVE DirInv' /\ \A e \in Dir : N'[e] = NameSet(slots'[e])
    <2>1. N' = NamesOf(slots')
      BY <1>8, NamesMapped
    <2>2. \A e \in Dir : NamesOf(slots')[e] = NameSet(slots'[e])
      BY DEF NamesOf
    <2>3. deStack' \in Seq(Place) /\ Len(deStack') <= DeStackSize
      <3>1. <<>> \in Seq(Place) /\ Len(<<>>) <= DeStackSize
        BY DirAssumption
      <3> QED BY <1>2, <1>5, <1>6, <1>7, <3>1
    <2> HIDE DEF N
    <2> QED BY <1>8, <2>1, <2>2, <2>3 DEF DirInv, StackOK
  <1>9. DOMAIN N = Dir /\ DOMAIN N' = Dir /\ N = [e \in Dir |-> N[e]] /\ N' = [e \in Dir |-> N'[e]]
    OBVIOUS
  <1>10. CASE ~ found
    <2>1. slots' = slots /\ Answer("drop", Root, n, "dir", "absent")
      BY <1>5, <1>10
    <2>2. DirInv' /\ \A e \in Dir : N'[e] = NameSet(slots[e])
      BY <1>1, <1>8, <2>1
    <2> HIDE DEF N
    <2>3. N' = N
      BY <1>4, <1>9, <2>2
    <2>4. <<n, "dir">> \notin N[Root]
      BY <1>1, <1>2, <1>4, <1>10
    <2>5. Names!Drop(Root, n, "dir")
      BY <1>3, <2>1, <2>3, <2>4 DEF Names!Drop, Names!Answer, Answer, N
    <2> QED BY <2>2, <2>5
  <1>11. CASE found /\ ~ DirspaceEmpty(slots[n])
    <2>1. slots' = slots /\ Answer("drop", Root, n, "dir", "not empty")
      BY <1>5, <1>11
    <2>2. DirInv' /\ \A e \in Dir : N'[e] = NameSet(slots[e])
      BY <1>1, <1>8, <2>1
    <2> HIDE DEF N
    <2>3. N' = N
      BY <1>4, <1>9, <2>2
    <2>4. <<n, "dir">> \in N[Root] /\ N[n] # {}
      BY <1>1, <1>4, <1>7, <1>11, DirspaceEmptyIs
    <2>5. Names!Drop(Root, n, "dir")
      BY <1>3, <2>1, <2>3, <2>4 DEF Names!Drop, Names!Answer, Answer, N
    <2> QED BY <2>2, <2>5
  <1>12. CASE found /\ DirspaceEmpty(slots[n])
    <2>1. /\ slots' = [Marked(g.stack) EXCEPT ![n] = <<>>]
          /\ Answer("drop", Root, n, "dir", "dropped")
      BY <1>5, <1>12
    <2>2. g.at # 0 /\ g.kind = "dir"
      BY <1>1, <1>2, <1>6, <1>7, <1>12
    <2>3. PICK h \in DOMAIN slots[Root] :
            /\ slots[Root][h].type = "sfn" /\ slots[Root][h].name = n /\ slots[Root][h].kind = "dir"
            /\ g.stack = NamePlaces(Root, h, n)
      BY <1>6, <2>2
    <2> DEFINE t == Marked(NamePlaces(Root, h, slots[Root][h].name))
    <2>4. /\ DOMAIN t = Dir
          /\ \A e \in Dir : e # Root => t[e] = slots[e]
          /\ DirOK(Root, t[Root]) /\ t[Root] # <<>>
          /\ NameSet(t[Root]) = NameSet(slots[Root]) \ {<<slots[Root][h].name, slots[Root][h].kind>>}
      BY <1>1, <2>3, MarkedOK
    <2>5. NameSet(t[Root]) = NameSet(slots[Root]) \ {<<n, "dir">>}
      BY <2>3, <2>4
    <2>6. slots' = [t EXCEPT ![n] = <<>>]
      BY <2>1, <2>3
    <2>7. slots' = [e \in Dir |-> IF e = Root THEN t[Root] ELSE IF e = n THEN <<>> ELSE slots[e]]
      <3>1. DOMAIN slots' = Dir /\ slots' = [e \in Dir |-> slots'[e]]
        BY <2>4, <2>6
      <3> HIDE DEF t
      <3> QED BY <1>1, <2>4, <2>6, <3>1
    <2> HIDE DEF t
    <2>8. DirOK(n, <<>>) /\ NameSet(<<>>) = {}
      BY NoDirectoryOK
    <2>9. /\ <<n, "dir">> \notin NameSet(t[Root])
          /\ \A x \in DirName \ {n} : <<x, "dir">> \in NameSet(t[Root]) <=> <<x, "dir">> \in NameSet(slots[Root])
      BY <2>5
    <2>10. DirsOK(slots')
      <3> DEFINE c == <<>>
                 s == t[Root]
      <3>1. DirOK(Root, s) /\ DirOK(n, c)
        BY <2>4, <2>8
      <3>2. c # <<>> <=> <<n, "dir">> \in NameSet(s)
        BY <2>9
      <3>3. \A x \in DirName \ {n} : <<x, "dir">> \in NameSet(s) <=> <<x, "dir">> \in NameSet(slots[Root])
        BY <2>9
      <3>4. slots' = [e \in Dir |-> IF e = Root THEN s ELSE IF e = n THEN c ELSE slots[e]]
        BY <2>7
      <3> HIDE DEF c, s
      <3> QED BY ONLY <1>1, n \in DirName, <3>1, <3>2, <3>3, <3>4, LinkChanged
    <2>11. DirInv' /\ \A e \in Dir : N'[e] = NameSet(slots'[e])
      BY <1>8, <2>10
    <2>12. NameSet(slots[n]) = {}
      BY <1>1, <1>12, DirspaceEmptyIs
    <2>13. /\ slots'[Root] = t[Root] /\ slots'[n] = <<>>
           /\ \A e \in Dir : e # Root /\ e # n => slots'[e] = slots[e]
      BY <1>1, <2>7
    <2>14. /\ NameSet(slots'[Root]) = NameSet(slots[Root]) \ {<<n, "dir">>}
           /\ \A e \in Dir : e # Root => NameSet(slots'[e]) = NameSet(slots[e])
      BY <2>5, <2>8, <2>12, <2>13
    <2> HIDE DEF N
    <2>15. N' = [N EXCEPT ![Root] = @ \ {<<n, "dir">>}]
      BY <1>1, <1>4, <1>9, <2>11, <2>14
    <2>16. <<n, "dir">> \in N[Root] /\ N[n] = {}
      BY <1>1, <1>4, <1>7, <1>12, <2>12
    <2>17. Names!Drop(Root, n, "dir")
      BY <1>3, <2>1, <2>15, <2>16 DEF Names!Drop, Names!Answer, Answer, N
    <2> QED BY <2>11, <2>17
  <1> QED BY <1>10, <1>11, <1>12
-----------------------------------------------------------------------------
LEMMA InitOK ==
  ASSUME Labelled, Init
  PROVE  DirInv /\ Names!Init
  <1> DEFINE s == slots[Root]
             N == [e \in Dir |-> NamesIn(e)]
  <1>1. RootSlots \in Nat \ {0} /\ MaxRecord \in Nat /\ Root \in Dir /\ Root \notin DirName
    BY DirAssumption DEF Dir
  <1>2. /\ s = [i \in 1 .. RootSlots |-> IF i = 1 THEN Label ELSE End]
        /\ \A e \in DirName : slots[e] = <<>>
        /\ DOMAIN slots = Dir /\ slots = [e \in Dir |-> slots[e]]
    BY <1>1 DEF Init, Dir
  <1> HIDE DEF s
  <1>3. /\ s \in Seq(Entry) /\ Len(s) = RootSlots /\ DOMAIN s = 1 .. RootSlots
        /\ \A i \in 1 .. RootSlots : s[i] = IF i = 1 THEN Label ELSE End
    BY <1>1, <1>2, FixedEntries
  <1>4. \A i \in 1 .. RootSlots : s[i].type = IF i = 1 THEN "label" ELSE "end"
    BY <1>3, FixedEntries
  <1>5. DirOK(Root, s)
    <2>1. Room(Root, RootSlots)
      BY DEF Room
    <2>2. Fits(s) /\ Headed(s) /\ Whole(s) /\ Once(s)
      BY <1>1, <1>3, <1>4, <2>1, RoomFits DEF Fits, Headed, Whole, Once
    <2>3. Visible(s)
      BY <1>1, <1>3, <1>4, FixedEntries DEF Visible
    <2> QED BY <1>3, <2>1, <2>2, <2>3 DEF DirOK, GoodDirectory
  <1>6. NameSet(s) = {}
    BY <1>3, <1>4 DEF NameSet
  <1>7. \A e \in Dir : DirOK(e, slots[e]) /\ NameSet(slots[e]) = {} /\ slots[e] \in Seq(Entry)
    <2> SUFFICES ASSUME NEW e \in Dir
                 PROVE  DirOK(e, slots[e]) /\ NameSet(slots[e]) = {} /\ slots[e] \in Seq(Entry)
      OBVIOUS
    <2>1. CASE e = Root
      BY <1>3, <1>5, <1>6, <2>1 DEF s
    <2>2. CASE e # Root
      <3>1. e \in DirName
        BY <2>2 DEF Dir
      <3>2. DirOK(e, <<>>) /\ NameSet(<<>>) = {} /\ <<>> \in Seq(Entry)
        BY <3>1, NoDirectoryOK
      <3> QED BY <1>2, <3>1, <3>2
    <2> QED BY <2>1, <2>2
  <1>8. DirsOK(slots)
    <2>1. slots \in [Dir -> Seq(Entry)]
      BY <1>2, <1>7
    <2>2. Linked(slots)
      BY <1>1, <1>2, <1>7 DEF Linked
    <2> QED BY <1>7, <2>1, <2>2 DEF DirsOK
  <1>9. StackOK
    BY DirAssumption DEF Init, StackOK
  <1>10. N = [e \in Dir |-> {}]
    BY <1>7, <1>8, NamesMapped DEF NamesOf
  <1>11. Names!Init
    BY <1>10 DEF Init, Names!Init, Names!Dir, Dir
  <1> QED BY <1>8, <1>9, <1>11 DEF DirInv

LEMMA DirStep ==
  ASSUME DirInv, [Next]_vars
  PROVE  DirInv' /\ [Names!Next]_(Names!vars)
  <1>1. CASE Next
    <2>1. Names!Dir = Dir /\ Names!Kind = Kind
      BY DEF Names!Dir, Dir, Names!Kind, Kind
    <2>2. ASSUME NEW d \in Dir, NEW n \in Name, Look(d, n)
          PROVE  DirInv' /\ Names!Next
      <3>1. DirInv' /\ Names!Look(d, n) /\ "file" \in Kind
        BY <2>2, LookStep DEF Kind
      <3> QED BY <2>1, <3>1 DEF Names!Next
    <2>3. ASSUME NEW d \in Dir, NEW n \in Name, Remove(d, n)
          PROVE  DirInv' /\ Names!Next
      <3>1. DirInv' /\ Names!Drop(d, n, "file") /\ "file" \in Kind
        BY <2>3, RemoveStep DEF Kind
      <3> QED BY <2>1, <3>1 DEF Names!Next
    <2>4. ASSUME NEW d \in Dir, NEW n \in Name, NEW k \in Kind, Make(d, n, k)
          PROVE  DirInv' /\ Names!Next
      <3>1. DirInv' /\ Names!Make(d, n, k)
        BY <2>4, MakeStep
      <3> QED BY <2>1, <3>1 DEF Names!Next
    <2>5. ASSUME NEW n \in DirName, RemoveDir(n)
          PROVE  DirInv' /\ Names!Next
      <3>1. DirInv' /\ Names!Drop(Root, n, "dir") /\ "dir" \in Kind /\ Root \in Dir /\ n \in Name
        BY <2>5, RemoveDirStep, DirAssumption DEF Kind, Dir
      <3> QED BY <2>1, <3>1 DEF Names!Next
    <2> QED BY <1>1, <2>2, <2>3, <2>4, <2>5 DEF Next
  <1>2. CASE UNCHANGED vars
    <2>1. slots' = slots /\ deStack' = deStack /\ last' = last
      BY <1>2 DEF vars
    <2>2. DirInv' /\ DirsOK(slots)
      BY <2>1 DEF DirInv, StackOK
    <2>3. [e \in Dir |-> NamesIn(e)]' = [e \in Dir |-> NamesIn(e)]
      BY <2>1, <2>2, NamesMapped
    <2> QED BY <2>1, <2>2, <2>3 DEF Names!vars
  <1> QED BY <1>1, <1>2

(* What the invariant says of the directories.                             *)
LEMMA DirInvImplies ==
  ASSUME DirInv
  PROVE  TypeOK /\ EntriesWhole /\ NothingHidden /\ NamesOnce
  <1>1. ASSUME NEW d \in Dir PROVE DirOK(d, slots[d]) /\ GoodDirectory(slots[d]) /\ slots[d] \in Seq(Entry)
    BY DEF DirInv, DirsOK, DirOK
  <1>2. TypeOK
    BY <1>1 DEF TypeOK, DirOK, Room, DirInv, StackOK
  <1>3. NothingHidden /\ NamesOnce
    BY <1>1 DEF NothingHidden, NamesOnce, GoodDirectory, Visible, Once
  <1>4. EntriesWhole
    BY <1>1 DEF EntriesWhole, GoodDirectory, Whole
  <1> QED BY <1>2, <1>3, <1>4

THEOREM DirInvariant ==
  ASSUME Labelled
  PROVE  Spec => []DirInv
  <1>1. Init => DirInv
    BY InitOK
  <1>2. DirInv /\ [Next]_vars => DirInv'
    BY DirStep
  <1> QED BY <1>1, <1>2, PTL DEF Spec

(* The directories and the places that were collected have their types:    *)
(* no directory outgrows the room it may have (the root directory never    *)
(* grows), and every place is one of an entry.                             *)
THEOREM DirectoriesTyped ==
  ASSUME Labelled
  PROVE  Spec => []TypeOK
  BY DirInvariant, DirInvImplies, PTL

(* No call stores a name over the entries of another or leaves a part of   *)
(* one: getDirentryStoreOffset finds room that is free, and                *)
(* fat_clearDirSpace marks the entries of one name, all of them.           *)
THEOREM EntriesStayWhole ==
  ASSUME Labelled
  PROVE  Spec => []EntriesWhole
  BY DirInvariant, DirInvImplies, PTL

(* Nothing is ever stored behind the entry that ends the directory for a   *)
(* scan.                                                                   *)
THEOREM NothingIsHidden ==
  ASSUME Labelled
  PROVE  Spec => []NothingHidden
  BY DirInvariant, DirInvImplies, PTL

(* A name is never in a directory twice, nor as a file and a directory.    *)
THEOREM NamesAreUnique ==
  ASSUME Labelled
  PROVE  Spec => []NamesOnce
  BY DirInvariant, DirInvImplies, PTL

(* The calls answer and change the directories as sets of names do.        *)
THEOREM DirectoriesAreNames ==
  ASSUME Labelled
  PROVE  Spec => NamesSpec
  <1>1. Init => Names!Init
    BY InitOK
  <1>2. DirInv /\ [Next]_vars => [Names!Next]_(Names!vars)
    BY DirStep
  <1> QED BY <1>1, <1>2, DirInvariant, PTL DEF Spec, NamesSpec, Names!Spec
=============================================================================
