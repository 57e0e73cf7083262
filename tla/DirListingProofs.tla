---------------------------- MODULE DirListingProofs ----------------------------
(***************************************************************************)
(* Proofs about DirListing, for any numbers of readers, directories,       *)
(* entries and sectors: a listing that nobody disturbed gives every name   *)
(* once, and at its end all that were there.                               *)
(***************************************************************************)
EXTENDS DirListing, TLAPS, FiniteSetTheorems

(* Entries 1 .. i of directory x that count for the cursor, and the names  *)
(* in them.                                                                *)
Seen(x, i) == {j \in 1 .. i : x[j] \in Name \union {Label}}
NamesUpTo(x, i) == {x[j] : j \in Seen(x, i)} \intersect Name

(* The names that a listing has given, and the one that fs_dread has for   *)
(* the next call.                                                          *)
GivenIn(rec) == {rec.listed[i] : i \in DOMAIN rec.listed}
Pending(r) == IF r \in Handle THEN {ahead[r]} \intersect Name ELSE {}

(* The entries in the sectors before sector s.                             *)
Before(s) == (s - 1) * SectorSlots

ScanTyped(r) ==
  /\ scan[r].index <= Before(scan[r].sector)
  /\ state[r] = "scan" => scan[r].dir \in Dir

RecordOK(r) ==
  /\ record[r].dir = NoDir => record[r] = Disturbed
  /\ \A i, j \in DOMAIN record[r].listed : record[r].listed[i] = record[r].listed[j] => i = j
  /\ state[r] = "ended" => record[r].stable \subseteq GivenIn(record[r])
  /\ r \in Handle /\ state[r] \in {"scan", "closed"} => ahead[r] = Hole

(* An undisturbed listing of the directory with entries x: the cursor dir, *)
(* index is at its last entry, and the names up to there are those it has  *)
(* given and the pending one.                                              *)
CursorOK(rec, x, pending, dir, index) ==
  /\ dir = rec.dir
  /\ index = Cardinality(Seen(x, rec.last))
  /\ NamesUpTo(x, rec.last) = GivenIn(rec) \union pending
  /\ GivenIn(rec) \intersect pending = {}
  /\ rec.stable \subseteq NamesUpTo(x, Slots)

(* Its scan has counted the entries in the sectors behind it, and has not  *)
(* passed over one that it did not give.                                   *)
ScanOK(rec, x, sc) ==
  /\ sc.dir = rec.dir /\ ~ sc.foreign
  /\ sc.index = Cardinality(Seen(x, Before(sc.sector)))
  /\ \A i \in 1 .. Before(sc.sector) : x[i] # End /\ (i > rec.last => x[i] = Hole)

UndisturbedOK(r) ==
  Listing(r) /\ record[r].dir # NoDir =>
    /\ CursorOK(record[r], slots[record[r].dir], Pending(r), cursorDir, cursorIndex)
    /\ state[r] = "scan" => ScanOK(record[r], slots[record[r].dir], scan[r])

ReaderOK(r) == ScanTyped(r) /\ RecordOK(r) /\ UndisturbedOK(r)

ListingInv ==
  /\ TypeOK
  /\ \A d \in Dir : Tidy(slots[d])
  /\ \A r \in Reader : ReaderOK(r)
-----------------------------------------------------------------------------
(* A set of numbers has a least member.                                    *)
LEMMA LeastOf ==
  ASSUME NEW S, S \subseteq Nat, S # {}
  PROVE  \E m \in S : \A j \in S : m <= j
  <1> DEFINE T == {1 .. i : i \in S}
  <1>1. T \subseteq FiniteSubsetsOf(Nat) /\ T # {}
    <2>1. \A i \in S : 1 .. i \subseteq Nat /\ IsFiniteSet(1 .. i)
      BY FS_Interval
    <2> QED BY <2>1 DEF FiniteSubsetsOf
  <1>2. PICK i \in S : \A j \in S : ~ (1 .. j \subseteq 1 .. i /\ 1 .. j # 1 .. i)
    <2>1. PICK x \in T : \A y \in T : ~ (<<y, x>> \in StrictSubsetOrdering(Nat))
      BY <1>1, FS_StrictSubsetOrderingWellFounded, WFMin
    <2>2. PICK i \in S : x = 1 .. i
      OBVIOUS
    <2>3. \A j \in S : 1 .. j \in T /\ 1 .. j \in SUBSET Nat
      OBVIOUS
    <2> QED BY <2>1, <2>2, <2>3 DEF StrictSubsetOrdering
  <1>3. \A j \in S : i <= j
    <2> SUFFICES ASSUME NEW j \in S, j < i PROVE FALSE
      OBVIOUS
    <2>1. 1 .. j \subseteq 1 .. i
      OBVIOUS
    <2>2. i \in 1 .. i /\ i \notin 1 .. j
      OBVIOUS
    <2> QED BY <1>2, <2>1, <2>2
  <1> QED BY <1>3

(* The places of the entries of a sector in its directory.                 *)
LEMMA Times ==
  \A p, q, n \in Nat : /\ p * n \in Nat /\ p * n = n * p /\ (p + 1) * n = p * n + n
                       /\ p <= q => p * n <= q * n
  BY SMTT(60)

LEMMA SectorPlaces ==
  ASSUME NEW s \in 1 .. Sectors
  PROVE  /\ Slots \in Nat /\ SectorSlots \in Nat /\ s \in Nat
         /\ Before(s) \in Nat /\ Before(s) + SectorSlots <= Slots
         /\ s = Sectors => Before(s) + SectorSlots = Slots
         /\ Before(s + 1) = Before(s) + SectorSlots /\ Before(1) = 0
         /\ \A k : SlotAt(s, k) = Before(s) + k
  <1>1. s \in Nat /\ s - 1 \in Nat /\ s <= Sectors /\ Sectors \in Nat /\ SectorSlots \in Nat
        /\ (s - 1) + 1 = s /\ (s + 1) - 1 = s
    BY ListingAssumption
  <1>2. PICK p, m, n : p = s - 1 /\ m = Sectors /\ n = SectorSlots
    OBVIOUS
  <1>3. p \in Nat /\ m \in Nat /\ n \in Nat /\ s \in Nat /\ p + 1 = s
    BY <1>1, <1>2
  <1>4. /\ p * n \in Nat /\ s * n \in Nat /\ m * n \in Nat /\ n * m = m * n
        /\ s * n = p * n + n /\ s * n <= m * n
    BY <1>1, <1>2, <1>3, Times
  <1>5. Before(s) = p * n /\ Before(s + 1) = s * n /\ Slots = n * m
    BY <1>1, <1>2 DEF Before, Slots
  <1>6. Before(1) = 0
    <2>1. 1 - 1 = 0 /\ 0 * n = 0
      BY <1>3
    <2> QED BY <2>1, <1>2 DEF Before
  <1>7. \A k : SlotAt(s, k) = Before(s) + k
    BY DEF SlotAt, Before
  <1>8. s = Sectors => Before(s) + SectorSlots = Slots
    BY <1>2, <1>4, <1>5
  <1>9. Before(s) + SectorSlots = s * n
    BY <1>2, <1>4, <1>5
  <1> QED BY <1>1, <1>2, <1>4, <1>5, <1>6, <1>7, <1>8, <1>9

(* Counting entries.                                                       *)
LEMMA SeenIs ==
  ASSUME NEW x, NEW i \in Nat
  PROVE  IsFiniteSet(Seen(x, i)) /\ Cardinality(Seen(x, i)) \in Nat /\ Cardinality(Seen(x, i)) <= i
  <1>1. IsFiniteSet(1 .. i) /\ Cardinality(1 .. i) = IF 1 > i THEN 0 ELSE i - 1 + 1
    BY FS_Interval
  <1>2. Cardinality(1 .. i) = i
    BY <1>1
  <1>3. Seen(x, i) \subseteq 1 .. i
    BY DEF Seen
  <1> QED BY <1>1, <1>2, <1>3, FS_Subset, FS_CardinalityType

LEMMA SeenMore ==
  ASSUME NEW x, NEW i \in Nat, NEW j \in Nat, i <= j
  PROVE  Cardinality(Seen(x, i)) <= Cardinality(Seen(x, j))
  <1>1. Seen(x, i) \subseteq Seen(x, j)
    BY DEF Seen
  <1> QED BY <1>1, SeenIs, FS_Subset

LEMMA SeenNext ==
  ASSUME NEW x, NEW p \in Nat \ {0}, x[p] \in Name \union {Label}
  PROVE  /\ Seen(x, p) = Seen(x, p - 1) \union {p}
         /\ Cardinality(Seen(x, p)) = Cardinality(Seen(x, p - 1)) + 1
  <1>1. p - 1 \in Nat /\ 1 .. p = (1 .. p - 1) \union {p} /\ p \notin 1 .. p - 1
    OBVIOUS
  <1>2. Seen(x, p) = Seen(x, p - 1) \union {p} /\ p \notin Seen(x, p - 1)
    BY <1>1 DEF Seen
  <1>3. IsFiniteSet(Seen(x, p - 1))
    BY <1>1, SeenIs
  <1> QED BY <1>2, <1>3, FS_AddElement

LEMMA SeenSame ==
  ASSUME NEW x, NEW i \in Nat, NEW j \in Nat, i <= j,
         \A k \in 1 .. j : k > i => x[k] \notin Name \union {Label}
  PROVE  Seen(x, i) = Seen(x, j)
  BY DEF Seen

(* The entries of a part of a sector, counted from its start.              *)
LEMMA SeenSector ==
  ASSUME NEW x, NEW n \in Nat, NEW m \in Nat,
         NEW D, D = {j \in 1 .. m : x[n + j] \in Name \union {Label}}
  PROVE  /\ IsFiniteSet(D) /\ Cardinality(D) \in Nat /\ Cardinality(D) <= m
         /\ Cardinality(Seen(x, n + m)) = Cardinality(Seen(x, n)) + Cardinality(D)
  <1> DEFINE E == {n + j : j \in D}
  <1>1. IsFiniteSet(1 .. m) /\ Cardinality(1 .. m) = IF 1 > m THEN 0 ELSE m - 1 + 1
    BY FS_Interval
  <1>2. Cardinality(1 .. m) = m
    BY <1>1
  <1>3. IsFiniteSet(D) /\ Cardinality(D) \in Nat /\ Cardinality(D) <= m
    <2>1. D \subseteq 1 .. m
      OBVIOUS
    <2> QED BY <1>1, <1>2, <2>1, FS_Subset, FS_CardinalityType
  <1>4. IsFiniteSet(E) /\ Cardinality(E) = Cardinality(D)
    <2> DEFINE g == [j \in D |-> n + j]
    <2>1. g \in Bijection(D, E)
      <3>1. g \in [D -> E] /\ \A j, k \in D : g[j] = g[k] => j = k
        OBVIOUS
      <3>2. \A e \in E : \E j \in D : g[j] = e
        OBVIOUS
      <3> HIDE DEF g, E
      <3>3. g \in Injection(D, E)
        BY <3>1 DEF Injection, IsInjective
      <3>4. g \in Surjection(D, E)
        BY <3>1, <3>2, Zenon DEF Surjection
      <3> QED BY <3>3, <3>4, Zenon DEF Bijection
    <2>2. ExistsBijection(D, E)
      BY <2>1 DEF ExistsBijection
    <2> HIDE DEF E
    <2> QED BY <1>3, <2>2, FS_Bijection
  <1>5. Seen(x, n + m) = Seen(x, n) \union E /\ Seen(x, n) \intersect E = {}
    <2>1. \A j \in 1 .. n + m : j \in 1 .. n \/ (j - n \in 1 .. m /\ n + (j - n) = j)
      OBVIOUS
    <2>2. \A j \in 1 .. m : n + j \in 1 .. n + m /\ n + j \notin 1 .. n
      OBVIOUS
    <2>3. 1 .. n \subseteq 1 .. n + m
      OBVIOUS
    <2>4. Seen(x, n) \subseteq Seen(x, n + m)
      BY <2>3 DEF Seen
    <2>5. E \subseteq Seen(x, n + m) /\ Seen(x, n) \intersect E = {}
      BY <2>2 DEF Seen
    <2>6. ASSUME NEW j \in Seen(x, n + m) PROVE j \in Seen(x, n) \/ j \in E
      <3>1. j \in 1 .. n + m /\ x[j] \in Name \union {Label}
        BY DEF Seen
      <3>2. CASE j \in 1 .. n
        BY <3>1, <3>2 DEF Seen
      <3>3. CASE j \notin 1 .. n
        <4>1. j - n \in D /\ n + (j - n) = j
          BY <2>1, <3>1, <3>3
        <4> QED BY <4>1
      <3> QED BY <3>2, <3>3
    <2> QED BY <2>4, <2>5, <2>6
  <1> HIDE DEF E
  <1>6. Cardinality(Seen(x, n + m)) = Cardinality(Seen(x, n)) + Cardinality(E)
    <2>1. IsFiniteSet(Seen(x, n)) /\ Cardinality(Seen(x, n)) \in Nat /\ Cardinality(E) \in Nat
      BY <1>3, <1>4, SeenIs
    <2>2. Cardinality(Seen(x, n) \union E) = Cardinality(Seen(x, n)) + Cardinality(E) - Cardinality(Seen(x, n) \intersect E)
      BY <1>4, <2>1, FS_Union
    <2>3. Cardinality(Seen(x, n) \intersect E) = 0
      BY <1>5, FS_EmptySet
    <2>4. PICK p, q, r : p = Cardinality(Seen(x, n)) /\ q = Cardinality(E) /\ r = Cardinality(Seen(x, n + m))
      OBVIOUS
    <2>5. r = p + q - 0
      BY <1>5, <2>2, <2>3, <2>4
    <2>6. r = p + q
      BY <2>1, <2>4, <2>5
    <2> QED BY <2>4, <2>6
  <1> QED BY <1>3, <1>4, <1>6
-----------------------------------------------------------------------------
(* Sector s of the directory with entries x.                               *)
SectorOf(x, s) == [k \in 1 .. SectorSlots |-> x[SlotAt(s, k)]]

(* The entries of the same sector before entry k.                          *)
CountedBefore(b, k) == {j \in Counted(b) : j < k}

LEMMA CountedIs ==
  ASSUME NEW b, DOMAIN b = 1 .. SectorSlots
  PROVE  /\ Cardinality(Counted(b)) \in Nat /\ Cardinality(Counted(b)) <= SectorSlots
         /\ \A k \in Counted(b) : /\ k \in 1 .. SectorSlots /\ k \in Nat
                                  /\ Cardinality(CountedBefore(b, k)) \in Nat
                                  /\ Cardinality(CountedBefore(b, k)) + 1 <= k
  <1>0. SectorSlots \in Nat
    BY ListingAssumption
  <1>1. ASSUME NEW m \in Nat PROVE IsFiniteSet(1 .. m) /\ Cardinality(1 .. m) = m
    <2>1. IsFiniteSet(1 .. m) /\ Cardinality(1 .. m) = IF 1 > m THEN 0 ELSE m - 1 + 1
      BY FS_Interval
    <2> QED BY <2>1
  <1>2. ASSUME NEW m \in Nat, NEW S, S \subseteq 1 .. m
        PROVE  Cardinality(S) \in Nat /\ Cardinality(S) <= m
    <2>1. IsFiniteSet(1 .. m) /\ Cardinality(1 .. m) = m
      BY <1>1
    <2>2. IsFiniteSet(S) /\ Cardinality(S) <= Cardinality(1 .. m)
      BY <1>2, <2>1, FS_Subset
    <2> QED BY <2>1, <2>2, FS_CardinalityType
  <1>3. Counted(b) \subseteq 1 .. SectorSlots
    BY DEF Counted
  <1>4. ASSUME NEW k \in Counted(b)
        PROVE  /\ k \in 1 .. SectorSlots /\ k \in Nat /\ k - 1 \in Nat
               /\ CountedBefore(b, k) \subseteq 1 .. k - 1
    BY <1>0, <1>3 DEF CountedBefore
  <1>5. ASSUME NEW k \in Counted(b)
        PROVE  Cardinality(CountedBefore(b, k)) \in Nat /\ Cardinality(CountedBefore(b, k)) + 1 <= k
    <2>1. Cardinality(CountedBefore(b, k)) \in Nat /\ Cardinality(CountedBefore(b, k)) <= k - 1
      BY <1>2, <1>4
    <2> QED BY <2>1, <1>4
  <1> QED BY <1>0, <1>2, <1>3, <1>4, <1>5

(* What the count within a sector says of the directory.                   *)
LEMMA CountedHere ==
  ASSUME NEW x, NEW s \in 1 .. Sectors, NEW b, b = SectorOf(x, s), NEW k \in Counted(b)
  PROVE  /\ k \in 1 .. SectorSlots /\ k \in Nat /\ Before(s) + k \in 1 .. Slots
         /\ b[k] = x[Before(s) + k] /\ b[k] \in Name \union {Label}
         /\ Cardinality(Seen(x, Before(s) + k - 1))
              = Cardinality(Seen(x, Before(s))) + Cardinality(CountedBefore(b, k))
  <1>1. DOMAIN b = 1 .. SectorSlots /\ \A j \in 1 .. SectorSlots : b[j] = x[Before(s) + j]
    BY SectorPlaces DEF SectorOf
  <1>2. /\ k \in 1 .. SectorSlots /\ b[k] \in Name \union {Label}
        /\ \A j \in 1 .. k : b[j] # End
    BY <1>1 DEF Counted
  <1>3. k \in Nat /\ k - 1 \in Nat /\ Before(s) \in Nat /\ Before(s) + k - 1 = Before(s) + (k - 1)
        /\ Before(s) + k \in 1 .. Slots
    BY <1>2, SectorPlaces
  <1>4. CountedBefore(b, k) = {j \in 1 .. k - 1 : x[Before(s) + j] \in Name \union {Label}}
    <2>1. ASSUME NEW j \in 1 .. k - 1 PROVE j \in DOMAIN b /\ \A i \in 1 .. j : i \in 1 .. k
      <3>1. j \in Nat /\ j < k /\ k <= SectorSlots /\ SectorSlots \in Nat
        BY <1>2, <1>3, ListingAssumption
      <3>2. j \in 1 .. SectorSlots /\ \A i \in 1 .. j : i \in 1 .. k
        BY <1>3, <3>1
      <3> QED BY <1>1, <3>2
    <2>2. ASSUME NEW j \in DOMAIN b, j < k PROVE j \in 1 .. k - 1
      BY <1>1, <1>3, <2>2
    <2>3. Counted(b) \subseteq DOMAIN b
      BY DEF Counted
    <2> QED BY <1>1, <1>2, <2>1, <2>2, <2>3 DEF CountedBefore, Counted
  <1>5. Cardinality(Seen(x, Before(s) + (k - 1)))
          = Cardinality(Seen(x, Before(s))) + Cardinality(CountedBefore(b, k))
    BY <1>3, <1>4, SeenSector
  <1> QED BY <1>1, <1>2, <1>3, <1>5

(* Every entry of a sector before the end is counted.                      *)
LEMMA EntryIsCounted ==
  ASSUME NEW x, Tidy(x), Name \intersect {End, Hole, Label} = {}, NEW s \in 1 .. Sectors,
         NEW k \in 1 .. SectorSlots, x[Before(s) + k] \in Name \union {Label}
  PROVE  k \in Counted(SectorOf(x, s))
  <1> DEFINE b == SectorOf(x, s)
  <1>1. DOMAIN b = 1 .. SectorSlots /\ \A j \in 1 .. SectorSlots : b[j] = x[Before(s) + j]
    BY SectorPlaces DEF SectorOf
  <1>2. ASSUME NEW j \in 1 .. k PROVE b[j] # End
    <2>1. /\ j \in 1 .. SectorSlots /\ Before(s) + j \in 1 .. Slots /\ Before(s) + k \in 1 .. Slots
          /\ j = k \/ Before(s) + j < Before(s) + k
      BY SectorPlaces
    <2>2. x[Before(s) + k] # End
      BY DEF End, Label
    <2> QED BY <1>1, <2>1, <2>2 DEF Tidy
  <1> QED BY <1>1, <1>2 DEF Counted

(* The entry with the number of the cursor is the next one behind the last.*)
LEMMA FoundIs ==
  ASSUME NEW x, Tidy(x), NEW s \in 1 .. Sectors, NEW b, b = SectorOf(x, s), NEW k \in Counted(b),
         NEW last \in 0 .. Slots,
         Cardinality(Seen(x, Before(s))) + Cardinality(CountedBefore(b, k)) = Cardinality(Seen(x, last))
  PROVE  LET p == SlotAt(s, k)
         IN  /\ p \in 1 .. Slots /\ x[p] = b[k]
             /\ Cardinality(Seen(x, p)) = Cardinality(Seen(x, last)) + 1
             /\ NamesUpTo(x, p) = NamesUpTo(x, last) \union ({b[k]} \intersect Name)
             /\ b[k] \notin NamesUpTo(x, last)
  <1>1. PICK p : p = SlotAt(s, k)
    OBVIOUS
  <1>2. /\ p = Before(s) + k /\ p \in 1 .. Slots /\ Slots \in Nat
        /\ x[p] = b[k] /\ b[k] \in Name \union {Label}
        /\ Cardinality(Seen(x, p - 1)) = Cardinality(Seen(x, last))
    <2>1. p = Before(s) + k
      BY <1>1, SectorPlaces
    <2> QED BY <2>1, CountedHere, SectorPlaces
  <1>3. p \in Nat \ {0} /\ p - 1 \in Nat /\ last \in Nat
    BY <1>2
  <1>4. Seen(x, p) = Seen(x, p - 1) \union {p} /\ Cardinality(Seen(x, p)) = Cardinality(Seen(x, last)) + 1
    BY <1>2, <1>3, SeenNext
  <1>5. last < p
    <2> SUFFICES ASSUME p <= last PROVE FALSE
      BY <1>3
    <2>1. Cardinality(Seen(x, p)) <= Cardinality(Seen(x, last))
      BY <1>3, SeenMore
    <2>2. Cardinality(Seen(x, last)) \in Nat
      BY <1>3, SeenIs
    <2> QED BY <1>4, <2>1, <2>2
  <1>6. Seen(x, p - 1) = Seen(x, last)
    <2>1. Seen(x, last) \subseteq Seen(x, p - 1)
      BY <1>3, <1>5 DEF Seen
    <2>2. IsFiniteSet(Seen(x, p - 1))
      BY <1>3, SeenIs
    <2> QED BY <1>2, <2>1, <2>2, FS_Subset
  <1>7. NamesUpTo(x, p) = NamesUpTo(x, last) \union ({b[k]} \intersect Name)
    BY <1>2, <1>4, <1>6 DEF NamesUpTo
  <1>8. b[k] \notin NamesUpTo(x, last)
    <2> SUFFICES ASSUME b[k] \in Name, NEW i \in Seen(x, last), x[i] = b[k] PROVE FALSE
      BY DEF NamesUpTo
    <2>1. i \in 1 .. Slots /\ i # p
      BY <1>2, <1>3, <1>5 DEF Seen
    <2> QED BY <2>1, <1>2 DEF Tidy
  <1> QED BY <1>1, <1>2, <1>4, <1>7, <1>8

(* If sector s has no such entry, there is none up to its end.             *)
LEMMA NoneWanted ==
  ASSUME NEW x, Tidy(x), Name \intersect {End, Hole, Label} = {}, NEW s \in 1 .. Sectors,
         NEW last \in 0 .. Slots, \A i \in 1 .. Before(s) : i > last => x[i] = Hole,
         \A k \in Counted(SectorOf(x, s)) :
            Cardinality(Seen(x, Before(s))) + Cardinality(CountedBefore(SectorOf(x, s), k)) # Cardinality(Seen(x, last))
  PROVE  \A p \in 1 .. Before(s) + SectorSlots : p > last => x[p] \notin Name \union {Label}
  <1> DEFINE b == SectorOf(x, s)
             n == Before(s)
             Bad == {p \in 1 .. n + SectorSlots : p > last /\ x[p] \in Name \union {Label}}
  <1>1. n \in Nat /\ SectorSlots \in Nat /\ Slots \in Nat /\ n + SectorSlots <= Slots /\ last \in Nat
    BY SectorPlaces
  <1> HIDE DEF n
  <1> SUFFICES ASSUME Bad # {} PROVE FALSE
    BY DEF n
  <1>2. PICK p \in Bad : \A q \in Bad : p <= q
    BY <1>1, LeastOf, Bad \subseteq Nat
  <1>3. p \in 1 .. n + SectorSlots /\ p > last /\ x[p] \in Name \union {Label} /\ p \in Nat \ {0} /\ p - 1 \in Nat
    BY <1>1
  <1>4. p > n
    <2>1. Hole \notin Name \union {Label}
      BY DEF Hole, Label
    <2>2. p \in 1 .. n => x[p] = Hole
      BY <1>3 DEF n
    <2> QED BY <1>1, <1>3, <2>1, <2>2
  <1>5. PICK k : k = p - n
    OBVIOUS
  <1>6. k \in 1 .. SectorSlots /\ n + k = p /\ n + k - 1 = p - 1
    BY <1>1, <1>3, <1>4, <1>5
  <1>7. k \in Counted(b)
    BY <1>3, <1>6, EntryIsCounted DEF n
  <1>8. Cardinality(Seen(x, p - 1)) = Cardinality(Seen(x, n)) + Cardinality(CountedBefore(b, k))
    BY <1>6, <1>7, CountedHere DEF n
  <1>9. Seen(x, last) = Seen(x, p - 1)
    <2>1. last <= p - 1
      BY <1>1, <1>3
    <2>2. \A q \in 1 .. p - 1 : q > last => x[q] \notin Name \union {Label}
      <3> SUFFICES ASSUME NEW q \in 1 .. p - 1, q > last, x[q] \in Name \union {Label} PROVE FALSE
        OBVIOUS
      <3>1. q \in Bad /\ q < p
        BY <1>1, <1>3
      <3> QED BY <3>1, <1>2, <1>3
    <2> QED BY <1>1, <1>3, <2>1, <2>2, SeenSame
  <1> QED BY <1>7, <1>8, <1>9 DEF n

(* A sector in which the directory does not end is counted as a whole.     *)
LEMMA SectorCountedWhole ==
  ASSUME NEW x, NEW s \in 1 .. Sectors, NEW b, b = SectorOf(x, s), End \notin {b[k] : k \in DOMAIN b}
  PROVE  /\ Cardinality(Seen(x, Before(s) + SectorSlots))
              = Cardinality(Seen(x, Before(s))) + Cardinality(Counted(b))
         /\ \A k \in 1 .. SectorSlots : x[Before(s) + k] # End
  <1>1. DOMAIN b = 1 .. SectorSlots /\ \A j \in 1 .. SectorSlots : b[j] = x[Before(s) + j]
    BY SectorPlaces DEF SectorOf
  <1>2. \A j \in 1 .. SectorSlots : b[j] # End
    BY <1>1
  <1>3. Counted(b) = {j \in 1 .. SectorSlots : x[Before(s) + j] \in Name \union {Label}}
    <2>1. \A j \in 1 .. SectorSlots : \A i \in 1 .. j : i \in 1 .. SectorSlots
      BY ListingAssumption
    <2> QED BY <1>1, <1>2, <2>1 DEF Counted
  <1>4. Before(s) \in Nat /\ SectorSlots \in Nat
    BY SectorPlaces
  <1>5. Cardinality(Seen(x, Before(s) + SectorSlots)) = Cardinality(Seen(x, Before(s))) + Cardinality(Counted(b))
    BY <1>3, <1>4, SeenSector
  <1> QED BY <1>1, <1>2, <1>5
-----------------------------------------------------------------------------
ScanType == [dir : Dir \union {NoDir}, sector : 1 .. Sectors, index : 0 .. Slots, foreign : BOOLEAN]
RecordType == [dir : Dir \union {NoDir}, last : 0 .. Slots, listed : Seq(Name), stable : SUBSET Name]

LEMMA Numbers ==
  /\ SectorSlots \in Nat \ {0} /\ Sectors \in Nat \ {0} /\ Slots \in Nat /\ 1 \in 1 .. Sectors
  /\ Before(1) = 0
  /\ End \notin Name /\ Hole \notin Name /\ Label \notin Name
  /\ NoDir \notin Dir /\ Rpc \intersect Handle = {}
  <1>1. SectorSlots \in Nat \ {0} /\ Sectors \in Nat \ {0} /\ 1 \in 1 .. Sectors
    BY ListingAssumption
  <1>2. Slots \in Nat /\ Before(1) = 0
    BY <1>1, SectorPlaces
  <1> QED BY <1>1, <1>2, ListingAssumption

LEMMA EntriesDiffer == End # Hole /\ End # Label /\ Hole # Label
  BY DEF End, Hole, Label

LEMMA RecordsTyped ==
  /\ Disturbed \in RecordType /\ GivenIn(Disturbed) = {} /\ Disturbed.dir = NoDir
  /\ Disturbed.listed = <<>> /\ Disturbed.stable = {} /\ Disturbed.last = 0
  /\ NoScan.dir = NoDir /\ NoScan.sector = 1 /\ NoScan.index = 0 /\ ~ NoScan.foreign
  /\ NoScan \in ScanType
  <1>1. <<>> \in Seq(Name) /\ DOMAIN <<>> = {}
    OBVIOUS
  <1>2. Disturbed \in RecordType
    BY <1>1, Numbers DEF Disturbed, RecordType
  <1>3. GivenIn(Disturbed) = {}
    BY <1>1 DEF GivenIn, Disturbed
  <1>4. NoScan \in ScanType
    BY Numbers DEF NoScan, ScanType
  <1> QED BY <1>2, <1>3, <1>4 DEF Disturbed, NoScan

LEMMA SeenNone ==
  ASSUME NEW x
  PROVE  Seen(x, 0) = {} /\ Cardinality(Seen(x, 0)) = 0 /\ NamesUpTo(x, 0) = {}
  <1>1. Seen(x, 0) = {}
    BY DEF Seen
  <1> QED BY <1>1, FS_EmptySet DEF NamesUpTo

(* The fields of the records of a reader.                                  *)
LEMMA Fields ==
  ASSUME TypeOK, NEW r \in Reader
  PROVE  /\ record[r] \in RecordType /\ scan[r] \in ScanType
         /\ record[r].dir \in Dir \union {NoDir} /\ record[r].last \in 0 .. Slots
         /\ record[r].listed \in Seq(Name) /\ record[r].stable \in SUBSET Name
         /\ scan[r].dir \in Dir \union {NoDir} /\ scan[r].sector \in 1 .. Sectors
         /\ scan[r].index \in 0 .. Slots /\ scan[r].foreign \in BOOLEAN
         /\ state[r] \in {"closed", "open", "scan", "ended"}
  BY DEF TypeOK, RecordType, ScanType

(* Giving an entry to a reader.                                            *)
LEMMA GivenIs ==
  ASSUME TypeOK, NEW r \in Reader, RecordOK(r), NEW e \in Entry, e \notin GivenIn(record[r]),
         NEW g, g = Given(r, e)
  PROVE  /\ g \in RecordType
         /\ g.dir = record[r].dir /\ g.last = record[r].last /\ g.stable = record[r].stable
         /\ g.dir = NoDir => g = Disturbed
         /\ g.dir # NoDir => GivenIn(g) = GivenIn(record[r]) \union ({e} \intersect Name)
         /\ \A i, j \in DOMAIN g.listed : g.listed[i] = g.listed[j] => i = j
  <1>1. PICK v, l : v = record[r] /\ l = v.listed
    OBVIOUS
  <1>2. /\ v \in RecordType /\ l \in Seq(Name) /\ (v.dir = NoDir => v = Disturbed)
        /\ \A i, j \in DOMAIN l : l[i] = l[j] => i = j
        /\ e \notin GivenIn(v)
    BY <1>1, Fields DEF RecordOK
  <1>3. CASE ~ (e \in Name /\ v.dir # NoDir)
    <2>1. g = v
      BY <1>1, <1>3 DEF Given
    <2> QED BY <1>1, <1>2, <1>3, <2>1
  <1>4. CASE e \in Name /\ v.dir # NoDir
    <2>1. PICK a : a = Append(l, e)
      OBVIOUS
    <2>2. g = [v EXCEPT !.listed = a]
      BY <1>1, <1>4, <2>1 DEF Given
    <2>3. /\ a \in Seq(Name) /\ DOMAIN a = DOMAIN l \union {Len(l) + 1} /\ Len(l) \in Nat
          /\ DOMAIN l = 1 .. Len(l) /\ a[Len(l) + 1] = e /\ \A i \in DOMAIN l : a[i] = l[i]
      BY <1>2, <1>4, <2>1
    <2>4. /\ g.listed = a /\ g.dir = v.dir /\ g.last = v.last /\ g.stable = v.stable
      BY <1>2, <2>2 DEF RecordType
    <2>5. g = [dir |-> v.dir, last |-> v.last, listed |-> a, stable |-> v.stable]
      BY <1>2, <2>2 DEF RecordType
    <2>6. g \in RecordType
      BY <1>2, <2>3, <2>5 DEF RecordType
    <2>7. GivenIn(g) = GivenIn(v) \union {e}
      BY <1>1, <2>3, <2>4 DEF GivenIn
    <2>8. \A i \in DOMAIN l : l[i] # e
      BY <1>1, <1>2 DEF GivenIn
    <2>9. \A i, j \in DOMAIN a : a[i] = a[j] => i = j
      BY <1>2, <2>3, <2>8
    <2> QED BY <1>1, <1>4, <2>4, <2>6, <2>7, <2>9
  <1> QED BY <1>3, <1>4

(* A reader that does not take part, whose listing is not disturbed or is  *)
(* recorded as such.                                                       *)
LEMMA OtherOK ==
  ASSUME ListingInv, NEW q \in Reader, state'[q] = state[q], scan'[q] = scan[q],
         q \in Handle => ahead'[q] = ahead[q],
         \/ record'[q] = Disturbed
         \/ /\ record'[q] = record[q]
            /\ Listing(q) /\ record[q].dir # NoDir =>
                 /\ slots'[record[q].dir] = slots[record[q].dir]
                 /\ cursorDir' = cursorDir /\ cursorIndex' = cursorIndex
  PROVE  ReaderOK(q)'
  <1>1. ScanTyped(q) /\ RecordOK(q) /\ UndisturbedOK(q)
    BY DEF ListingInv, ReaderOK
  <1>2. ScanTyped(q)'
    BY <1>1 DEF ScanTyped, Before
  <1>3. CASE record'[q] = Disturbed
    <2>1. RecordOK(q)'
      BY <1>1, <1>3, RecordsTyped DEF RecordOK, GivenIn
    <2>2. UndisturbedOK(q)'
      BY <1>3, RecordsTyped DEF UndisturbedOK
    <2> QED BY <1>2, <2>1, <2>2 DEF ReaderOK
  <1>4. CASE record'[q] # Disturbed
    <2>1. RecordOK(q)'
      BY <1>1, <1>4 DEF RecordOK, GivenIn
    <2>2. Pending(q)' = Pending(q) /\ (Listing(q)' <=> Listing(q)) /\ record'[q] = record[q]
      BY <1>4 DEF Pending, Listing
    <2>3. UndisturbedOK(q)'
      <3> SUFFICES ASSUME Listing(q), record[q].dir # NoDir
                   PROVE  /\ CursorOK(record[q], slots[record[q].dir], Pending(q), cursorDir, cursorIndex)'
                          /\ (state[q] = "scan" => ScanOK(record[q], slots[record[q].dir], scan[q]))'
        BY <2>2 DEF UndisturbedOK
      <3>1. slots'[record[q].dir] = slots[record[q].dir] /\ cursorDir' = cursorDir /\ cursorIndex' = cursorIndex
        BY <1>4
      <3>2. CursorOK(record[q], slots[record[q].dir], Pending(q), cursorDir, cursorIndex)'
        BY <1>1, <2>2, <3>1 DEF UndisturbedOK, CursorOK, GivenIn, NamesUpTo, Seen
      <3>3. (state[q] = "scan" => ScanOK(record[q], slots[record[q].dir], scan[q]))'
        BY <1>1, <2>2, <3>1 DEF UndisturbedOK, ScanOK, Seen, Before
      <3> QED BY <3>2, <3>3
    <2> QED BY <1>2, <2>1, <2>3 DEF ReaderOK
  <1> QED BY <1>3, <1>4

(* The records of the readers when those in S lose their listing, and when *)
(* r gets v in addition.                                                   *)
LEMMA LostAll ==
  ASSUME TypeOK, NEW S \in SUBSET Reader
  PROVE  /\ Lost(record, S) \in [Reader -> RecordType]
         /\ \A q \in Reader : Lost(record, S)[q] = IF q \in S THEN Disturbed ELSE record[q]
  <1>1. \A q \in Reader : record[q] \in RecordType
    BY Fields
  <1>2. Lost(record, S) = [q \in Reader |-> IF q \in S THEN Disturbed ELSE record[q]]
    BY DEF Lost
  <1> QED BY <1>1, <1>2, RecordsTyped

LEMMA LostIs ==
  ASSUME TypeOK, NEW S \in SUBSET Reader, NEW r \in Reader, NEW v \in RecordType,
         record' = [Lost(record, S) EXCEPT ![r] = v]
  PROVE  /\ record' \in [Reader -> RecordType] /\ record'[r] = v
         /\ \A q \in Reader \ {r} : record'[q] = IF q \in S THEN Disturbed ELSE record[q]
  <1>1. PICK l : l = Lost(record, S)
    OBVIOUS
  <1>2. l \in [Reader -> RecordType] /\ \A q \in Reader : l[q] = IF q \in S THEN Disturbed ELSE record[q]
    BY <1>1, LostAll
  <1>3. record' = [l EXCEPT ![r] = v]
    BY <1>1
  <1> QED BY <1>2, <1>3

LEMMA TypedNext ==
  ASSUME slots' \in [Dir -> [1 .. Slots -> Entry]], cursorDir' \in Dir \union {NoDir},
         cursorIndex' \in 0 .. Slots, cbuf' \in SubDir \union {NoDir},
         state' \in [Reader -> {"closed", "open", "scan", "ended"}],
         scan' \in [Reader -> ScanType], ahead' \in [Handle -> Entry], record' \in [Reader -> RecordType]
  PROVE  TypeOK'
  BY DEF TypeOK, ScanType, RecordType

(* A scan of directory d starts.                                           *)
LEMMA StartScanIs ==
  ASSUME TypeOK, NEW r \in Reader, NEW d \in Dir, StartScan(r, d)
  PROVE  /\ state' \in [Reader -> {"closed", "open", "scan", "ended"}] /\ scan' \in [Reader -> ScanType]
         /\ cbuf' \in SubDir \union {NoDir} /\ state'[r] = "scan"
         /\ scan'[r].dir = d /\ scan'[r].sector = 1 /\ scan'[r].index = 0 /\ ~ scan'[r].foreign
         /\ \A q \in Reader \ {r} : state'[q] = state[q] /\ scan'[q] = scan[q]
  <1>1. PICK w, n : n = NoScan /\ w = [n EXCEPT !.dir = d]
    OBVIOUS
  <1>2. n \in ScanType /\ n.sector = 1 /\ n.index = 0 /\ ~ n.foreign
    BY <1>1, RecordsTyped
  <1>3. w.dir = d /\ w.sector = 1 /\ w.index = 0 /\ ~ w.foreign
    BY <1>1, <1>2 DEF ScanType
  <1>4. w \in ScanType
    BY <1>1, <1>2 DEF ScanType
  <1>5. scan' = [scan EXCEPT ![r] = w] /\ state' = [state EXCEPT ![r] = "scan"] /\ SectorData(d)
    BY <1>1 DEF StartScan
  <1>6. scan \in [Reader -> ScanType] /\ state \in [Reader -> {"closed", "open", "scan", "ended"}]
    BY DEF TypeOK, ScanType
  <1>7. cbuf' \in SubDir \union {NoDir}
    BY <1>5 DEF SectorData, TypeOK, Dir
  <1>8. scan'[r] = w /\ state'[r] = "scan" /\ scan' \in [Reader -> ScanType]
    BY <1>4, <1>5, <1>6
  <1> QED BY <1>3, <1>5, <1>6, <1>7, <1>8

LEMMA FirstDirentryOK ==
  ASSUME ListingInv, NEW r \in Reader, NEW d \in Dir, FirstDirentry(r, d),
         r \in Handle => ahead[r] = Hole
  PROVE  ListingInv'
  <1>1. TypeOK /\ ReaderOK(r) /\ Tidy(slots[d])
    BY DEF ListingInv
  <1>2. PICK v : v = [dir |-> d, last |-> 0, listed |-> <<>>, stable |-> NamesIn(d)]
    OBVIOUS
  <1>3. v \in RecordType /\ v.dir = d /\ v.last = 0 /\ v.listed = <<>> /\ v.stable = NamesIn(d)
    BY <1>2, Numbers DEF RecordType, NamesIn
  <1>4. PICK S : S = OthersListing(r)
    OBVIOUS
  <1>5. S \in SUBSET Reader /\ \A q \in Reader \ {r} : q \in S <=> Listing(q)
    BY <1>4 DEF OthersListing
  <1>6. record' = [Lost(record, S) EXCEPT ![r] = v]
    BY <1>2, <1>4 DEF FirstDirentry
  <1>7. /\ record' \in [Reader -> RecordType] /\ record'[r] = v
        /\ \A q \in Reader \ {r} : record'[q] = IF q \in S THEN Disturbed ELSE record[q]
    BY <1>1, <1>3, <1>5, <1>6, LostIs
  <1>8. /\ state' \in [Reader -> {"closed", "open", "scan", "ended"}] /\ scan' \in [Reader -> ScanType]
        /\ cbuf' \in SubDir \union {NoDir} /\ state'[r] = "scan"
        /\ scan'[r].dir = d /\ scan'[r].sector = 1 /\ scan'[r].index = 0 /\ ~ scan'[r].foreign
        /\ \A q \in Reader \ {r} : state'[q] = state[q] /\ scan'[q] = scan[q]
    BY <1>1, StartScanIs DEF FirstDirentry
  <1>9. slots' = slots /\ ahead' = ahead /\ cursorDir' = d /\ cursorIndex' = 0
    BY DEF FirstDirentry
  <1>10. TypeOK'
    BY <1>1, <1>7, <1>8, <1>9, Numbers, TypedNext DEF TypeOK
  <1>11. ASSUME NEW q \in Reader \ {r} PROVE ReaderOK(q)'
    BY <1>5, <1>7, <1>8, <1>9, <1>11, OtherOK
  <1>12. ScanTyped(r)'
    BY <1>8, Numbers DEF ScanTyped, Before
  <1>13. GivenIn(v) = {} /\ DOMAIN v.listed = {}
    BY <1>3 DEF GivenIn
  <1>14. RecordOK(r)'
    BY <1>3, <1>7, <1>8, <1>9, <1>13, Numbers DEF RecordOK
  <1>15. UndisturbedOK(r)'
    <2>1. PICK x : x = slots[d]
      OBVIOUS
    <2>2. Pending(r)' = {}
      BY <1>9, Numbers DEF Pending
    <2>3. NamesIn(d) \subseteq NamesUpTo(x, Slots)
      BY <2>1 DEF NamesIn, NamesUpTo, Seen
    <2>4. Seen(x, 0) = {} /\ Cardinality(Seen(x, 0)) = 0 /\ NamesUpTo(x, 0) = {}
      BY SeenNone
    <2>5. CursorOK(v, x, {}, d, 0)
      BY <1>3, <1>13, <2>3, <2>4 DEF CursorOK
    <2>6. PICK w : w = scan'[r]
      OBVIOUS
    <2>7. 1 .. Before(w.sector) = {} /\ Cardinality(Seen(x, Before(w.sector))) = 0
      BY <1>8, <2>4, <2>6, Numbers
    <2>8. ScanOK(v, x, w)
      BY <1>3, <1>8, <2>6, <2>7 DEF ScanOK
    <2>9. /\ CursorOK(record[r], slots[record[r].dir], Pending(r), cursorDir, cursorIndex)'
          /\ ScanOK(record[r], slots[record[r].dir], scan[r])'
      BY <1>3, <1>7, <1>9, <2>1, <2>2, <2>5, <2>6, <2>8
    <2> QED BY <2>9 DEF UndisturbedOK
  <1>16. ReaderOK(r)'
    BY <1>12, <1>14, <1>15 DEF ReaderOK
  <1> QED BY <1>9, <1>10, <1>11, <1>16 DEF ListingInv, Tidy

(* The next entry is asked for; an entry that fs_dread has is given.       *)
LEMMA BeginNextOK ==
  ASSUME ListingInv, NEW r \in Reader, state[r] = "open", BeginNext(r),
         IF r \in Handle THEN /\ record' = [record EXCEPT ![r] = Given(r, ahead[r])]
                              /\ ahead' = [ahead EXCEPT ![r] = Hole]
                         ELSE record' = record /\ ahead' = ahead
  PROVE  ListingInv'
  <1>1. TypeOK /\ ReaderOK(r) /\ RecordOK(r)
    BY DEF ListingInv, ReaderOK
  <1>2. /\ record \in [Reader -> RecordType] /\ ahead \in [Handle -> Entry]
        /\ state \in [Reader -> {"closed", "open", "scan", "ended"}] /\ scan \in [Reader -> ScanType]
        /\ Hole \in Entry
    BY <1>1 DEF TypeOK, RecordType, ScanType, Entry
  <1>3. PICK v : v = record'[r]
    OBVIOUS
  <1>4. record[r].dir # NoDir => CursorOK(record[r], slots[record[r].dir], Pending(r), cursorDir, cursorIndex)
    BY <1>1 DEF ReaderOK, UndisturbedOK, Listing
  <1>5. /\ v \in RecordType
        /\ v.dir = record[r].dir /\ v.last = record[r].last /\ v.stable = record[r].stable
        /\ v.dir = NoDir => v = Disturbed
        /\ v.dir # NoDir => GivenIn(v) = GivenIn(record[r]) \union Pending(r)
        /\ \A i, j \in DOMAIN v.listed : v.listed[i] = v.listed[j] => i = j
    <2>1. CASE r \in Handle
      <3>1. v = Given(r, ahead[r]) /\ ahead[r] \in Entry /\ Pending(r) = {ahead[r]} \intersect Name
        BY <1>2, <1>3, <2>1 DEF Pending
      <3>2. CASE ahead[r] \notin GivenIn(record[r])
        BY <1>1, <3>1, <3>2, GivenIs
      <3>3. CASE ahead[r] \in GivenIn(record[r])
        <4>1. GivenIn(record[r]) \subseteq Name
          BY <1>1, Fields DEF GivenIn
        <4>2. record[r].dir = NoDir
          BY <1>4, <3>1, <3>3, <4>1 DEF CursorOK
        <4>3. GivenIn(record[r]) = {}
          BY <1>1, <4>2, RecordsTyped DEF RecordOK
        <4> QED BY <3>3, <4>3
      <3> QED BY <3>2, <3>3
    <2>2. CASE r \notin Handle
      <3>1. v = record[r] /\ Pending(r) = {}
        BY <1>3, <2>2 DEF Pending
      <3> QED BY <1>1, <1>2, <3>1 DEF RecordOK
    <2> QED BY <2>1, <2>2
  <1>6. /\ record' \in [Reader -> RecordType] /\ ahead' \in [Handle -> Entry]
        /\ r \in Handle => ahead'[r] = Hole
        /\ \A q \in Reader \ {r} : record'[q] = record[q] /\ (q \in Handle => ahead'[q] = ahead[q])
    BY <1>2, <1>3, <1>5
  <1>7. slots' = slots /\ cursorDir' = cursorDir /\ cursorIndex' = cursorIndex
    BY DEF BeginNext
  <1>8. Pending(r)' = {}
    BY <1>6, Numbers DEF Pending
  <1>9. CASE cursorDir # NoDir
    <2>1. cursorDir \in Dir /\ StartScan(r, cursorDir)
      BY <1>1, <1>9 DEF BeginNext, TypeOK
    <2>2. /\ state' \in [Reader -> {"closed", "open", "scan", "ended"}] /\ scan' \in [Reader -> ScanType]
          /\ cbuf' \in SubDir \union {NoDir} /\ state'[r] = "scan"
          /\ scan'[r].dir = cursorDir /\ scan'[r].sector = 1 /\ scan'[r].index = 0 /\ ~ scan'[r].foreign
          /\ \A q \in Reader \ {r} : state'[q] = state[q] /\ scan'[q] = scan[q]
      BY <1>1, <2>1, StartScanIs
    <2>3. TypeOK'
      BY <1>1, <1>6, <1>7, <2>2, TypedNext DEF TypeOK
    <2>4. ASSUME NEW q \in Reader \ {r} PROVE ReaderOK(q)'
      BY <1>6, <1>7, <2>2, <2>4, OtherOK
    <2>5. ScanTyped(r)'
      BY <2>1, <2>2, Numbers DEF ScanTyped, Before
    <2>6. RecordOK(r)'
      BY <1>3, <1>5, <1>6, <2>2 DEF RecordOK
    <2>7. ASSUME v.dir # NoDir
          PROVE  /\ CursorOK(v, slots[v.dir], {}, cursorDir, cursorIndex)
                 /\ ScanOK(v, slots[v.dir], scan'[r])
      <3>1. PICK x, rec : x = slots[v.dir] /\ rec = record[r]
        OBVIOUS
      <3>2. CursorOK(rec, x, Pending(r), cursorDir, cursorIndex)
        BY <1>4, <1>5, <2>7, <3>1
      <3>3. CursorOK(v, x, {}, cursorDir, cursorIndex)
        BY <1>5, <2>7, <3>1, <3>2 DEF CursorOK
      <3>4. PICK w : w = scan'[r]
        OBVIOUS
      <3>5. 1 .. Before(w.sector) = {} /\ Cardinality(Seen(x, Before(w.sector))) = 0
        BY <2>2, <3>4, SeenNone, Numbers
      <3>6. ScanOK(v, x, w)
        BY <2>2, <3>3, <3>4, <3>5 DEF ScanOK, CursorOK
      <3> QED BY <3>1, <3>3, <3>4, <3>6
    <2>8. UndisturbedOK(r)'
      BY <1>3, <1>7, <1>8, <2>7 DEF UndisturbedOK
    <2>9. ReaderOK(r)'
      BY <2>5, <2>6, <2>8 DEF ReaderOK
    <2> QED BY <1>7, <2>3, <2>4, <2>9 DEF ListingInv, Tidy
  <1>10. CASE cursorDir = NoDir
    <2>1. state' = [state EXCEPT ![r] = "ended"] /\ scan' = scan /\ cbuf' = cbuf
      BY <1>10 DEF BeginNext
    <2>2. /\ state' \in [Reader -> {"closed", "open", "scan", "ended"}] /\ state'[r] = "ended"
          /\ \A q \in Reader \ {r} : state'[q] = state[q]
      BY <1>2, <2>1
    <2>3. TypeOK'
      BY <1>1, <1>6, <1>7, <2>1, <2>2, TypedNext DEF TypeOK, ScanType
    <2>4. ASSUME NEW q \in Reader \ {r} PROVE ReaderOK(q)'
      BY <1>6, <1>7, <2>1, <2>2, <2>4, OtherOK
    <2>5. record[r].dir = NoDir
      BY <1>1, <1>4, <1>10, Numbers, Fields DEF CursorOK
    <2>6. record'[r] = Disturbed
      BY <1>3, <1>5, <2>5
    <2>7. RecordOK(r)'
      BY <2>2, <2>6, RecordsTyped DEF RecordOK
    <2>8. ScanTyped(r)' /\ UndisturbedOK(r)'
      BY <1>1, <2>1, <2>2, <2>6, RecordsTyped DEF ReaderOK, ScanTyped, Before, UndisturbedOK
    <2>9. ReaderOK(r)'
      BY <2>7, <2>8 DEF ReaderOK
    <2> QED BY <1>7, <2>3, <2>4, <2>9 DEF ListingInv, Tidy
  <1> QED BY <1>9, <1>10
-----------------------------------------------------------------------------
(* What a scan reads: a sector of entries, and that of its directory if it *)
(* is undisturbed.                                                         *)
LEMMA SectorReadIs ==
  ASSUME ListingInv, NEW r \in Reader, state[r] = "scan", NEW b \in SectorRead(r)
  PROVE  /\ DOMAIN b = 1 .. SectorSlots /\ \A k \in DOMAIN b : b[k] \in Entry
         /\ record[r].dir # NoDir =>
              /\ record[r].dir \in Dir /\ b = SectorOf(slots[record[r].dir], scan[r].sector)
              /\ Tidy(slots[record[r].dir])
              /\ CursorOK(record[r], slots[record[r].dir], {}, cursorDir, cursorIndex)
              /\ ScanOK(record[r], slots[record[r].dir], scan[r])
  <1>1. TypeOK /\ ReaderOK(r) /\ \A d \in Dir : Tidy(slots[d])
    BY DEF ListingInv
  <1>2. scan[r].dir \in Dir /\ scan[r].sector \in 1 .. Sectors /\ record[r].dir \in Dir \union {NoDir}
    BY <1>1, Fields DEF ReaderOK, ScanTyped
  <1>3. PICK d \in Dir, s \in 1 .. Sectors : b = Sector(d, s)
    BY <1>2 DEF SectorRead
  <1>4. slots[d] \in [1 .. Slots -> Entry]
    BY <1>1 DEF TypeOK
  <1>5. \A k \in 1 .. SectorSlots : SlotAt(s, k) \in 1 .. Slots
    BY SectorPlaces
  <1>6. DOMAIN b = 1 .. SectorSlots /\ \A k \in DOMAIN b : b[k] \in Entry
    BY <1>3, <1>4, <1>5 DEF Sector
  <1>7. ASSUME record[r].dir # NoDir
        PROVE  /\ record[r].dir \in Dir /\ b = SectorOf(slots[record[r].dir], scan[r].sector)
               /\ Tidy(slots[record[r].dir])
               /\ CursorOK(record[r], slots[record[r].dir], {}, cursorDir, cursorIndex)
               /\ ScanOK(record[r], slots[record[r].dir], scan[r])
    <2>1. Pending(r) = {}
      BY <1>1, Numbers DEF ReaderOK, RecordOK, Pending
    <2>2. /\ CursorOK(record[r], slots[record[r].dir], {}, cursorDir, cursorIndex)
          /\ ScanOK(record[r], slots[record[r].dir], scan[r])
      BY <1>1, <1>7, <2>1 DEF ReaderOK, UndisturbedOK, Listing
    <2>3. ~ scan[r].foreign /\ scan[r].dir = record[r].dir
      BY <2>2 DEF ScanOK
    <2>4. b = Sector(record[r].dir, scan[r].sector)
      BY <2>3 DEF SectorRead
    <2>5. b = SectorOf(slots[record[r].dir], scan[r].sector)
      BY <2>4 DEF Sector, SectorOf
    <2> QED BY <1>1, <1>2, <1>7, <2>2, <2>5
  <1> QED BY <1>6, <1>7

LEMMA FoundOK ==
  ASSUME ListingInv, NEW r \in Reader, state[r] = "scan", NEW b \in SectorRead(r), Found(r, b),
         slots' = slots, cbuf' = cbuf
  PROVE  ListingInv'
  <1>1. TypeOK /\ ReaderOK(r) /\ RecordOK(r) /\ \A d \in Dir : Tidy(slots[d])
    BY DEF ListingInv, ReaderOK
  <1>2. PICK k \in Wanted(r, b) :
          /\ cursorIndex' = cursorIndex + 1
          /\ state' = [state EXCEPT ![r] = "open"]
          /\ scan' = [scan EXCEPT ![r] = NoScan]
          /\ ahead' = IF r \in Handle THEN [ahead EXCEPT ![r] = b[k]] ELSE ahead
          /\ LET new == IF r \in Rpc THEN Given(r, b[k]) ELSE record[r]
                 at == IF new.dir = NoDir THEN 0 ELSE SlotAt(scan[r].sector, k)
             IN  record' = [Lost(record, OthersListing(r)) EXCEPT ![r] = [new EXCEPT !.last = at]]
          /\ UNCHANGED cursorDir
    BY DEF Found
  <1>3. PICK g, at, v : /\ g = IF r \in Rpc THEN Given(r, b[k]) ELSE record[r]
                        /\ at = IF g.dir = NoDir THEN 0 ELSE SlotAt(scan[r].sector, k)
                        /\ v = [g EXCEPT !.last = at]
    OBVIOUS
  <1>4. record' = [Lost(record, OthersListing(r)) EXCEPT ![r] = v]
    BY <1>2, <1>3
  <1>5. /\ DOMAIN b = 1 .. SectorSlots /\ \A j \in DOMAIN b : b[j] \in Entry
    BY SectorReadIs
  <1>6. /\ k \in Counted(b) /\ scan[r].index + Cardinality(CountedBefore(b, k)) = cursorIndex
        /\ k \in 1 .. SectorSlots /\ k \in Nat /\ b[k] \in Entry
        /\ Cardinality(CountedBefore(b, k)) \in Nat /\ Cardinality(CountedBefore(b, k)) + 1 <= k
    <2>1. k \in Counted(b) /\ scan[r].index + Cardinality(CountedBefore(b, k)) = cursorIndex
      BY DEF Wanted, CountedBefore
    <2> QED BY <1>5, <2>1, CountedIs
  <1>7. /\ scan[r].sector \in 1 .. Sectors /\ scan[r].index \in 0 .. Slots /\ record[r] \in RecordType
        /\ scan[r].index <= Before(scan[r].sector) /\ record[r].last \in 0 .. Slots
        /\ record[r].dir \in Dir \union {NoDir}
    BY <1>1, Fields DEF ReaderOK, ScanTyped
  <1>8. /\ cursorIndex' \in 0 .. Slots /\ SlotAt(scan[r].sector, k) \in 1 .. Slots
    <2>1. PICK n : n = Before(scan[r].sector)
      OBVIOUS
    <2>2. n \in Nat /\ SectorSlots \in Nat /\ Slots \in Nat /\ n + SectorSlots <= Slots /\ SlotAt(scan[r].sector, k) = n + k
      BY <1>7, <2>1, SectorPlaces
    <2>3. PICK c, j : c = Cardinality(CountedBefore(b, k)) /\ j = scan[r].index
      OBVIOUS
    <2>4. c \in Nat /\ j \in Nat /\ j <= n /\ c + 1 <= k /\ k <= SectorSlots /\ cursorIndex = j + c
      BY <1>6, <1>7, <2>1, <2>3
    <2>5. cursorIndex' = cursorIndex + 1
      BY <1>2
    <2> QED BY <1>6, <2>2, <2>4, <2>5
  <1>9. record[r].dir # NoDir =>
          LET x == slots[record[r].dir]
              p == SlotAt(scan[r].sector, k)
          IN  /\ CursorOK(record[r], x, {}, cursorDir, cursorIndex)
              /\ x[p] = b[k]
              /\ Cardinality(Seen(x, p)) = cursorIndex + 1
              /\ NamesUpTo(x, p) = GivenIn(record[r]) \union ({b[k]} \intersect Name)
              /\ b[k] \notin GivenIn(record[r])
    <2> SUFFICES ASSUME record[r].dir # NoDir
                 PROVE LET x == slots[record[r].dir]
                           p == SlotAt(scan[r].sector, k)
                       IN  /\ CursorOK(record[r], x, {}, cursorDir, cursorIndex)
                           /\ x[p] = b[k]
                           /\ Cardinality(Seen(x, p)) = cursorIndex + 1
                           /\ NamesUpTo(x, p) = GivenIn(record[r]) \union ({b[k]} \intersect Name)
                           /\ b[k] \notin GivenIn(record[r])
      OBVIOUS
    <2>1. PICK x, s, p, rec : x = slots[record[r].dir] /\ s = scan[r].sector /\ p = SlotAt(s, k) /\ rec = record[r]
      OBVIOUS
    <2>2. /\ b = SectorOf(x, s) /\ Tidy(x) /\ CursorOK(rec, x, {}, cursorDir, cursorIndex)
          /\ ScanOK(rec, x, scan[r])
      BY <2>1, SectorReadIs
    <2>3. /\ cursorIndex = Cardinality(Seen(x, rec.last)) /\ NamesUpTo(x, rec.last) = GivenIn(rec)
          /\ scan[r].index = Cardinality(Seen(x, Before(s)))
      BY <2>1, <2>2 DEF CursorOK, ScanOK
    <2>4. Cardinality(Seen(x, Before(s))) + Cardinality(CountedBefore(b, k)) = Cardinality(Seen(x, rec.last))
      BY <1>6, <2>3
    <2>5. s \in 1 .. Sectors /\ rec.last \in 0 .. Slots
      BY <1>7, <2>1
    <2>6. /\ p \in 1 .. Slots /\ x[p] = b[k]
          /\ Cardinality(Seen(x, p)) = Cardinality(Seen(x, rec.last)) + 1
          /\ NamesUpTo(x, p) = NamesUpTo(x, rec.last) \union ({b[k]} \intersect Name)
          /\ b[k] \notin NamesUpTo(x, rec.last)
      BY <1>6, <2>1, <2>2, <2>4, <2>5, FoundIs
    <2>7. /\ x[p] = b[k]
          /\ Cardinality(Seen(x, p)) = cursorIndex + 1
          /\ NamesUpTo(x, p) = GivenIn(rec) \union ({b[k]} \intersect Name)
          /\ b[k] \notin GivenIn(rec)
      BY <2>3, <2>6
    <2> QED BY <2>1, <2>2, <2>7
  <1>10. /\ g \in RecordType
         /\ g.dir = record[r].dir /\ g.stable = record[r].stable
         /\ g.dir = NoDir => g = Disturbed
         /\ g.dir # NoDir => GivenIn(g) = GivenIn(record[r]) \union (IF r \in Rpc THEN {b[k]} \intersect Name ELSE {})
         /\ \A i, j \in DOMAIN g.listed : g.listed[i] = g.listed[j] => i = j
    <2>1. b[k] \notin GivenIn(record[r])
      BY <1>1, <1>9, RecordsTyped DEF RecordOK
    <2>2. CASE r \in Rpc
      BY <1>1, <1>3, <1>6, <2>1, <2>2, GivenIs
    <2>3. CASE r \notin Rpc
      <3>1. g = record[r]
        BY <1>3, <2>3
      <3> QED BY <1>1, <1>7, <2>3, <3>1 DEF RecordOK
    <2> QED BY <2>2, <2>3
  <1>11. at \in 0 .. Slots /\ (g.dir = NoDir => at = 0) /\ (g.dir # NoDir => at = SlotAt(scan[r].sector, k))
    BY <1>3, <1>8, Numbers
  <1>12. /\ v \in RecordType /\ v.last = at /\ v.dir = g.dir /\ v.listed = g.listed /\ v.stable = g.stable
         /\ GivenIn(v) = GivenIn(g)
    <2>1. /\ v.last = at /\ v.dir = g.dir /\ v.listed = g.listed /\ v.stable = g.stable
      BY <1>3, <1>10 DEF RecordType
    <2>2. v = [dir |-> g.dir, last |-> at, listed |-> g.listed, stable |-> g.stable]
      BY <1>3, <1>10 DEF RecordType
    <2>3. v \in RecordType
      BY <1>10, <1>11, <2>2 DEF RecordType
    <2> QED BY <2>1, <2>3 DEF GivenIn
  <1>13. v.dir = NoDir => v = Disturbed
    <2> SUFFICES ASSUME v.dir = NoDir PROVE v = Disturbed
      OBVIOUS
    <2>1. g = Disturbed /\ at = 0 /\ g.last = 0
      BY <1>10, <1>11, <1>12, RecordsTyped
    <2>2. v = g
      BY <1>3, <1>10, <2>1 DEF RecordType
    <2> QED BY <2>1, <2>2
  <1>14. PICK S : S = OthersListing(r) /\ S \in SUBSET Reader /\ \A q \in Reader \ {r} : q \in S <=> Listing(q)
    <2>1. OthersListing(r) \in SUBSET Reader /\ \A q \in Reader \ {r} : q \in OthersListing(r) <=> Listing(q)
      BY DEF OthersListing
    <2> QED BY <2>1
  <1>15. /\ record' \in [Reader -> RecordType] /\ record'[r] = v
         /\ \A q \in Reader \ {r} : record'[q] = IF q \in S THEN Disturbed ELSE record[q]
    <2>1. record' = [Lost(record, S) EXCEPT ![r] = v]
      BY <1>4, <1>14
    <2> QED BY <1>1, <1>12, <1>14, <2>1, LostIs
  <1>16. /\ state' \in [Reader -> {"closed", "open", "scan", "ended"}] /\ scan' \in [Reader -> ScanType]
         /\ ahead' \in [Handle -> Entry]
         /\ state'[r] = "open" /\ scan'[r] = NoScan /\ (r \in Handle => ahead'[r] = b[k])
         /\ \A q \in Reader \ {r} : state'[q] = state[q] /\ scan'[q] = scan[q] /\ (q \in Handle => ahead'[q] = ahead[q])
    <2>1. /\ state \in [Reader -> {"closed", "open", "scan", "ended"}] /\ scan \in [Reader -> ScanType]
          /\ ahead \in [Handle -> Entry]
      BY <1>1 DEF TypeOK, ScanType
    <2>2. state' = [state EXCEPT ![r] = "open"] /\ scan' = [scan EXCEPT ![r] = NoScan]
      BY <1>2
    <2>3. ahead' = IF r \in Handle THEN [ahead EXCEPT ![r] = b[k]] ELSE ahead
      BY <1>2
    <2>4. scan' \in [Reader -> ScanType] /\ scan'[r] = NoScan /\ \A q \in Reader \ {r} : scan'[q] = scan[q]
      BY <2>1, <2>2, RecordsTyped
    <2>5. state' \in [Reader -> {"closed", "open", "scan", "ended"}] /\ state'[r] = "open" /\ \A q \in Reader \ {r} : state'[q] = state[q]
      BY <2>1, <2>2
    <2>6. /\ ahead' \in [Handle -> Entry] /\ (r \in Handle => ahead'[r] = b[k])
          /\ \A q \in Reader \ {r} : q \in Handle => ahead'[q] = ahead[q]
      BY <1>6, <2>1, <2>3
    <2> QED BY <2>4, <2>5, <2>6
  <1>17. TypeOK'
    BY <1>1, <1>2, <1>8, <1>15, <1>16, TypedNext DEF TypeOK
  <1>18. ASSUME NEW q \in Reader \ {r} PROVE ReaderOK(q)'
    BY <1>14, <1>15, <1>16, <1>18, OtherOK
  <1>19. ScanTyped(r)'
    <2>1. scan'[r].index = 0 /\ scan'[r].sector = 1 /\ state'[r] # "scan"
      BY <1>16, RecordsTyped
    <2> QED BY <2>1, Numbers DEF ScanTyped, Before
  <1>20. RecordOK(r)'
    BY <1>10, <1>12, <1>13, <1>15, <1>16 DEF RecordOK
  <1>21. UndisturbedOK(r)'
    <2> SUFFICES ASSUME v.dir # NoDir
                 PROVE  CursorOK(record[r], slots[record[r].dir], Pending(r), cursorDir, cursorIndex)'
      BY <1>15, <1>16 DEF UndisturbedOK
    <2>1. PICK x, p, rec, e : /\ x = slots[record[r].dir] /\ p = SlotAt(scan[r].sector, k) /\ rec = record[r]
                              /\ e = {b[k]} \intersect Name
      OBVIOUS
    <2>2. v.dir = rec.dir /\ rec.dir # NoDir /\ v.last = p /\ v.stable = rec.stable
      BY <1>10, <1>11, <1>12, <2>1
    <2>3. /\ CursorOK(rec, x, {}, cursorDir, cursorIndex)
          /\ Cardinality(Seen(x, p)) = cursorIndex + 1
          /\ NamesUpTo(x, p) = GivenIn(rec) \union e /\ GivenIn(rec) \intersect e = {}
      BY <1>9, <2>1, <2>2
    <2>4. PICK pend : pend = Pending(r)'
      OBVIOUS
    <2>5. GivenIn(v) \union pend = GivenIn(rec) \union e /\ GivenIn(v) \intersect pend = {}
      <3>1. CASE r \in Rpc
        <4>1. r \notin Handle
          BY <3>1, Numbers
        <4>2. pend = {}
          BY <2>4, <4>1 DEF Pending
        <4> QED BY <1>10, <1>12, <2>1, <2>2, <3>1, <4>2
      <3>2. CASE r \notin Rpc
        <4>1. r \in Handle
          BY <3>2 DEF Reader
        <4>2. pend = e
          BY <1>16, <2>1, <2>4, <4>1 DEF Pending
        <4>3. GivenIn(v) = GivenIn(rec)
          BY <1>10, <1>12, <2>1, <2>2, <3>2
        <4> QED BY <2>3, <4>2, <4>3
      <3> QED BY <3>1, <3>2
    <2>6. PICK c : c = cursorIndex + 1 /\ c = cursorIndex'
      BY <1>2
    <2>7. CursorOK(v, x, pend, cursorDir, c)
      BY <2>2, <2>3, <2>5, <2>6 DEF CursorOK
    <2>8. cursorDir' = cursorDir /\ slots'[v.dir] = x
      BY <1>2, <2>1, <2>2
    <2> QED BY <1>15, <2>4, <2>6, <2>7, <2>8
  <1>22. ReaderOK(r)'
    BY <1>19, <1>20, <1>21 DEF ReaderOK
  <1> QED BY <1>1, <1>17, <1>18, <1>22 DEF ListingInv, Tidy

LEMMA ExhaustedOK ==
  ASSUME ListingInv, NEW r \in Reader, state[r] = "scan", NEW b \in SectorRead(r), Exhausted(r, b),
         slots' = slots, cbuf' = cbuf
  PROVE  ListingInv'
  <1>1. TypeOK /\ ReaderOK(r) /\ RecordOK(r) /\ \A d \in Dir : Tidy(slots[d])
    BY DEF ListingInv, ReaderOK
  <1>2. /\ Wanted(r, b) = {}
        /\ End \in {b[k] : k \in DOMAIN b} \/ scan[r].sector = Sectors
        /\ cursorDir' = NoDir /\ state' = [state EXCEPT ![r] = "ended"] /\ scan' = [scan EXCEPT ![r] = NoScan]
        /\ record' = Lost(record, OthersListing(r)) /\ cursorIndex' = cursorIndex /\ ahead' = ahead
    BY DEF Exhausted
  <1>3. /\ DOMAIN b = 1 .. SectorSlots
    BY SectorReadIs
  <1>4. /\ scan[r].sector \in 1 .. Sectors /\ record[r] \in RecordType /\ record[r].last \in 0 .. Slots
        /\ record[r].dir \in Dir \union {NoDir}
    BY <1>1, Fields
  <1>5. PICK S : /\ S = OthersListing(r) /\ S \in SUBSET Reader /\ r \notin S
                 /\ \A q \in Reader \ {r} : q \in S <=> Listing(q)
    <2>1. /\ OthersListing(r) \in SUBSET Reader /\ r \notin OthersListing(r)
          /\ \A q \in Reader \ {r} : q \in OthersListing(r) <=> Listing(q)
      BY DEF OthersListing
    <2> QED BY <2>1
  <1>6. /\ record' \in [Reader -> RecordType] /\ record'[r] = record[r]
        /\ \A q \in Reader \ {r} : record'[q] = IF q \in S THEN Disturbed ELSE record[q]
    <2>1. record' = Lost(record, S)
      BY <1>2, <1>5
    <2>2. /\ Lost(record, S) \in [Reader -> RecordType]
          /\ \A q \in Reader : Lost(record, S)[q] = IF q \in S THEN Disturbed ELSE record[q]
      BY <1>1, <1>5, LostAll
    <2> QED BY <1>5, <2>1, <2>2
  <1>7. /\ state' \in [Reader -> {"closed", "open", "scan", "ended"}] /\ scan' \in [Reader -> ScanType]
        /\ state'[r] = "ended" /\ scan'[r] = NoScan
        /\ \A q \in Reader \ {r} : state'[q] = state[q] /\ scan'[q] = scan[q]
    <2>1. /\ state \in [Reader -> {"closed", "open", "scan", "ended"}] /\ scan \in [Reader -> ScanType]
      BY <1>1 DEF TypeOK, ScanType
    <2>2. scan' \in [Reader -> ScanType] /\ scan'[r] = NoScan /\ \A q \in Reader \ {r} : scan'[q] = scan[q]
      BY <1>2, <2>1, RecordsTyped
    <2> QED BY <1>2, <2>1, <2>2
  <1>8. TypeOK'
    BY <1>1, <1>2, <1>6, <1>7, TypedNext DEF TypeOK
  <1>9. ASSUME NEW q \in Reader \ {r} PROVE ReaderOK(q)'
    BY <1>2, <1>5, <1>6, <1>7, <1>9, OtherOK
  <1>10. ScanTyped(r)'
    <2>1. scan'[r].index = 0 /\ scan'[r].sector = 1 /\ state'[r] # "scan"
      BY <1>7, RecordsTyped
    <2> QED BY <2>1, Numbers DEF ScanTyped, Before
  <1>11. record[r].stable \subseteq GivenIn(record[r])
    <2>1. CASE record[r].dir = NoDir
      BY <1>1, <2>1, RecordsTyped DEF RecordOK
    <2>2. CASE record[r].dir # NoDir
      <3>1. PICK x, s, rec : x = slots[record[r].dir] /\ s = scan[r].sector /\ rec = record[r]
        OBVIOUS
      <3>2. /\ b = SectorOf(x, s) /\ Tidy(x) /\ CursorOK(rec, x, {}, cursorDir, cursorIndex)
            /\ ScanOK(rec, x, scan[r])
        BY <2>2, <3>1, SectorReadIs
      <3>3. s \in 1 .. Sectors /\ rec.last \in 0 .. Slots
        BY <1>4, <3>1
      <3>4. PICK n : n = Before(s) + SectorSlots
        OBVIOUS
      <3>5. \A p \in 1 .. n : p > rec.last => x[p] \notin Name \union {Label}
        <4>1. \A i \in 1 .. Before(s) : i > rec.last => x[i] = Hole
          BY <3>1, <3>2 DEF ScanOK
        <4>2. ASSUME NEW k \in Counted(SectorOf(x, s))
              PROVE  Cardinality(Seen(x, Before(s))) + Cardinality(CountedBefore(SectorOf(x, s), k)) # Cardinality(Seen(x, rec.last))
          <5>1. Wanted(r, b) = {}
            BY <1>2
          <5>2. k \in Counted(b)
            BY <3>2
          <5>3. scan[r].index + Cardinality(CountedBefore(b, k)) # cursorIndex
            BY <5>1, <5>2 DEF Wanted, CountedBefore
          <5>4. scan[r].index = Cardinality(Seen(x, Before(s))) /\ cursorIndex = Cardinality(Seen(x, rec.last))
            BY <3>1, <3>2 DEF ScanOK, CursorOK
          <5> QED BY <3>2, <5>3, <5>4
        <4>3. Name \intersect {End, Hole, Label} = {}
          BY ListingAssumption
        <4> QED BY <3>2, <3>3, <3>4, <4>1, <4>2, <4>3, NoneWanted
      <3>6. /\ n \in Nat /\ n <= Slots /\ Slots \in Nat /\ Before(s) \in Nat /\ SectorSlots \in Nat
            /\ s = Sectors => n = Slots
        BY <3>3, <3>4, SectorPlaces
      <3>7. ASSUME NEW p \in 1 .. Slots, p > n PROVE x[p] \notin Name \union {Label}
        <4>1. s # Sectors
          BY <3>6, <3>7
        <4>2. PICK k \in 1 .. SectorSlots : b[k] = End
          BY <1>2, <1>3, <3>1, <4>1
        <4>3. b[k] = x[Before(s) + k]
          BY <3>2, <3>3, SectorPlaces DEF SectorOf
        <4>4. Before(s) + k \in 1 .. Slots /\ Before(s) + k < p
          BY <3>4, <3>6, <3>7
        <4>5. x[p] = End
          BY <3>2, <4>2, <4>3, <4>4 DEF Tidy
        <4> QED BY <4>5, Numbers, EntriesDiffer
      <3>8. Seen(x, rec.last) = Seen(x, Slots)
        <4>1. \A p \in 1 .. Slots : p > rec.last => x[p] \notin Name \union {Label}
          BY <3>3, <3>5, <3>6, <3>7
        <4>2. rec.last \in Nat /\ rec.last <= Slots
          BY <3>3, <3>6
        <4> QED BY <3>6, <4>1, <4>2, SeenSame
      <3>9. NamesUpTo(x, rec.last) = NamesUpTo(x, Slots)
        BY <3>8 DEF NamesUpTo
      <3> QED BY <3>1, <3>2, <3>9 DEF CursorOK
    <2> QED BY <2>1, <2>2
  <1>12. RecordOK(r)'
    <2>1. PICK v : v = record[r] /\ v = record'[r]
      BY <1>6
    <2>2. /\ v.dir = NoDir => v = Disturbed
          /\ \A i, j \in DOMAIN v.listed : v.listed[i] = v.listed[j] => i = j
      BY <1>1, <2>1 DEF RecordOK
    <2> QED BY <1>7, <1>11, <2>1, <2>2 DEF RecordOK
  <1>13. UndisturbedOK(r)'
    BY <1>7 DEF UndisturbedOK, Listing
  <1>14. ReaderOK(r)'
    BY <1>10, <1>12, <1>13 DEF ReaderOK
  <1> QED BY <1>1, <1>8, <1>9, <1>14 DEF ListingInv, Tidy

LEMMA GoOnOK ==
  ASSUME ListingInv, NEW r \in Reader, state[r] = "scan", NEW b \in SectorRead(r), GoOn(r, b),
         slots' = slots, cbuf' = cbuf
  PROVE  ListingInv'
  <1>1. TypeOK /\ ReaderOK(r) /\ RecordOK(r) /\ \A d \in Dir : Tidy(slots[d])
    BY DEF ListingInv, ReaderOK
  <1>2. PICK w, s, lost : /\ w = scan[r] /\ s = w.sector
                          /\ lost = (scan[r].dir # Root /\ cbuf # scan[r].dir)
    OBVIOUS
  <1>3. PICK c, z : /\ c = Cardinality(Counted(b))
                    /\ z = [w EXCEPT !.sector = s + 1, !.index = w.index + c, !.foreign = w.foreign \/ lost]
    OBVIOUS
  <1>4. /\ Wanted(r, b) = {} /\ End \notin {b[k] : k \in DOMAIN b} /\ s < Sectors
        /\ scan' = [scan EXCEPT ![r] = z]
        /\ record' = (IF lost THEN Lost(record, {r}) ELSE record)
        /\ cursorDir' = cursorDir /\ cursorIndex' = cursorIndex /\ state' = state /\ ahead' = ahead
    BY <1>2, <1>3 DEF GoOn
  <1>5. DOMAIN b = 1 .. SectorSlots
    BY SectorReadIs
  <1>6. /\ w \in ScanType /\ s \in 1 .. Sectors /\ w.index \in 0 .. Slots /\ w.dir \in Dir
        /\ record[r] \in RecordType /\ record[r].last \in 0 .. Slots /\ w.index <= Before(s)
        /\ record[r].dir \in Dir \union {NoDir} /\ w.foreign \in BOOLEAN
    BY <1>1, <1>2, Fields DEF ReaderOK, ScanTyped
  <1>7. PICK n : n = Before(s) /\ n \in Nat /\ n + SectorSlots <= Slots /\ Before(s + 1) = n + SectorSlots
                 /\ SectorSlots \in Nat /\ Slots \in Nat
    BY <1>6, SectorPlaces
  <1>8. /\ c \in Nat /\ c <= SectorSlots
    BY <1>3, <1>5, CountedIs
  <1>9. s + 1 \in 1 .. Sectors /\ w.index + c \in 0 .. Slots /\ w.index + c <= n + SectorSlots
    <2>1. s + 1 \in 1 .. Sectors
      BY <1>4, <1>6, Numbers
    <2>2. PICK j : j = w.index
      OBVIOUS
    <2>3. j \in Nat /\ j <= n /\ c \in Nat /\ c <= SectorSlots
      BY <1>6, <1>7, <1>8, <2>2
    <2> QED BY <1>7, <2>1, <2>2, <2>3
  <1>10. /\ z.dir = w.dir /\ z.sector = s + 1 /\ z.index = w.index + c /\ (z.foreign <=> w.foreign \/ lost)
         /\ z \in ScanType
    <2>1. PICK f : f = (w.foreign \/ lost)
      OBVIOUS
    <2>2. f \in BOOLEAN
      BY <1>2, <1>6, <2>1
    <2>3. z = [w EXCEPT !.sector = s + 1, !.index = w.index + c, !.foreign = f]
      BY <1>3, <2>1
    <2>4. z = [dir |-> w.dir, sector |-> s + 1, index |-> w.index + c, foreign |-> f]
      BY <1>6, <2>3 DEF ScanType
    <2>5. z \in ScanType
      BY <1>6, <1>9, <2>2, <2>4 DEF ScanType
    <2> QED BY <2>1, <2>4, <2>5
  <1>11. /\ scan' \in [Reader -> ScanType] /\ scan'[r] = z /\ \A q \in Reader \ {r} : scan'[q] = scan[q]
    <2>1. scan \in [Reader -> ScanType]
      BY <1>1 DEF TypeOK, ScanType
    <2> QED BY <1>4, <1>10, <2>1
  <1>12. /\ record' \in [Reader -> RecordType] /\ \A q \in Reader \ {r} : record'[q] = record[q]
         /\ lost => record'[r] = Disturbed
         /\ ~ lost => record'[r] = record[r]
    <2>1. CASE lost
      <3>1. /\ Lost(record, {r}) \in [Reader -> RecordType]
            /\ \A q \in Reader : Lost(record, {r})[q] = IF q \in {r} THEN Disturbed ELSE record[q]
        <4>1. {r} \in SUBSET Reader
          OBVIOUS
        <4> QED BY <1>1, <4>1, LostAll
      <3>2. record' = Lost(record, {r})
        BY <1>4, <2>1
      <3>3. /\ record' \in [Reader -> RecordType] /\ \A q \in Reader \ {r} : record'[q] = record[q]
            /\ record'[r] = Disturbed
        BY <3>1, <3>2
      <3> QED BY <2>1, <3>3
    <2>2. CASE ~ lost
      <3>1. record' = record
        BY <1>4, <2>2
      <3>2. record \in [Reader -> RecordType]
        BY <1>1 DEF TypeOK, RecordType
      <3> QED BY <2>2, <3>1, <3>2
    <2> QED BY <2>1, <2>2
  <1>13. TypeOK'
    BY <1>1, <1>4, <1>11, <1>12, TypedNext DEF TypeOK
  <1>14. ASSUME NEW q \in Reader \ {r} PROVE ReaderOK(q)'
    BY <1>4, <1>11, <1>12, <1>14, OtherOK
  <1>15. ScanTyped(r)'
    BY <1>6, <1>7, <1>9, <1>10, <1>11 DEF ScanTyped, Before
  <1>16. RecordOK(r)'
    <2>1. CASE record'[r] = Disturbed
      <3>1. state'[r] = "scan" /\ ahead' = ahead
        BY <1>4
      <3> QED BY <1>1, <2>1, <3>1, RecordsTyped DEF RecordOK, GivenIn
    <2>2. CASE record'[r] = record[r]
      BY <1>1, <1>4, <2>2 DEF RecordOK, GivenIn
    <2> QED BY <1>12, <2>1, <2>2
  <1>17. UndisturbedOK(r)'
    <2> SUFFICES ASSUME record'[r].dir # NoDir
                 PROVE  /\ CursorOK(record[r], slots[record[r].dir], Pending(r), cursorDir, cursorIndex)'
                        /\ ScanOK(record[r], slots[record[r].dir], scan[r])'
      BY DEF UndisturbedOK
    <2>1. ~ lost /\ record'[r] = record[r]
      BY <1>12, RecordsTyped
    <2>2. PICK x, rec : x = slots[record[r].dir] /\ rec = record[r]
      OBVIOUS
    <2>3. rec.dir # NoDir /\ rec.dir \in Dir /\ rec.last \in 0 .. Slots
      BY <1>6, <2>1, <2>2
    <2>4. /\ b = SectorOf(x, s) /\ Tidy(x) /\ CursorOK(rec, x, {}, cursorDir, cursorIndex)
          /\ ScanOK(rec, x, w)
      BY <1>2, <2>2, <2>3, SectorReadIs
    <2>5. Pending(r)' = {}
      BY <1>1, <1>4, Numbers DEF RecordOK, Pending
    <2>6. \A p \in 1 .. n + SectorSlots : p > rec.last => x[p] \notin Name \union {Label}
      <3>1. \A i \in 1 .. Before(s) : i > rec.last => x[i] = Hole
        BY <1>2, <2>4 DEF ScanOK
      <3>2. ASSUME NEW k \in Counted(SectorOf(x, s))
            PROVE  Cardinality(Seen(x, Before(s))) + Cardinality(CountedBefore(SectorOf(x, s), k)) # Cardinality(Seen(x, rec.last))
        <4>1. k \in Counted(b) /\ k \notin Wanted(r, b)
          BY <1>4, <2>4
        <4>2. scan[r].index + Cardinality(CountedBefore(b, k)) # cursorIndex
          BY <4>1 DEF Wanted, CountedBefore
        <4>3. scan[r].index = Cardinality(Seen(x, Before(s))) /\ cursorIndex = Cardinality(Seen(x, rec.last))
          BY <1>2, <2>4 DEF ScanOK, CursorOK
        <4> QED BY <2>4, <4>2, <4>3
      <3>3. Name \intersect {End, Hole, Label} = {}
        BY ListingAssumption
      <3> QED BY <1>6, <1>7, <2>3, <2>4, <3>1, <3>2, <3>3, NoneWanted
    <2>7. /\ Cardinality(Seen(x, n + SectorSlots)) = w.index + c
          /\ \A k \in 1 .. SectorSlots : x[n + k] # End
      <3>1. /\ Cardinality(Seen(x, Before(s) + SectorSlots)) = Cardinality(Seen(x, Before(s))) + Cardinality(Counted(b))
            /\ \A k \in 1 .. SectorSlots : x[Before(s) + k] # End
        BY <1>4, <1>6, <2>4, SectorCountedWhole
      <3>2. w.index = Cardinality(Seen(x, Before(s)))
        BY <1>2, <2>4 DEF ScanOK
      <3> QED BY <1>3, <1>7, <3>1, <3>2
    <2>8. ASSUME NEW i \in 1 .. n + SectorSlots PROVE x[i] # End /\ (i > rec.last => x[i] = Hole)
      <3>1. CASE i \in 1 .. n
        BY <1>2, <1>7, <2>4, <3>1 DEF ScanOK
      <3>2. CASE i \notin 1 .. n
        <4>1. PICK k \in 1 .. SectorSlots : n + k = i
          <5>1. i - n \in 1 .. SectorSlots /\ n + (i - n) = i
            BY <1>7, <3>2
          <5> QED BY <5>1
        <4>2. x[i] # End
          BY <2>7, <4>1
        <4>3. x[i] \in Entry
          <5>1. i \in 1 .. Slots
            BY <1>7
          <5>2. x \in [1 .. Slots -> Entry]
            BY <1>1, <2>2, <2>3 DEF TypeOK
          <5> QED BY <5>1, <5>2
        <4> QED BY <2>6, <4>2, <4>3 DEF Entry
      <3> QED BY <3>1, <3>2
    <2>9. ScanOK(rec, x, z)
      <3>1. Before(z.sector) = n + SectorSlots
        BY <1>7, <1>10
      <3>2. z.dir = rec.dir /\ ~ z.foreign
        BY <1>10, <2>1, <2>4 DEF ScanOK
      <3> QED BY <1>10, <2>7, <2>8, <3>1, <3>2 DEF ScanOK
    <2>10. CursorOK(record[r], slots[record[r].dir], Pending(r), cursorDir, cursorIndex)'
      BY <1>4, <2>1, <2>2, <2>4, <2>5
    <2>11. ScanOK(record[r], slots[record[r].dir], scan[r])'
      BY <1>11, <2>1, <2>2, <2>9
    <2> QED BY <2>10, <2>11
  <1>18. ReaderOK(r)'
    BY <1>15, <1>16, <1>17 DEF ReaderOK
  <1> QED BY <1>1, <1>13, <1>14, <1>18 DEF ListingInv, Tidy
-----------------------------------------------------------------------------
(* Another thread changes slot i of directory d to e.                      *)
LEMMA TidyNext ==
  ASSUME NEW x \in [1 .. Slots -> Entry], Tidy(x), NEW i \in 1 .. Slots, NEW e \in Entry \ {End},
         x[i] = End => \A j \in 1 .. i - 1 : x[j] # End,
         e \in Name => \A j \in 1 .. Slots : x[j] # e,
         NEW y, y = [x EXCEPT ![i] = e]
  PROVE  Tidy(y)
  <1>1. \A j \in 1 .. Slots : y[j] = IF j = i THEN e ELSE x[j]
    OBVIOUS
  <1>2. ASSUME NEW j \in 1 .. Slots, NEW k \in 1 .. Slots, j < k, y[j] = End PROVE y[k] = End
    <2>1. j # i /\ x[j] = End
      BY <1>1, <1>2
    <2>2. x[k] = End
      BY <1>2, <2>1 DEF Tidy
    <2>3. k # i
      <3>1. ASSUME k = i PROVE FALSE
        <4>1. j \in 1 .. i - 1
          BY <1>2, <3>1
        <4> QED BY <2>1, <2>2, <3>1, <4>1
      <3> QED BY <3>1
    <2> QED BY <1>1, <2>2, <2>3
  <1>3. ASSUME NEW j \in 1 .. Slots, NEW k \in 1 .. Slots, y[j] \in Name, y[j] = y[k] PROVE j = k
    <2>1. CASE j # i /\ k # i
      BY <1>1, <1>3, <2>1 DEF Tidy
    <2>2. CASE j = i \/ k = i
      BY <1>1, <1>3, <2>2
    <2> QED BY <2>1, <2>2
  <1> QED BY <1>2, <1>3 DEF Tidy

LEMMA ChangedOK ==
  ASSUME ListingInv, NEW d \in Dir, NEW i \in 1 .. Slots, NEW e \in Entry \ {End}, NEW gone,
         slots[d][i] = End => \A j \in 1 .. i - 1 : slots[d][j] # End,
         e \in Name => \A j \in 1 .. Slots : slots[d][j] # e,
         slots[d][i] \in Name => slots[d][i] \in gone,
         slots' = [slots EXCEPT ![d][i] = e], Changed(d, i, gone), ChainUsed(d),
         cursorDir' = cursorDir, cursorIndex' = cursorIndex, state' = state, scan' = scan, ahead' = ahead
  PROVE  ListingInv'
  <1>1. TypeOK /\ (\A c \in Dir : Tidy(slots[c])) /\ \A q \in Reader : ReaderOK(q)
    BY DEF ListingInv
  <1>2. PICK x, y : x = slots[d] /\ y = [x EXCEPT ![i] = e]
    OBVIOUS
  <1>3. slots \in [Dir -> [1 .. Slots -> Entry]] /\ x \in [1 .. Slots -> Entry] /\ y \in [1 .. Slots -> Entry]
    BY <1>1, <1>2 DEF TypeOK
  <1>4. slots' = [slots EXCEPT ![d] = y]
    BY <1>2, <1>3
  <1>5. /\ slots' \in [Dir -> [1 .. Slots -> Entry]] /\ slots'[d] = y
        /\ \A c \in Dir \ {d} : slots'[c] = slots[c]
    BY <1>3, <1>4
  <1>6. \A j \in 1 .. Slots : y[j] = IF j = i THEN e ELSE x[j]
    BY <1>2, <1>3
  <1>7. \A c \in Dir : Tidy(slots'[c])
    <2>1. Tidy(y)
      BY <1>1, <1>2, <1>3, TidyNext
    <2> QED BY <1>1, <1>5, <2>1
  <1>8. ASSUME NEW q \in Reader
        PROVE  record'[q] \in RecordType /\ ReaderOK(q)'
    <2>1. PICK v, old : old = record[q] /\ v = record'[q]
      OBVIOUS
    <2>2. v = IF i <= Passed(q, d) THEN Disturbed
              ELSE IF old.dir = d THEN [old EXCEPT !.stable = @ \ gone] ELSE old
      BY <2>1 DEF Changed
    <2>3. /\ old \in RecordType /\ RecordOK(q) /\ ReaderOK(q) /\ old.last \in 0 .. Slots
          /\ state'[q] = state[q] /\ scan'[q] = scan[q] /\ (q \in Handle => ahead'[q] = ahead[q])
      BY <1>1, <2>1, Fields DEF ReaderOK
    <2>4. CASE v = Disturbed
      BY <2>1, <2>3, <2>4, RecordsTyped, OtherOK
    <2>5. CASE v # Disturbed /\ old.dir # d
      <3>1. v = old
        BY <2>2, <2>5
      <3>2. Listing(q) /\ record[q].dir # NoDir => slots'[record[q].dir] = slots[record[q].dir]
        BY <1>5, <2>1, <2>3, <2>5 DEF RecordType
      <3> QED BY <2>1, <2>3, <3>1, <3>2, OtherOK
    <2>6. CASE v # Disturbed /\ old.dir = d
      <3>1. PICK t : t = old.stable \ gone
        OBVIOUS
      <3>2. v = [old EXCEPT !.stable = t] /\ ~ (i <= Passed(q, d))
        BY <2>2, <2>6, <3>1
      <3>3. v.dir = old.dir /\ v.last = old.last /\ v.listed = old.listed /\ v.stable = t
        BY <2>3, <3>2 DEF RecordType
      <3>4. v \in RecordType
        <4>1. v = [dir |-> old.dir, last |-> old.last, listed |-> old.listed, stable |-> t]
          BY <2>3, <3>2 DEF RecordType
        <4> QED BY <2>3, <3>1, <4>1 DEF RecordType
      <3>5. d # NoDir /\ GivenIn(v) = GivenIn(old)
        BY <3>3, Numbers DEF GivenIn
      <3>6. RecordOK(q)'
        <4>1. \A j, k \in DOMAIN v.listed : v.listed[j] = v.listed[k] => j = k
          BY <2>1, <2>3, <3>3 DEF RecordOK
        <4>2. state[q] = "ended" => v.stable \subseteq GivenIn(v)
          BY <2>1, <2>3, <3>1, <3>3, <3>5 DEF RecordOK
        <4>3. q \in Handle /\ state[q] \in {"scan", "closed"} => ahead[q] = Hole
          BY <2>3 DEF RecordOK
        <4> QED BY <2>1, <2>3, <2>6, <3>3, <3>5, <4>1, <4>2, <4>3 DEF RecordOK
      <3>7. ScanTyped(q)'
        BY <2>3 DEF ReaderOK, ScanTyped, Before
      <3>8. ASSUME Listing(q)
            PROVE  /\ CursorOK(v, y, Pending(q), cursorDir, cursorIndex)
                   /\ state[q] = "scan" => ScanOK(v, y, scan[q])
        <4>1. /\ CursorOK(old, x, Pending(q), cursorDir, cursorIndex)
              /\ state[q] = "scan" => ScanOK(old, x, scan[q])
          BY <1>2, <2>1, <2>3, <2>6, <3>5, <3>8 DEF ReaderOK, UndisturbedOK
        <4>2. scan[q].sector \in 1 .. Sectors
          BY <1>1, Fields
        <4>3. PICK n, m : n = Before(scan[q].sector) /\ m = old.last
          OBVIOUS
        <4>4. n \in Nat /\ m \in Nat /\ n <= Slots /\ m <= Slots /\ Slots \in Nat
          BY <2>3, <4>2, <4>3, SectorPlaces
        <4>5. m < i /\ (state[q] = "scan" => n < i)
          <5>1. Passed(q, d) = LET read == IF state[q] = "scan" THEN n ELSE 0
                               IN  IF read > m THEN read ELSE m
            BY <2>1, <2>6, <3>8, <4>3 DEF Passed, Before
          <5> QED BY <3>2, <4>4, <5>1
        <4>6. /\ \A j \in 1 .. m : y[j] = x[j]
              /\ state[q] = "scan" => \A j \in 1 .. n : y[j] = x[j]
          BY <1>6, <4>4, <4>5
        <4>7. Seen(y, m) = Seen(x, m) /\ NamesUpTo(y, m) = NamesUpTo(x, m)
          BY <4>6 DEF Seen, NamesUpTo
        <4>8. v.stable \subseteq NamesUpTo(y, Slots)
          <5> SUFFICES ASSUME NEW a \in old.stable, a \notin gone PROVE a \in NamesUpTo(y, Slots)
            BY <3>1, <3>3
          <5>1. PICK j \in 1 .. Slots : x[j] = a /\ a \in Name
            BY <4>1 DEF CursorOK, NamesUpTo, Seen
          <5>2. j # i
            BY <1>2, <5>1
          <5>3. y[j] = a
            BY <1>6, <5>1, <5>2
          <5> QED BY <5>1, <5>3 DEF NamesUpTo, Seen
        <4>9. CursorOK(v, y, Pending(q), cursorDir, cursorIndex)
          BY <3>3, <3>5, <4>1, <4>3, <4>7, <4>8 DEF CursorOK
        <4>10. ASSUME state[q] = "scan" PROVE ScanOK(v, y, scan[q])
          <5>1. Seen(y, n) = Seen(x, n)
            BY <4>6, <4>10 DEF Seen
          <5> QED BY <3>3, <4>1, <4>3, <4>6, <4>10, <5>1 DEF ScanOK
        <4> QED BY <4>9, <4>10
      <3>9. UndisturbedOK(q)'
        <4>1. Pending(q)' = Pending(q) /\ (Listing(q)' <=> Listing(q))
          BY <2>3 DEF Pending, Listing
        <4>2. slots'[v.dir] = y
          BY <1>5, <2>6, <3>3
        <4> QED BY <2>1, <2>3, <3>8, <4>1, <4>2 DEF UndisturbedOK
      <3> QED BY <2>1, <3>4, <3>6, <3>7, <3>9 DEF ReaderOK
    <2> QED BY <2>4, <2>5, <2>6
  <1>9. record' \in [Reader -> RecordType]
    <2>1. \A q \in Reader : record'[q] \in RecordType
      BY <1>8
    <2>2. DOMAIN record' = Reader /\ record' = [q \in Reader |-> record'[q]]
      BY DEF Changed
    <2> QED BY <2>1, <2>2
  <1>10. cbuf' \in SubDir \union {NoDir}
    BY DEF ChainUsed
  <1>11. TypeOK'
    BY <1>1, <1>5, <1>9, <1>10, TypedNext DEF TypeOK, ScanType
  <1> QED BY <1>7, <1>8, <1>11 DEF ListingInv, Tidy

LEMMA StoreOK ==
  ASSUME ListingInv, NEW d \in Dir, NEW n \in Name, Store(d, n)
  PROVE  ListingInv'
  <1>1. PICK i \in 1 .. Slots :
          /\ slots[d][i] = Hole \/ (slots[d][i] = End /\ \A j \in 1 .. i - 1 : slots[d][j] # End)
          /\ slots' = [slots EXCEPT ![d][i] = n]
          /\ Changed(d, i, {})
    BY DEF Store
  <1>2. /\ ChainUsed(d) /\ cursorDir' = cursorDir /\ cursorIndex' = cursorIndex
        /\ state' = state /\ scan' = scan /\ ahead' = ahead
    BY DEF Store
  <1>3. \A j \in 1 .. Slots : slots[d][j] # n
    BY DEF Store, NamesIn
  <1>4. n \in Entry \ {End} /\ slots[d][i] \notin Name
    BY <1>1, Numbers DEF Entry
  <1>5. slots[d][i] = End => \A j \in 1 .. i - 1 : slots[d][j] # End
    BY <1>1, EntriesDiffer
  <1> QED BY <1>1, <1>2, <1>3, <1>4, <1>5, ChangedOK

LEMMA RemoveOK ==
  ASSUME ListingInv, NEW d \in Dir, NEW n \in Name, Remove(d, n)
  PROVE  ListingInv'
  <1>1. PICK i \in 1 .. Slots :
          slots[d][i] = n /\ slots' = [slots EXCEPT ![d][i] = Hole] /\ Changed(d, i, {n})
    BY DEF Remove
  <1>2. /\ ChainUsed(d) /\ cursorDir' = cursorDir /\ cursorIndex' = cursorIndex
        /\ state' = state /\ scan' = scan /\ ahead' = ahead
    BY DEF Remove
  <1>3. Hole \in Entry \ {End} /\ Hole \notin Name /\ slots[d][i] # End
    BY <1>1, Numbers, EntriesDiffer DEF Entry
  <1>4. slots[d][i] \in {n}
    BY <1>1
  <1> QED BY <1>1, <1>2, <1>3, <1>4, ChangedOK

LEMMA MountOK ==
  ASSUME ListingInv, Mount
  PROVE  ListingInv'
  <1>1. TypeOK
    BY DEF ListingInv
  <1>2. PICK S : S = {r \in Reader : Listing(r)}
    OBVIOUS
  <1>3. S \in SUBSET Reader /\ \A q \in Reader : q \in S <=> Listing(q)
    BY <1>2
  <1>4. /\ record' \in [Reader -> RecordType]
        /\ \A q \in Reader : record'[q] = IF q \in S THEN Disturbed ELSE record[q]
    <2>1. record' = Lost(record, S)
      BY <1>2 DEF Mount
    <2> QED BY <1>1, <1>3, <2>1, LostAll
  <1>5. /\ slots' = slots /\ state' = state /\ scan' = scan /\ ahead' = ahead
        /\ cursorDir' = NoDir /\ cursorIndex' = 0 /\ cbuf' = NoDir
    BY DEF Mount
  <1>6. TypeOK'
    BY <1>1, <1>4, <1>5, Numbers, TypedNext DEF TypeOK, ScanType
  <1>7. ASSUME NEW q \in Reader PROVE ReaderOK(q)'
    BY <1>3, <1>4, <1>5, OtherOK
  <1> QED BY <1>5, <1>6, <1>7 DEF ListingInv, Tidy

LEMMA UseFileOK ==
  ASSUME ListingInv, UseFile
  PROVE  ListingInv'
  <1>1. /\ slots' = slots /\ state' = state /\ scan' = scan /\ ahead' = ahead /\ record' = record
        /\ cursorDir' = cursorDir /\ cursorIndex' = cursorIndex /\ cbuf' = NoDir
    BY DEF UseFile
  <1>2. TypeOK'
    BY <1>1, TypedNext DEF ListingInv, TypeOK, ScanType, RecordType
  <1>3. ASSUME NEW q \in Reader PROVE ReaderOK(q)'
    BY <1>1, OtherOK
  <1> QED BY <1>1, <1>2, <1>3 DEF ListingInv, Tidy

LEMMA DcloseOK ==
  ASSUME ListingInv, NEW r \in Reader, Dclose(r)
  PROVE  ListingInv'
  <1>1. TypeOK /\ ReaderOK(r)
    BY DEF ListingInv
  <1>2. /\ state' = [state EXCEPT ![r] = "closed"] /\ record' = [record EXCEPT ![r] = Disturbed]
        /\ ahead' = [ahead EXCEPT ![r] = Hole] /\ slots' = slots /\ scan' = scan
        /\ cursorDir' = cursorDir /\ cursorIndex' = cursorIndex /\ cbuf' = cbuf /\ r \in Handle
    BY DEF Dclose, cursorVars
  <1>3. /\ record \in [Reader -> RecordType] /\ ahead \in [Handle -> Entry]
        /\ state \in [Reader -> {"closed", "open", "scan", "ended"}] /\ Hole \in Entry
    BY <1>1 DEF TypeOK, RecordType, Entry
  <1>4. /\ record' \in [Reader -> RecordType] /\ ahead' \in [Handle -> Entry]
        /\ state' \in [Reader -> {"closed", "open", "scan", "ended"}]
        /\ state'[r] = "closed" /\ record'[r] = Disturbed /\ ahead'[r] = Hole
        /\ \A q \in Reader \ {r} : /\ state'[q] = state[q] /\ record'[q] = record[q]
                                   /\ q \in Handle => ahead'[q] = ahead[q]
    BY <1>2, <1>3, RecordsTyped
  <1>5. TypeOK'
    BY <1>1, <1>2, <1>4, TypedNext DEF TypeOK, ScanType
  <1>6. ASSUME NEW q \in Reader \ {r} PROVE ReaderOK(q)'
    BY <1>2, <1>4, <1>6, OtherOK
  <1>7. ReaderOK(r)'
    <2>1. RecordOK(r)'
      BY <1>4, RecordsTyped DEF RecordOK
    <2>2. ScanTyped(r)' /\ UndisturbedOK(r)'
      BY <1>1, <1>2, <1>4 DEF ReaderOK, ScanTyped, Before, UndisturbedOK, Listing
    <2> QED BY <2>1, <2>2 DEF ReaderOK
  <1> QED BY <1>2, <1>5, <1>6, <1>7 DEF ListingInv, Tidy
-----------------------------------------------------------------------------
LEMMA ListingInit == Init => ListingInv
  <1> SUFFICES ASSUME Init PROVE ListingInv
    OBVIOUS
  <1>1. /\ slots \in Contents /\ cursorDir = NoDir /\ cursorIndex = 0 /\ cbuf = NoDir
        /\ state = [r \in Reader |-> "closed"] /\ scan = [r \in Reader |-> NoScan]
        /\ ahead = [r \in Handle |-> Hole] /\ record = [r \in Reader |-> Disturbed]
    BY DEF Init
  <1>2. slots \in [Dir -> [1 .. Slots -> Entry]] /\ \A d \in Dir : Tidy(slots[d])
    BY <1>1, ListingAssumption
  <1>3. TypeOK
    <2>1. /\ state \in [Reader -> {"closed", "open", "scan", "ended"}] /\ ahead \in [Handle -> Entry]
      BY <1>1 DEF Entry
    <2>2. scan \in [Reader -> ScanType] /\ record \in [Reader -> RecordType]
      BY <1>1, RecordsTyped
    <2> QED BY <1>1, <1>2, <2>1, <2>2, Numbers DEF TypeOK, ScanType, RecordType
  <1>4. ASSUME NEW r \in Reader PROVE ReaderOK(r)
    <2>1. state[r] = "closed" /\ scan[r] = NoScan /\ record[r] = Disturbed /\ (r \in Handle => ahead[r] = Hole)
      BY <1>1
    <2>2. ScanTyped(r)
      <3>1. scan[r].index = 0 /\ scan[r].sector = 1
        BY <2>1, RecordsTyped
      <3> QED BY <2>1, <3>1, Numbers DEF ScanTyped
    <2>3. RecordOK(r)
      BY <2>1, RecordsTyped DEF RecordOK
    <2>4. UndisturbedOK(r)
      BY <2>1 DEF UndisturbedOK, Listing
    <2> QED BY <2>2, <2>3, <2>4 DEF ReaderOK
  <1> QED BY <1>2, <1>3, <1>4 DEF ListingInv

LEMMA ListingStep == ListingInv /\ [Next]_vars => ListingInv'
  <1> SUFFICES ASSUME ListingInv, [Next]_vars PROVE ListingInv'
    OBVIOUS
  <1>1. ASSUME NEW r \in Reader, NEW d \in Dir, GetFirst(r, d) \/ Dopen(r, d) PROVE ListingInv'
    <2>1. CASE GetFirst(r, d)
      BY <2>1, FirstDirentryOK, Numbers DEF GetFirst
    <2>2. CASE Dopen(r, d)
      <3>1. ahead[r] = Hole
        BY <2>2 DEF ListingInv, ReaderOK, RecordOK, Dopen
      <3> QED BY <2>2, <3>1, FirstDirentryOK DEF Dopen
    <2> QED BY <1>1, <2>1, <2>2
  <1>2. ASSUME NEW r \in Reader, GetNext(r) PROVE ListingInv'
    <2>1. r \notin Handle /\ state[r] = "open" /\ BeginNext(r) /\ record' = record /\ ahead' = ahead
      BY <1>2, Numbers DEF GetNext
    <2> QED BY <2>1, BeginNextOK
  <1>3. ASSUME NEW r \in Reader, Dread(r) PROVE ListingInv'
    BY <1>3, BeginNextOK DEF Dread
  <1>4. ASSUME NEW r \in Reader, ReadSector(r) PROVE ListingInv'
    <2>1. PICK b \in SectorRead(r) : Found(r, b) \/ Exhausted(r, b) \/ GoOn(r, b)
      BY <1>4 DEF ReadSector
    <2>2. state[r] = "scan" /\ slots' = slots /\ cbuf' = cbuf
      BY <1>4 DEF ReadSector
    <2> QED BY <2>1, <2>2, FoundOK, ExhaustedOK, GoOnOK
  <1>5. ASSUME NEW r \in Reader, Dclose(r) PROVE ListingInv'
    BY <1>5, DcloseOK
  <1>6. ASSUME NEW c \in Changing, Store(c[1], c[2]) \/ Remove(c[1], c[2]) PROVE ListingInv'
    <2>1. c[1] \in Dir /\ c[2] \in Name
      BY ListingAssumption
    <2> QED BY <1>6, <2>1, StoreOK, RemoveOK
  <1>7. CASE UNCHANGED vars
    <2>1. /\ slots' = slots /\ state' = state /\ scan' = scan /\ ahead' = ahead /\ record' = record
          /\ cursorDir' = cursorDir /\ cursorIndex' = cursorIndex /\ cbuf' = cbuf
      BY <1>7 DEF vars, cursorVars
    <2>2. TypeOK'
      BY <2>1 DEF ListingInv, TypeOK
    <2>3. ASSUME NEW q \in Reader PROVE ReaderOK(q)'
      BY <2>1, OtherOK
    <2> QED BY <2>1, <2>2, <2>3 DEF ListingInv, Tidy
  <1> QED BY <1>1, <1>2, <1>3, <1>4, <1>5, <1>6, <1>7, UseFileOK, MountOK
          DEF Next, Start, GoOnListing, Others

(* The cursor, the scans and the records of the readers agree with the     *)
(* directories: the cursor has the number of the last entry that an        *)
(* undisturbed listing found, and its scan has passed over nothing but     *)
(* that and holes (fat_getNextDirentry).                                   *)
THEOREM ListingInvariant == Spec => []ListingInv
  <1>1. Init => ListingInv
    BY ListingInit
  <1>2. ListingInv /\ [Next]_vars => ListingInv'
    BY ListingStep
  <1> QED BY <1>1, <1>2, PTL DEF Spec

(* The cursor stays within the slots of a directory, and every reader's    *)
(* scan within its sectors, also when the chain it follows is not that of  *)
(* the directory any more.                                                 *)
THEOREM ListingTypeOK == Spec => []TypeOK
  <1>1. ListingInv => TypeOK
    BY DEF ListingInv
  <1> QED BY <1>1, ListingInvariant, PTL

(* A listing that nobody disturbed gives no name twice, while entries      *)
(* behind it come and go; at its end it has given every name that was      *)
(* there all the time.                                                     *)
THEOREM ListingsAreExact == Spec => []ListedExactly
  <1>1. ListingInv => ListedExactly
    BY DEF ListingInv, ReaderOK, RecordOK, ListedExactly, GivenIn
  <1> QED BY <1>1, ListingInvariant, PTL
=================================================================================
