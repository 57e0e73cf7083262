--------------------------- MODULE SectorCacheProofs ---------------------------
(***************************************************************************)
(* Proofs about SectorCache, for every size of the cache, of the blocks    *)
(* and of the device.  Typing and HeldIsCached hold whatever transfers     *)
(* fail and whether or not the caller allocates sectors.  What the slots   *)
(* hold is in the second part: the cache implements the store of           *)
(* BlockStore, a clean slot holds what the device holds, and a bounded     *)
(* number of sectors waits to be written.                                  *)
(***************************************************************************)
EXTENDS SectorCache, TLAPS, FiniteSetTheorems

Records == [Slot -> CacheRecord]
Device  == [Sector -> Content]
Buffer  == [Slot -> [Offset -> Content]]

-----------------------------------------------------------------------------
(* Blocks                                                                   *)

(* Division: a sector is the first sector of its block plus its offset.    *)
LEMMA DivMod ==
  \A s \in Nat : /\ s \div IndexLimit \in Nat
                 /\ s % IndexLimit \in 0 .. IndexLimit - 1
                 /\ s = IndexLimit * (s \div IndexLimit) + (s % IndexLimit)
  BY SizesAssumption, SMTT(30)

LEMMA Commute == \A a, b \in Nat : a * b = b * a /\ a * b \in Nat
  BY SMT

(* The block of a sector starts at a sector of the device and holds it, at *)
(* the offset that the miss path computes.                                 *)
LEMMA AlignedBlock ==
  \A s \in Sector : /\ Aligned(s) \in Sector
                    /\ Aligned(s) <= s /\ s < Aligned(s) + IndexLimit
                    /\ s - Aligned(s) = s % IndexLimit
                    /\ s % IndexLimit \in Offset
  BY SizesAssumption, DivMod, Commute, SMT DEF Sector, Aligned, Offset

(* Multiples of IndexLimit are at least IndexLimit apart.                  *)
LEMMA BlocksApart ==
  \A p, q \in Nat : p < q => p * IndexLimit + IndexLimit <= q * IndexLimit
  BY SizesAssumption, SMTT(30)

(* The block of a sector lies within the device, below the unused label.   *)
LEMMA BlockInDevice ==
  \A s \in Sector : \A o \in Offset : Aligned(s) + o \in Sector
  <1> SUFFICES ASSUME NEW s \in Sector, NEW o \in Offset
               PROVE  Aligned(s) + o \in Sector
    OBVIOUS
  <1> DEFINE p == s \div IndexLimit
             q == NumSectors \div IndexLimit
  <1>1. s \in Nat /\ NumSectors \in Nat /\ IndexLimit \in Nat /\ s < NumSectors
    BY SizesAssumption DEF Sector
  <1>2. p \in Nat /\ q \in Nat /\ NumSectors = q * IndexLimit /\ p * IndexLimit <= s
    BY <1>1, DivMod, Commute, SizesAssumption
  <1>3. p < q
    <2>1. CASE q <= p
      <3>1. q * IndexLimit <= p * IndexLimit
        BY <1>1, <1>2, <2>1, BlocksApart, SMT
      <3> QED BY <3>1, <1>1, <1>2, SMT
    <2> QED BY <2>1, <1>2, SMT
  <1>4. p * IndexLimit + IndexLimit <= NumSectors
    BY <1>2, <1>3, BlocksApart
  <1> QED BY <1>1, <1>2, <1>4, SMT DEF Aligned, Offset, Sector

(* A label whose range holds a sector is the first sector of its block: no *)
(* two labels overlap.                                                     *)
LEMMA LabelOfSector ==
  \A s \in Sector, l \in Label : l <= s /\ s < l + IndexLimit => l = Aligned(s)
  <1> SUFFICES ASSUME NEW s \in Sector, NEW l \in Label, l <= s, s < l + IndexLimit
               PROVE  l = Aligned(s)
    OBVIOUS
  <1>1. l # Unused
    BY SizesAssumption DEF Unused, Sector
  <1>2. PICK t \in Sector : l = Aligned(t)
    BY <1>1 DEF Label
  <1> DEFINE p == s \div IndexLimit
             q == t \div IndexLimit
  <1>3. p \in Nat /\ q \in Nat /\ IndexLimit \in Nat /\ s \in Nat
    BY DivMod, SizesAssumption DEF Sector
  <1>4. p * IndexLimit <= s /\ s < p * IndexLimit + IndexLimit
    BY AlignedBlock DEF Aligned
  <1>5. l = q * IndexLimit
    BY <1>2 DEF Aligned
  <1>6. ~ (p < q) /\ ~ (q < p)
    <2>1. p * IndexLimit \in Nat /\ q * IndexLimit \in Nat
      BY <1>3, Commute
    <2> QED BY <1>3, <1>4, <1>5, <2>1, BlocksApart, SMT
  <1> QED BY <1>3, <1>5, <1>6, SMT DEF Aligned
-----------------------------------------------------------------------------
(* The steps the operations are made of                                     *)

(* Ageing touches only tax.                                                *)
LEMMA TaxedRecords ==
  ASSUME TypeOK, NEW s \in Sector
  PROVE  /\ Taxed(s) \in Records
         /\ \A i \in Slot : /\ Taxed(s)[i].sector = rec[i].sector
                            /\ Taxed(s)[i].writeDirty = rec[i].writeDirty
  BY DEF TypeOK, Taxed, Records, CacheRecord

(* Reusing slot v labels it with the block of s and marks it clean.        *)
LEMMA RelabelledRecords ==
  ASSUME NEW r \in Records, NEW v \in Slot, NEW s \in Sector
  PROVE  /\ Relabelled(r, v, s) \in Records
         /\ Relabelled(r, v, s)[v].sector = Aligned(s)
         /\ Relabelled(r, v, s)[v].writeDirty = 0
         /\ \A i \in Slot \ {v} : Relabelled(r, v, s)[i] = r[i]
  <1>1. Aligned(s) \in Label
    BY DEF Label
  <1>2. 0 \in 0 .. CharMod - 1
    BY SizesAssumption
  <1> QED BY <1>1, <1>2 DEF Relabelled, Records, CacheRecord

(* Writing slots to a device leaves a device.                              *)
LEMMA WrittenDevice ==
  ASSUME NEW r \in Records, NEW S \in SUBSET Slot, NEW d \in Device, TypeOK
  PROVE  Written(r, S, d) \in Device
  <1>1. ASSUME NEW s \in Sector, NEW i \in Hits(r, s)
        PROVE  sectorBuf[i][s - r[i].sector] \in Content
    <2>1. i \in Slot /\ r[i] \in CacheRecord
      BY DEF Hits, Records
    <2>2. r[i].sector \in Int
      BY <2>1, AlignedBlock, SizesAssumption DEF CacheRecord, Label, Unused, Sector
    <2>3. s - r[i].sector \in Offset
      BY <2>2, SizesAssumption DEF Hits, Offset, Sector
    <2> QED BY <2>1, <2>3 DEF TypeOK
  <1>2. ASSUME NEW s \in Sector
        PROVE  Written(r, S, d)[s] \in Content
    <2>1. CASE Hits(r, s) \intersect S = {}
      BY <2>1 DEF Written, Device
    <2>2. CASE Hits(r, s) \intersect S # {}
      <3>1. (CHOOSE i \in Hits(r, s) \intersect S : TRUE) \in Hits(r, s)
        BY <2>2
      <3> QED BY <1>1, <2>2, <3>1 DEF Written
    <2> QED BY <2>1, <2>2
  <1> QED BY <1>2 DEF Written, Device

LEMMA EvictedDevice ==
  ASSUME TypeOK, NEW r \in Records, NEW v \in Slot, NEW ok \in BOOLEAN
  PROVE  Evicted(r, v, ok) \in Device
  BY WrittenDevice DEF Evicted, TypeOK, Device

(* A flush changes no label and no dirty count but to zero.                *)
LEMMA FlushStep ==
  ASSUME TypeOK, NEW r \in Records, NEW d \in Device, NEW w \in BOOLEAN, Flush(r, d, w)
  PROVE  /\ rec' \in Records /\ disk' \in Device /\ writeFlag' \in BOOLEAN
         /\ flushCounter' \in 0 .. FlushTrigger - 1
         /\ \A i \in Slot : rec'[i].sector = r[i].sector
         /\ (~ w => Dirty(r) = {}) => (~ writeFlag' => Dirty(rec') = {})
  <1>1. flushCounter' \in 0 .. FlushTrigger - 1
    BY SizesAssumption DEF Flush
  <1>2. CASE ~ w /\ rec' = r /\ disk' = d /\ writeFlag' = w
    BY <1>1, <1>2
  <1>3. ASSUME NEW f \in {CacheSize} \union {i \in Dirty(r) : WriteMayFail},
               rec' = [i \in Slot |-> IF i <= f THEN [r[i] EXCEPT !.writeDirty = 0] ELSE r[i]],
               disk' = Written(r, {i \in Dirty(r) : i < f}, d),
               writeFlag' = (f < CacheSize)
        PROVE  /\ rec' \in Records /\ disk' \in Device /\ writeFlag' \in BOOLEAN
               /\ \A i \in Slot : rec'[i].sector = r[i].sector
               /\ ~ writeFlag' => Dirty(rec') = {}
    <2>1. {i \in Dirty(r) : i < f} \in SUBSET Slot
      BY DEF Dirty
    <2>2. disk' \in Device
      BY <1>3, <2>1, WrittenDevice
    <2>3. 0 \in 0 .. CharMod - 1
      BY SizesAssumption
    <2>4. rec' \in Records /\ \A i \in Slot : rec'[i].sector = r[i].sector
      BY <1>3, <2>3 DEF Records, CacheRecord
    <2>5. ~ writeFlag' => Dirty(rec') = {}
      <3>1. CASE f = CacheSize
        <4>1. \A i \in Slot : rec'[i].writeDirty = 0
          BY <1>3, <2>3, <3>1, SizesAssumption DEF Slot, Records, CacheRecord
        <4> QED BY <4>1 DEF Dirty
      <3>2. CASE f # CacheSize
        <4>1. f < CacheSize
          BY <3>2, SizesAssumption DEF Dirty, Slot
        <4> QED BY <1>3, <4>1, Zenon
      <3> QED BY <3>1, <3>2
    <2> QED BY <1>3, <2>2, <2>4, <2>5
  <1> QED BY <1>1, <1>2, <1>3 DEF Flush

LEMMA CountAccessStep ==
  ASSUME TypeOK, NEW r \in Records, NEW d \in Device, NEW w \in BOOLEAN,
         CountAccess(r, d, w)
  PROVE  /\ rec' \in Records /\ disk' \in Device /\ writeFlag' \in BOOLEAN
         /\ flushCounter' \in 0 .. FlushTrigger - 1
         /\ \A i \in Slot : rec'[i].sector = r[i].sector
         /\ (~ w => Dirty(r) = {}) => (~ writeFlag' => Dirty(rec') = {})
  <1>1. CASE flushCounter + 1 = FlushTrigger /\ Flush(r, d, w)
    BY <1>1, FlushStep
  <1>2. CASE /\ flushCounter + 1 # FlushTrigger
             /\ flushCounter' = flushCounter + 1
             /\ rec' = r /\ disk' = d /\ writeFlag' = w
    BY <1>2, SizesAssumption DEF TypeOK
  <1> QED BY <1>1, <1>2 DEF CountAccess
-----------------------------------------------------------------------------
(* The inductive invariant                                                  *)

UniqueLabels == \A i, j \in Slot :
  rec[i].sector = rec[j].sector /\ rec[i].sector # Unused => i = j

HeldLabel == cur # NoSector => rec[sbuf[1]].sector + sbuf[2] = cur

FilledIsHeld == filled => cur # NoSector

IndInv == TypeOK /\ UniqueLabels /\ HeldLabel /\ FilledIsHeld /\ FlagCoversDirty

LEMMA InitInv == Init => IndInv
  <1> SUFFICES ASSUME Init PROVE IndInv
    OBVIOUS
  <1>1. rec \in [Slot -> CacheRecord]
    BY SizesAssumption DEF Init, InitRecords, CacheRecord, Label
  <1>2. <<0, 0>> \in Slot \X Offset
    BY SizesAssumption DEF Slot, Offset
  <1>3. TypeOK
    <2>1. sectorBuf \in [Slot -> [Offset -> Content]] /\ disk \in [Sector -> Content]
      BY DEF Init, Content
    <2>2. flushCounter \in 0 .. FlushTrigger - 1
      BY SizesAssumption DEF Init
    <2> QED BY <1>1, <1>2, <2>1, <2>2, Zenon DEF Init, TypeOK
  <1>4. UniqueLabels
    BY DEF Init, UniqueLabels, InitRecords
  <1>5. FlagCoversDirty
    BY DEF Init, InitRecords, FlagCoversDirty, Dirty
  <1> QED BY <1>3, <1>4, <1>5 DEF IndInv, HeldLabel, FilledIsHeld, Init

(* A label with the block of a sector that is in no slot is a new label.   *)
LEMMA MissIsNewLabel ==
  ASSUME TypeOK, NEW s \in Sector, Hits(rec, s) = {}
  PROVE  \A i \in Slot : rec[i].sector # Aligned(s)
  BY AlignedBlock DEF Hits

LEMMA ReadHitInv ==
  ASSUME IndInv, NEW s \in Sector, ReadHit(s)
  PROVE  IndInv'
  <1> USE DEF IndInv
  <1>1. PICK v \in Hits(rec, s) : sbuf' = <<v, s - rec[v].sector>>
    BY DEF ReadHit
  <1>2. v \in Slot /\ rec[v].sector \in Int /\ s - rec[v].sector \in Offset
    <2>1. v \in Slot /\ rec[v].sector \in Label
      BY DEF Hits, TypeOK, CacheRecord
    <2>2. rec[v].sector \in Int
      BY <2>1, AlignedBlock, SizesAssumption DEF Label, Unused, Sector
    <2> QED BY <2>1, <2>2, SizesAssumption DEF Hits, Offset, Sector
  <1>3. rec' = Taxed(s) /\ cur' = s
    BY DEF ReadHit
  <1>4. TypeOK'
    BY <1>1, <1>2, <1>3, TaxedRecords DEF TypeOK, ReadHit, Records
  <1>5. UniqueLabels'
    BY <1>3, TaxedRecords DEF UniqueLabels
  <1>6. HeldLabel'
    BY <1>1, <1>2, <1>3, TaxedRecords, SMT DEF HeldLabel, Sector
  <1>7. FilledIsHeld'
    BY <1>3 DEF FilledIsHeld, NoSector, Sector, ReadHit
  <1>8. FlagCoversDirty'
    BY <1>3, TaxedRecords DEF FlagCoversDirty, Dirty, ReadHit
  <1> QED BY <1>4, <1>5, <1>6, <1>7, <1>8

(* What a miss leaves, before and after the count: slot v, and only it,    *)
(* has a new label, the block of s.                                        *)
LEMMA MissLabels ==
  ASSUME TypeOK, UniqueLabels, NEW s \in Sector, Hits(rec, s) = {}, NEW v \in Slot,
         rec' \in Records,
         \A i \in Slot : rec'[i].sector = Relabelled(Taxed(s), v, s)[i].sector
  PROVE  /\ UniqueLabels'
         /\ rec'[v].sector = Aligned(s)
         /\ rec'[v].sector + (s % IndexLimit) = s
  <1>1. /\ rec'[v].sector = Aligned(s)
        /\ \A i \in Slot \ {v} : rec'[i].sector = rec[i].sector
    BY TaxedRecords, RelabelledRecords
  <1>2. UniqueLabels'
    BY <1>1, MissIsNewLabel DEF UniqueLabels
  <1>3. Aligned(s) + (s % IndexLimit) = s
    BY AlignedBlock, SMT DEF Sector, Offset
  <1> QED BY <1>1, <1>2, <1>3

LEMMA MissFlag ==
  ASSUME TypeOK, FlagCoversDirty, NEW s \in Sector, NEW v \in Slot
  PROVE  ~ writeFlag => Dirty(Relabelled(Taxed(s), v, s)) = {}
  BY TaxedRecords, RelabelledRecords DEF FlagCoversDirty, Dirty

LEMMA ReadMissInv ==
  ASSUME IndInv, NEW s \in Sector, ReadMiss(s)
  PROVE  IndInv'
  <1> USE DEF IndInv
  <1>1. PICK v \in Slot, ok \in Outcome(WriteMayFail) :
          LET r == Relabelled(Taxed(s), v, s)
              d == Evicted(Taxed(s), v, ok)
          IN  \/ /\ sectorBuf' = [sectorBuf EXCEPT ![v] = Block(d, Aligned(s))]
                 /\ CountAccess(r, d, writeFlag)
                 /\ sbuf' = <<v, s % IndexLimit>>
                 /\ cur' = s
              \/ /\ ReadMayFail
                 /\ rec' = r /\ disk' = d
                 /\ cur' = NoSector
                 /\ UNCHANGED <<sectorBuf, writeFlag, flushCounter, sbuf>>
    BY DEF ReadMiss
  <1> DEFINE r == Relabelled(Taxed(s), v, s)
             d == Evicted(Taxed(s), v, ok)
  <1>2. Hits(rec, s) = {} /\ ~ filled /\ UNCHANGED <<allocated, filled>>
    BY DEF ReadMiss, Idle
  <1>3. ok \in BOOLEAN
    BY FaultsAssumption DEF Outcome
  <1>4. r \in Records /\ d \in Device
    BY <1>3, TaxedRecords, RelabelledRecords, EvictedDevice
  <1>5. ~ writeFlag => Dirty(r) = {}
    BY MissFlag
  <1> HIDE DEF r, d
  <1>6. CASE /\ sectorBuf' = [sectorBuf EXCEPT ![v] = Block(d, Aligned(s))]
             /\ CountAccess(r, d, writeFlag)
             /\ sbuf' = <<v, s % IndexLimit>>
             /\ cur' = s
    <2>1. /\ rec' \in Records /\ disk' \in Device /\ writeFlag' \in BOOLEAN
          /\ flushCounter' \in 0 .. FlushTrigger - 1
          /\ \A i \in Slot : rec'[i].sector = r[i].sector
          /\ ~ writeFlag' => Dirty(rec') = {}
      BY <1>4, <1>5, <1>6, CountAccessStep DEF TypeOK
    <2>2. Block(d, Aligned(s)) \in [Offset -> Content]
      BY <1>4, BlockInDevice DEF Block, Device
    <2>3. sbuf' \in Slot \X Offset
      BY <1>6, AlignedBlock
    <2>4. TypeOK'
      BY <1>2, <1>6, <2>1, <2>2, <2>3 DEF TypeOK, Records, Device
    <2>5. /\ UniqueLabels'
          /\ rec'[v].sector + (s % IndexLimit) = s
      BY <1>2, <2>1, MissLabels DEF r
    <2>6. HeldLabel'
      BY <1>6, <2>5 DEF HeldLabel
    <2> QED BY <1>2, <2>1, <2>4, <2>5, <2>6 DEF FilledIsHeld, FlagCoversDirty
  <1>7. CASE /\ ReadMayFail
             /\ rec' = r /\ disk' = d
             /\ cur' = NoSector
             /\ UNCHANGED <<sectorBuf, writeFlag, flushCounter, sbuf>>
    <2>1. TypeOK'
      BY <1>2, <1>4, <1>7 DEF TypeOK, Records, Device
    <2>2. UniqueLabels'
      BY <1>2, <1>4, <1>7, MissLabels DEF r
    <2> QED BY <1>2, <1>5, <1>7, <2>1, <2>2 DEF HeldLabel, FilledIsHeld, FlagCoversDirty
  <1> QED BY <1>1, <1>6, <1>7 DEF r, d

LEMMA AllocMissInv ==
  ASSUME IndInv, NEW s \in Sector, AllocMiss(s)
  PROVE  IndInv'
  <1> USE DEF IndInv
  <1>1. PICK v \in Slot, ok \in Outcome(WriteMayFail) :
          /\ rec' = Relabelled(Taxed(s), v, s)
          /\ disk' = Evicted(Taxed(s), v, ok)
          /\ sbuf' = <<v, s % IndexLimit>>
    BY DEF AllocMiss
  <1>2. /\ Hits(rec, s) = {} /\ ~ filled /\ cur' = s
        /\ UNCHANGED <<sectorBuf, allocated, writeFlag, flushCounter, filled>>
    BY DEF AllocMiss, Idle
  <1>3. rec' \in Records /\ disk' \in Device
    BY <1>1, FaultsAssumption, TaxedRecords, RelabelledRecords, EvictedDevice DEF Outcome
  <1>4. sbuf' \in Slot \X Offset
    BY <1>1, AlignedBlock
  <1>5. TypeOK'
    BY <1>2, <1>3, <1>4 DEF TypeOK, Records, Device
  <1>6. /\ UniqueLabels'
        /\ rec'[v].sector + (s % IndexLimit) = s
    BY <1>1, <1>2, <1>3, MissLabels
  <1>7. HeldLabel'
    BY <1>1, <1>2, <1>6 DEF HeldLabel
  <1>8. FlagCoversDirty'
    BY <1>1, <1>2, MissFlag DEF FlagCoversDirty
  <1> QED BY <1>2, <1>5, <1>6, <1>7, <1>8 DEF FilledIsHeld

LEMMA FillInv ==
  ASSUME IndInv, NEW d \in Data, Fill(d)
  PROVE  IndInv'
  <1> USE DEF IndInv
  <1>1. sectorBuf' \in [Slot -> [Offset -> Content]]
    BY DEF Fill, TypeOK, Content
  <1>2. TypeOK'
    BY <1>1 DEF Fill, TypeOK
  <1> QED BY <1>2 DEF Fill, UniqueLabels, HeldLabel, FilledIsHeld, FlagCoversDirty, Dirty

LEMMA WriteSectorInv ==
  ASSUME IndInv, WriteSector
  PROVE  IndInv'
  <1> USE DEF IndInv
  <1>1. PICK v \in Hits(rec, cur) : CountAccess(Marked(v), disk, TRUE)
    BY DEF WriteSector
  <1>2. filled' = FALSE /\ UNCHANGED <<sectorBuf, allocated, cur, sbuf>>
    BY DEF WriteSector
  <1>3. v \in Slot
    BY DEF Hits
  <1>4. \A n \in 0 .. CharMod - 1 : (n + 1) % CharMod \in 0 .. CharMod - 1
    BY SizesAssumption, SMT
  <1>5. Marked(v) \in Records /\ \A i \in Slot : Marked(v)[i].sector = rec[i].sector
    BY <1>3, <1>4 DEF TypeOK, Records, CacheRecord, Marked
  <1>6. /\ rec' \in Records /\ disk' \in Device /\ writeFlag' \in BOOLEAN
        /\ flushCounter' \in 0 .. FlushTrigger - 1
        /\ \A i \in Slot : rec'[i].sector = rec[i].sector
        /\ ~ writeFlag' => Dirty(rec') = {}
    BY <1>1, <1>5, CountAccessStep DEF TypeOK, Device
  <1>7. TypeOK'
    BY <1>2, <1>6 DEF TypeOK, Records, Device
  <1>8. UniqueLabels' /\ HeldLabel'
    BY <1>2, <1>6 DEF UniqueLabels, HeldLabel, TypeOK
  <1> QED BY <1>2, <1>6, <1>7, <1>8 DEF FilledIsHeld, FlagCoversDirty

(* A flush asked for, alone or before the buffer is freed.                 *)
LEMMA FlushInv ==
  ASSUME IndInv, Flush(rec, disk, writeFlag), allocated' \in BOOLEAN,
         UNCHANGED <<sectorBuf, sbuf, filled>>, cur' \in {cur, NoSector}, ~ filled
  PROVE  IndInv'
  <1> USE DEF IndInv
  <1>1. /\ rec' \in Records /\ disk' \in Device /\ writeFlag' \in BOOLEAN
        /\ flushCounter' \in 0 .. FlushTrigger - 1
        /\ \A i \in Slot : rec'[i].sector = rec[i].sector
        /\ ~ writeFlag' => Dirty(rec') = {}
    BY FlushStep DEF TypeOK, Records, Device, FlagCoversDirty
  <1>2. TypeOK'
    BY <1>1 DEF TypeOK, Records, Device
  <1>3. UniqueLabels' /\ HeldLabel'
    BY <1>1 DEF UniqueLabels, HeldLabel, TypeOK
  <1> QED BY <1>1, <1>2, <1>3 DEF FilledIsHeld, FlagCoversDirty

LEMMA CacheInitInv ==
  ASSUME IndInv, CacheInit
  PROVE  IndInv'
  <1> USE DEF IndInv
  <1>1. rec' \in [Slot -> CacheRecord]
    BY SizesAssumption DEF CacheInit, InitRecords, CacheRecord, Label
  <1>2. sectorBuf' \in [Slot -> [Offset -> Content]]
    BY DEF CacheInit, TypeOK, Content
  <1>3. flushCounter' \in 0 .. FlushTrigger - 1
    BY SizesAssumption DEF CacheInit
  <1>4. TypeOK'
    BY <1>1, <1>2, <1>3 DEF CacheInit, TypeOK
  <1>5. UniqueLabels' /\ FlagCoversDirty'
    BY DEF CacheInit, InitRecords, UniqueLabels, FlagCoversDirty, Dirty
  <1> QED BY <1>4, <1>5 DEF CacheInit, HeldLabel, FilledIsHeld
-----------------------------------------------------------------------------
LEMMA NextInv == IndInv /\ [Next]_vars => IndInv'
  <1> SUFFICES ASSUME IndInv, [Next]_vars
               PROVE  IndInv'
    OBVIOUS
  <1>1. ASSUME NEW s \in Sector, ReadHit(s) PROVE IndInv'
    BY <1>1, ReadHitInv
  <1>2. ASSUME NEW s \in Sector, ReadMiss(s) PROVE IndInv'
    BY <1>2, ReadMissInv
  <1>3. ASSUME NEW s \in Sector, AllocMiss(s) PROVE IndInv'
    BY <1>3, AllocMissInv
  <1>4. ASSUME NEW d \in Data, Fill(d) PROVE IndInv'
    BY <1>4, FillInv
  <1>5. CASE WriteSector
    BY <1>5, WriteSectorInv
  <1>6. CASE FlushSectors
    BY <1>6, FlushInv DEF FlushSectors, Idle, callerVars, IndInv, TypeOK
  <1>7. CASE Close
    BY <1>7, FlushInv DEF Close, Idle
  <1>8. CASE CacheInit
    BY <1>8, CacheInitInv
  <1>9. CASE UNCHANGED vars
    BY <1>9 DEF vars, IndInv, TypeOK, UniqueLabels, HeldLabel, FilledIsHeld,
                FlagCoversDirty, Dirty
  <1> QED BY <1>1, <1>2, <1>3, <1>4, <1>5, <1>6, <1>7, <1>8, <1>9 DEF Next

THEOREM IndInvHolds == Spec => []IndInv
  BY InitInv, NextInv, PTL DEF Spec

(* The records, the buffer, the counters and the device keep their types;  *)
(* flushCounter stays below FLUSH_TRIGGER, so the == test that triggers    *)
(* the flush (scache.c:243, 299) never steps over it.                      *)
THEOREM TypeCorrect == Spec => []TypeOK
  BY IndInvHolds, PTL DEF IndInv

LEMMA OneSlot == IndInv => OneSlotPerSector
  <1> SUFFICES ASSUME IndInv, NEW s \in Sector, NEW i \in Hits(rec, s), NEW j \in Hits(rec, s)
               PROVE  i = j
    BY DEF OneSlotPerSector
  <1>1. i \in Slot /\ j \in Slot /\ rec[i].sector \in Label /\ rec[j].sector \in Label
    BY DEF Hits, IndInv, TypeOK, CacheRecord
  <1>2. rec[i].sector = Aligned(s) /\ rec[j].sector = Aligned(s)
    BY <1>1, LabelOfSector DEF Hits
  <1>3. Aligned(s) # Unused
    BY AlignedBlock, SizesAssumption DEF Unused, Sector
  <1> QED BY <1>1, <1>2, <1>3 DEF IndInv, UniqueLabels

(* A sector is in at most one slot, for every size of cache and block.     *)
THEOREM NoDuplicateSectors == Spec => []OneSlotPerSector
  BY IndInvHolds, OneSlot, PTL

LEMMA Held == IndInv => HeldIsCached
  <1> SUFFICES ASSUME IndInv, cur # NoSector
               PROVE  sbuf[1] \in Hits(rec, cur) /\ rec[sbuf[1]].sector + sbuf[2] = cur
    BY DEF HeldIsCached
  <1>1. sbuf[1] \in Slot /\ sbuf[2] \in Offset /\ cur \in Sector
    BY DEF IndInv, TypeOK
  <1>2. rec[sbuf[1]].sector + sbuf[2] = cur
    BY DEF IndInv, HeldLabel
  <1>3. rec[sbuf[1]].sector \in Int
    <2>1. rec[sbuf[1]].sector \in Label
      BY <1>1 DEF IndInv, TypeOK, CacheRecord
    <2> QED BY <2>1, AlignedBlock, SizesAssumption DEF Label, Unused, Sector
  <1> QED BY <1>1, <1>2, <1>3, SizesAssumption DEF Hits, Offset, Sector

(* The sector the caller holds a pointer to stays in its slot until the    *)
(* caller asks for another one, whatever is flushed or fails meanwhile.    *)
THEOREM PointerStaysValid == Spec => []HeldIsCached
  BY IndInvHolds, Held, PTL

(* scache_flushSectors may return at once when writeFlag is 0: there is    *)
(* no dirty slot then, even after transfers that failed.                   *)
THEOREM FlushShortcutSound == Spec => []FlagCoversDirty
  BY IndInvHolds, PTL DEF IndInv
-----------------------------------------------------------------------------
(* The conditions under which the cache keeps contents: transfers succeed  *)
(* (those of mass_stor.c never report an error), and sectors are read, not *)
(* allocated.                                                              *)
NoFaults == ~ ReadMayFail /\ ~ WriteMayFail /\ ~ UsesAlloc

(* No two slots have one label.                                            *)
Distinct(r) == \A i, j \in Slot : r[i].sector = r[j].sector /\ r[i].sector # Unused => i = j

LEMMA HitFacts ==
  ASSUME NEW r \in Records, NEW s \in Sector, NEW i \in Hits(r, s)
  PROVE  /\ i \in Slot
         /\ r[i].sector = Aligned(s) /\ r[i].sector \in Sector /\ r[i].sector # Unused
         /\ s - r[i].sector \in Offset
  <1>1. i \in Slot /\ r[i].sector \in Label /\ r[i].sector <= s /\ s < r[i].sector + IndexLimit
    BY DEF Hits, Records, CacheRecord
  <1>2. r[i].sector = Aligned(s)
    BY <1>1, LabelOfSector
  <1> QED BY <1>1, <1>2, AlignedBlock, SizesAssumption DEF Unused, Sector

(* A slot holds a sector exactly if it is labelled with its block.         *)
LEMMA HitIsLabel ==
  ASSUME NEW r \in Records, NEW s \in Sector, NEW i \in Slot
  PROVE  i \in Hits(r, s) <=> r[i].sector = Aligned(s)
  <1>1. i \in Hits(r, s) => r[i].sector = Aligned(s)
    BY HitFacts
  <1>2. r[i].sector = Aligned(s) => i \in Hits(r, s)
    BY AlignedBlock DEF Hits
  <1> QED BY <1>1, <1>2

LEMMA OneHit ==
  ASSUME NEW r \in Records, Distinct(r), NEW s \in Sector, NEW i \in Hits(r, s)
  PROVE  Hits(r, s) = {i}
  <1>1. ASSUME NEW j \in Hits(r, s) PROVE j = i
    BY HitFacts DEF Distinct
  <1> QED BY <1>1

(* What writing slots to a device does to a sector.                        *)
LEMMA WrittenHit ==
  ASSUME NEW r \in Records, Distinct(r), NEW S \in SUBSET Slot, NEW d \in Device,
         NEW s \in Sector,
         NEW i \in Hits(r, s)
  PROVE  /\ i \in S => Written(r, S, d)[s] = sectorBuf[i][s - r[i].sector]
         /\ i \notin S => Written(r, S, d)[s] = d[s]
  <1>1. Hits(r, s) = {i}
    BY OneHit
  <1>2. CASE i \in S
    <2>1. Hits(r, s) \intersect S = {i}
      BY <1>1, <1>2
    <2>2. (CHOOSE j \in Hits(r, s) \intersect S : TRUE) = i
      BY <2>1
    <2> QED BY <1>2, <2>1, <2>2 DEF Written
  <1>3. CASE i \notin S
    BY <1>1, <1>3 DEF Written
  <1> QED BY <1>2, <1>3

LEMMA WrittenMiss ==
  ASSUME NEW r \in Records, NEW S \in SUBSET Slot, NEW d \in Device, NEW s \in Sector,
         Hits(r, s) \intersect S = {}
  PROVE  Written(r, S, d)[s] = d[s]
  BY DEF Written

LEMMA SameLabels ==
  ASSUME NEW r, NEW q, \A i \in Slot : r[i].sector = q[i].sector
  PROVE  \A s \in Sector : Hits(r, s) = Hits(q, s)
  BY DEF Hits

(* What the caller sees of a sector.                                       *)
LEMMA ViewHit ==
  ASSUME TypeOK, UniqueLabels, NEW s \in Sector, NEW i \in Hits(rec, s)
  PROVE  View(s) = sectorBuf[i][s - rec[i].sector]
  <1>1. Hits(rec, s) = {i}
    BY OneHit DEF TypeOK, Records, UniqueLabels, Distinct
  <1> QED BY <1>1 DEF View
-----------------------------------------------------------------------------
(* CleanMatchesDisk, said of sectors.                                      *)
CleanSectors ==
  \A s \in Sector : \A i \in Hits(rec, s) :
    i \notin Dirty(rec) /\ ~ BeingFilled(i) => sectorBuf[i][s - rec[i].sector] = disk[s]

LEMMA CleanSame == TypeOK => (CleanSectors <=> CleanMatchesDisk)
  <1> SUFFICES ASSUME TypeOK PROVE CleanSectors <=> CleanMatchesDisk
    OBVIOUS
  <1>1. ASSUME CleanSectors, NEW i \in Slot, rec[i].sector # Unused, i \notin Dirty(rec),
               ~ BeingFilled(i)
        PROVE  sectorBuf[i] = Block(disk, rec[i].sector)
    <2>1. sectorBuf[i] \in [Offset -> Content]
      BY DEF TypeOK
    <2>2. PICK t \in Sector : rec[i].sector = Aligned(t)
      BY <1>1 DEF TypeOK, CacheRecord, Label
    <2>3. ASSUME NEW o \in Offset
          PROVE  sectorBuf[i][o] = disk[rec[i].sector + o]
      <3> DEFINE l == rec[i].sector
      <3>1. l \in Sector /\ l + o \in Sector
        BY <2>2, AlignedBlock, BlockInDevice
      <3>2. i \in Hits(rec, l + o) /\ (l + o) - l = o
        BY <3>1, SizesAssumption DEF Hits, Offset, Sector
      <3> QED BY <1>1, <3>1, <3>2 DEF CleanSectors
    <2> QED BY <2>1, <2>3 DEF Block
  <1>2. ASSUME CleanMatchesDisk, NEW s \in Sector, NEW i \in Hits(rec, s), i \notin Dirty(rec),
               ~ BeingFilled(i)
        PROVE  sectorBuf[i][s - rec[i].sector] = disk[s]
    <2>1. /\ i \in Slot /\ rec[i].sector # Unused
          /\ rec[i].sector \in Sector /\ s - rec[i].sector \in Offset
      BY HitFacts DEF TypeOK, Records
    <2>2. sectorBuf[i] = Block(disk, rec[i].sector)
      BY <1>2, <2>1 DEF CleanMatchesDisk
    <2>3. rec[i].sector + (s - rec[i].sector) = s
      BY <2>1 DEF Sector
    <2> QED BY <2>1, <2>2, <2>3 DEF Block
  <1> QED BY <1>1, <1>2 DEF CleanSectors, CleanMatchesDisk

(* Sectors that the device does not hold, but the one the caller fills.    *)
Waiting == Unwritten \ {s \in Sector : filled /\ s = cur}

ContentInv ==
  /\ IndInv
  /\ CleanSectors
  /\ DirtyCountBounded
  /\ Cardinality(Waiting) <= flushCounter

LEMMA SectorsFinite == IsFiniteSet(Sector)
  BY FS_Interval, SizesAssumption DEF Sector

LEMMA WaitingFinite == IsFiniteSet(Waiting) /\ Cardinality(Waiting) \in Nat
  <1>1. Waiting \in SUBSET Sector
    BY DEF Waiting, Unwritten
  <1> QED BY <1>1, SectorsFinite, FS_Subset, FS_CardinalityType

(* Where every slot is clean the device holds what the caller sees.        *)
LEMMA AllClean ==
  TypeOK /\ UniqueLabels /\ CleanSectors /\ Dirty(rec) = {} /\ ~ filled => Unwritten = {}
  <1> SUFFICES ASSUME TypeOK, UniqueLabels, CleanSectors, Dirty(rec) = {}, ~ filled,
                      NEW s \in Sector
               PROVE  View(s) = disk[s]
    BY DEF Unwritten
  <1>1. CASE Hits(rec, s) = {}
    BY <1>1 DEF View
  <1>2. ASSUME NEW i \in Hits(rec, s) PROVE View(s) = disk[s]
    BY <1>2, ViewHit DEF CleanSectors, BeingFilled
  <1> QED BY <1>1, <1>2
-----------------------------------------------------------------------------
(* The steps the operations are made of                                    *)

(* Slots S, labelled by r, reach device d and are clean.                   *)
Writes(r, S, d) ==
  /\ rec' \in Records
  /\ \A i \in Slot : /\ rec'[i].sector = r[i].sector
                     /\ rec'[i].writeDirty = IF i \in S THEN 0 ELSE r[i].writeDirty
  /\ disk' = Written(r, S, d)

LEMMA WrittenNone ==
  ASSUME NEW r, NEW d \in Device
  PROVE  Written(r, {}, d) = d
  BY DEF Written, Device

(* A flush writes all that is dirty.                                       *)
LEMMA FlushWrites ==
  ASSUME NoFaults, TypeOK, NEW r \in Records, NEW d \in Device, NEW w \in BOOLEAN,
         Flush(r, d, w), ~ w => Dirty(r) = {}
  PROVE  Writes(r, Dirty(r), d) /\ flushCounter' = 0
  <1>1. CASE ~ w /\ rec' = r /\ disk' = d
    <2>1. Dirty(r) = {}
      BY <1>1
    <2> QED BY <1>1, <2>1, WrittenNone DEF Writes, Flush
  <1>2. ASSUME NEW f \in {CacheSize} \union {i \in Dirty(r) : WriteMayFail},
               rec' = [i \in Slot |-> IF i <= f THEN [r[i] EXCEPT !.writeDirty = 0] ELSE r[i]],
               disk' = Written(r, {i \in Dirty(r) : i < f}, d)
        PROVE  Writes(r, Dirty(r), d)
    <2>1. f = CacheSize
      BY DEF NoFaults
    <2>2. {i \in Dirty(r) : i < f} = Dirty(r)
      BY <2>1, SizesAssumption DEF Dirty, Slot
    <2>3. rec' = [i \in Slot |-> [r[i] EXCEPT !.writeDirty = 0]]
      BY <1>2, <2>1, SizesAssumption DEF Slot
    <2>4. 0 \in 0 .. CharMod - 1
      BY SizesAssumption
    <2>5. \A i \in Slot : rec'[i].sector = r[i].sector /\ rec'[i].writeDirty = 0
      BY <2>3 DEF Records, CacheRecord
    <2>6. rec' \in Records
      BY <2>3, <2>4 DEF Records, CacheRecord
    <2>7. \A i \in Slot : i \notin Dirty(r) => r[i].writeDirty = 0
      BY DEF Dirty
    <2> QED BY <1>2, <2>2, <2>5, <2>6, <2>7 DEF Writes
  <1> QED BY <1>1, <1>2 DEF Flush

(* The write precaution counts the access, or writes all that is dirty.    *)
LEMMA CountWrites ==
  ASSUME NoFaults, TypeOK, NEW r \in Records, NEW d \in Device, NEW w \in BOOLEAN,
         CountAccess(r, d, w), ~ w => Dirty(r) = {}
  PROVE  \/ Writes(r, Dirty(r), d) /\ flushCounter' = 0
         \/ Writes(r, {}, d) /\ flushCounter' = flushCounter + 1
  <1>1. CASE Flush(r, d, w)
    BY <1>1, FlushWrites
  <1>2. CASE flushCounter' = flushCounter + 1 /\ rec' = r /\ disk' = d
    BY <1>2, WrittenNone DEF Writes
  <1> QED BY <1>1, <1>2 DEF CountAccess

(* What the cache does on its own: the caller sees what it saw, and the    *)
(* device keeps a sector or gets what the caller sees.                     *)
Transparent ==
  \A s \in Sector : View(s)' = View(s) /\ disk'[s] \in {disk[s], View(s)}

LEMMA UnwrittenShrinks ==
  ASSUME Transparent
  PROVE  Unwritten' \subseteq Unwritten
  BY DEF Transparent, Unwritten

(* Whatever is not on the device lies in a dirty slot, or in the one the   *)
(* caller fills.                                                           *)
LEMMA UnwrittenIsDirty ==
  ASSUME TypeOK, UniqueLabels, CleanSectors, NEW s \in Sector, View(s) # disk[s]
  PROVE  \E i \in Hits(rec, s) : i \in Dirty(rec) \/ BeingFilled(i)
  <1>1. Hits(rec, s) # {}
    BY DEF View
  <1>2. PICK i \in Hits(rec, s) : TRUE
    BY <1>1
  <1>3. View(s) = sectorBuf[i][s - rec[i].sector]
    BY <1>2, ViewHit
  <1> QED BY <1>2, <1>3 DEF CleanSectors

(* Writing slots whose labels and contents stay.                           *)
LEMMA WriteBackStep ==
  ASSUME TypeOK, UniqueLabels, NEW r \in Records, NEW S \in SUBSET Slot,
         \A i \in Slot : r[i].sector = rec[i].sector,
         Writes(r, S, disk), UNCHANGED sectorBuf, TypeOK', UniqueLabels'
  PROVE  /\ Transparent
         /\ \A s \in Sector : \A i \in Hits(rec, s) :
              i \in S => disk'[s] = View(s)
  <1>1. Distinct(r)
    BY DEF UniqueLabels, Distinct
  <1>2. \A s \in Sector : Hits(r, s) = Hits(rec, s) /\ Hits(rec', s) = Hits(rec, s)
    BY SameLabels DEF Writes
  <1>3. \A s \in Sector : \A i \in Hits(rec, s) : i \in Slot /\ rec'[i].sector = rec[i].sector
                                                            /\ r[i].sector = rec[i].sector
    BY DEF Writes, Hits
  <1>4. ASSUME NEW s \in Sector, Hits(rec, s) = {}
        PROVE  View(s)' = View(s) /\ disk'[s] = disk[s]
    BY <1>2, <1>4, WrittenMiss DEF Writes, View, TypeOK, Device
  <1>5. ASSUME NEW s \in Sector, NEW i \in Hits(rec, s)
        PROVE  View(s)' = View(s) /\ disk'[s] = IF i \in S THEN View(s) ELSE disk[s]
    <2>1. View(s) = sectorBuf[i][s - rec[i].sector]
      BY <1>5, ViewHit
    <2>2. Hits(rec', s) = {i}
      BY <1>2, <1>5, OneHit DEF TypeOK, Records, UniqueLabels, Distinct
    <2>3. View(s)' = sectorBuf'[i][s - rec'[i].sector]
      BY <2>2 DEF View
    <2>4. disk'[s] = IF i \in S THEN sectorBuf[i][s - r[i].sector] ELSE disk[s]
      <3>1. i \in Hits(r, s)
        BY <1>2, <1>5
      <3>2. /\ disk \in Device
            /\ i \in S => Written(r, S, disk)[s] = sectorBuf[i][s - r[i].sector]
            /\ i \notin S => Written(r, S, disk)[s] = disk[s]
        <4>1. disk \in Device
          BY DEF TypeOK, Device
        <4> QED BY <1>1, <3>1, <4>1, WrittenHit, Zenon
      <3>3. disk' = Written(r, S, disk)
        BY DEF Writes
      <3> QED BY <3>2, <3>3
    <2> QED BY <1>3, <1>5, <2>1, <2>3, <2>4
  <1> QED BY <1>4, <1>5 DEF Transparent
-----------------------------------------------------------------------------
(* The invariant                                                           *)

LEMMA InitContents == Init => ContentInv
  <1> SUFFICES ASSUME Init PROVE ContentInv
    OBVIOUS
  <1>1. IndInv
    BY InitInv
  <1>2. \A s \in Sector : Hits(rec, s) = {}
    BY <1>1, HitFacts DEF Init, InitRecords, IndInv, TypeOK, Records
  <1>3. CleanSectors
    BY <1>2 DEF CleanSectors
  <1>4. DirtyCountBounded
    BY DEF Init, InitRecords, DirtyCountBounded
  <1>5. Waiting = {}
    BY <1>2 DEF Waiting, Unwritten, View
  <1> QED BY <1>1, <1>3, <1>4, <1>5, FS_EmptySet DEF ContentInv, Init

(* A step that writes some of the dirty slots keeps the others dirty, so   *)
(* whatever is not on the device still lies in a dirty slot.               *)
LEMMA StaysClean ==
  ASSUME Transparent, TypeOK', UniqueLabels', ~ filled',
         \A s \in Sector : View(s) # disk[s] =>
           disk'[s] = View(s) \/ \A i \in Hits(rec', s) : i \in Dirty(rec')
  PROVE  CleanSectors'
  <1> SUFFICES ASSUME NEW s \in Sector, NEW i \in Hits(rec', s), i \notin Dirty(rec')
               PROVE  sectorBuf'[i][s - rec'[i].sector] = disk'[s]
    BY DEF CleanSectors, BeingFilled
  <1>1. Hits(rec', s) = {i}
    BY OneHit DEF TypeOK, Records, UniqueLabels, Distinct
  <1>2. View(s)' = sectorBuf'[i][s - rec'[i].sector]
    BY <1>1 DEF View
  <1>3. disk'[s] = View(s)
    BY DEF Transparent
  <1> QED BY <1>2, <1>3 DEF Transparent

LEMMA ReadHitStep ==
  ASSUME ContentInv, NEW t \in Sector, ReadHit(t)
  PROVE  ContentInv' /\ Transparent /\ Waiting' = Waiting
  <1> USE DEF ContentInv, IndInv
  <1>1. IndInv'
    BY ReadHitInv
  <1>2. /\ rec' = Taxed(t) /\ ~ filled /\ ~ filled'
        /\ UNCHANGED <<sectorBuf, flushCounter, disk>>
    BY DEF ReadHit, Idle
  <1>3. \A i \in Slot : rec'[i].sector = rec[i].sector /\ rec'[i].writeDirty = rec[i].writeDirty
    BY <1>2, TaxedRecords
  <1>4. Dirty(rec') = Dirty(rec) /\ \A s \in Sector : Hits(rec', s) = Hits(rec, s)
    BY <1>3, SameLabels DEF Dirty
  <1>5. Transparent
    <2>1. ASSUME NEW s \in Sector PROVE View(s)' = View(s)
      <3>1. CASE Hits(rec, s) = {}
        BY <1>2, <1>4, <3>1 DEF View
      <3>2. ASSUME NEW i \in Hits(rec, s) PROVE View(s)' = View(s)
        <4>1. Hits(rec, s) = {i} /\ i \in Slot
          BY <3>2, OneHit DEF TypeOK, Records, UniqueLabels, Distinct, Hits
        <4> QED BY <1>2, <1>3, <1>4, <4>1 DEF View
      <3> QED BY <3>1, <3>2
    <2> QED BY <1>2, <2>1 DEF Transparent
  <1>6. CleanSectors'
    BY <1>2, <1>3, <1>4 DEF CleanSectors, BeingFilled, Hits
  <1>7. DirtyCountBounded'
    BY <1>2, <1>3 DEF DirtyCountBounded
  <1>8. Waiting' = Waiting
    BY <1>2, <1>5 DEF Waiting, Unwritten, Transparent
  <1> QED BY <1>1, <1>2, <1>5, <1>6, <1>7, <1>8

(* The victim of a miss is written back if it is dirty.                    *)
LEMMA EvictStep ==
  ASSUME TypeOK, UniqueLabels, NEW t \in Sector, NEW v \in Slot
  PROVE  /\ \A s \in Sector : \A i \in Hits(rec, s) :
              Evicted(Taxed(t), v, TRUE)[s] =
                IF i = v /\ i \in Dirty(rec) THEN View(s) ELSE disk[s]
         /\ \A s \in Sector : Hits(rec, s) = {} => Evicted(Taxed(t), v, TRUE)[s] = disk[s]
  <1>1. rec \in Records /\ disk \in Device
    BY DEF TypeOK, Records, Device
  <1>2. ASSUME NEW s \in Sector, NEW i \in Hits(rec, s)
        PROVE  Evicted(Taxed(t), v, TRUE)[s] = IF i = v /\ i \in Dirty(rec) THEN View(s) ELSE disk[s]
    <2> DEFINE aged == Taxed(t)
    <2>1. aged \in Records /\ \A j \in Slot : /\ aged[j].sector = rec[j].sector
                                              /\ aged[j].writeDirty = rec[j].writeDirty
      BY TaxedRecords
    <2> HIDE DEF aged
    <2>2. Distinct(aged) /\ Dirty(aged) = Dirty(rec) /\ Hits(aged, s) = Hits(rec, s)
      BY <2>1, SameLabels DEF Distinct, UniqueLabels, Dirty
    <2>3. /\ i = v => Written(aged, {v}, disk)[s] = sectorBuf[i][s - aged[i].sector]
          /\ i # v => Written(aged, {v}, disk)[s] = disk[s]
      <3>1. i \in Hits(aged, s)
        BY <1>2, <2>2
      <3>2. {v} \in SUBSET Slot
        OBVIOUS
      <3>3. /\ i \in {v} => Written(aged, {v}, disk)[s] = sectorBuf[i][s - aged[i].sector]
            /\ i \notin {v} => Written(aged, {v}, disk)[s] = disk[s]
        BY <1>1, <2>1, <2>2, <3>1, <3>2, WrittenHit, Zenon
      <3> QED BY <3>3
    <2>4. i \in Slot
      BY DEF Hits
    <2>5. View(s) = sectorBuf[i][s - aged[i].sector]
      BY <1>2, <2>1, <2>4, ViewHit
    <2>6. Evicted(Taxed(t), v, TRUE) = IF v \in Dirty(rec) THEN Written(aged, {v}, disk) ELSE disk
      BY <2>2 DEF Evicted, aged
    <2> QED BY <2>3, <2>5, <2>6
  <1>3. ASSUME NEW s \in Sector, Hits(rec, s) = {}
        PROVE  Evicted(Taxed(t), v, TRUE)[s] = disk[s]
    <2>1. Hits(Taxed(t), s) = {}
      BY <1>3, TaxedRecords, SameLabels
    <2>2. Taxed(t) \in Records
      BY TaxedRecords
    <2>3. Hits(Taxed(t), s) \intersect {v} = {}
      BY <2>1
    <2>4. Written(Taxed(t), {v}, disk)[s] = disk[s]
      BY <1>1, <2>2, <2>3, WrittenMiss
    <2> QED BY <2>4 DEF Evicted
  <1> QED BY <1>2, <1>3

(* Then the slot is relabelled (r are the labels, d the device) and loaded *)
(* with its new block; the rest may be written, too.                       *)
LEMMA MissStep ==
  ASSUME ContentInv, NEW t \in Sector, Hits(rec, t) = {}, ~ filled, ~ filled',
         NEW v \in Slot, NEW r \in Records, NEW d \in Device, NEW S \in SUBSET Slot,
         r[v].sector = Aligned(t), v \notin S,
         \A i \in Slot \ {v} : /\ r[i].sector = rec[i].sector
                               /\ r[i].writeDirty = rec[i].writeDirty,
         \A s \in Sector : \A i \in Hits(rec, s) :
           d[s] = IF i = v /\ i \in Dirty(rec) THEN View(s) ELSE disk[s],
         \A s \in Sector : Hits(rec, s) = {} => d[s] = disk[s],
         Writes(r, S, d),
         sectorBuf' = [sectorBuf EXCEPT ![v] = Block(d, Aligned(t))],
         IndInv'
  PROVE  Transparent /\ CleanSectors'
  <1> USE DEF ContentInv, IndInv
  <1>1. rec' \in Records /\ \A i \in Slot : rec'[i].sector = r[i].sector
    BY DEF Writes
  <1>2. Distinct(r) /\ Distinct(rec) /\ Distinct(rec')
    BY <1>1 DEF UniqueLabels, Distinct
  <1>3. \A s \in Sector : Hits(rec', s) = Hits(r, s)
    BY <1>1, SameLabels
  <1>4. rec \in Records /\ disk \in Device
    BY DEF TypeOK, Records, Device
  <1>5. ASSUME NEW s \in Sector, NEW i \in Slot \ {v}, i \in Hits(rec, s)
         PROVE  /\ Hits(rec', s) = {i}
                /\ View(s)' = View(s)
                /\ disk'[s] = IF i \in S THEN View(s) ELSE disk[s]
    <2>1. i \in Hits(r, s) /\ r[i].sector = rec[i].sector /\ rec'[i].sector = rec[i].sector
      BY <1>1, <1>5 DEF Hits
    <2>2. Hits(rec', s) = {i}
      BY <1>2, <1>3, <2>1, OneHit
    <2>3. View(s) = sectorBuf[i][s - rec[i].sector]
      BY <1>5, ViewHit
    <2>4. View(s)' = sectorBuf'[i][s - rec'[i].sector]
      BY <2>2 DEF View
    <2>5. sectorBuf'[i] = sectorBuf[i]
      BY DEF TypeOK
    <2>6. /\ i \in S => Written(r, S, d)[s] = sectorBuf[i][s - r[i].sector]
          /\ i \notin S => Written(r, S, d)[s] = d[s]
      BY <1>2, <2>1, WrittenHit, ZenonT(60)
    <2>7. disk'[s] = Written(r, S, d)[s]
      BY DEF Writes
    <2>8. d[s] = disk[s]
      BY <1>5
    <2>9. View(s)' = View(s)
      BY ONLY <2>1, <2>3, <2>4, <2>5
    <2>10. disk'[s] = IF i \in S THEN View(s) ELSE disk[s]
      BY ONLY <2>1, <2>3, <2>6, <2>7, <2>8
    <2> QED BY <2>2, <2>9, <2>10
  <1>6. ASSUME NEW s \in Sector, \A i \in Slot \ {v} : i \notin Hits(rec, s)
         PROVE  /\ View(s)' = View(s)
                /\ disk'[s] = View(s)
    <2>1. \A i \in Slot \ {v} : i \notin Hits(r, s)
      BY <1>4, <1>6, HitIsLabel
    <2>2. Hits(r, s) \intersect S = {}
      BY <2>1 DEF Hits
    <2>3. disk'[s] = d[s]
      BY <2>2, WrittenMiss, Zenon DEF Writes
    <2>4. d[s] = View(s)
      <3>1. CASE Hits(rec, s) = {}
        BY <3>1 DEF View
      <3>2. CASE v \in Hits(rec, s)
        <4>1. d[s] = IF v \in Dirty(rec) THEN View(s) ELSE disk[s]
          BY <3>2
        <4>2. v \notin Dirty(rec) => View(s) = disk[s]
          BY <3>2, ViewHit DEF CleanSectors, BeingFilled
        <4> QED BY <4>1, <4>2
      <3> QED BY <1>6, <3>1, <3>2 DEF Hits
    <2>5. View(s)' = d[s]
      <3>1. CASE Hits(rec', s) = {}
        BY <2>3, <3>1 DEF View
      <3>2. CASE v \in Hits(rec', s)
        <4>1. Hits(rec', s) = {v}
          BY <1>1, <1>2, <3>2, OneHit
        <4>2. View(s)' = sectorBuf'[v][s - rec'[v].sector]
          BY <4>1 DEF View
        <4>3. rec'[v].sector = Aligned(t) /\ s - rec'[v].sector \in Offset
              /\ rec'[v].sector \in Sector
          BY <1>1, <3>2, HitFacts
        <4>4. sectorBuf'[v] = Block(d, Aligned(t))
          BY DEF TypeOK
        <4>5. Aligned(t) + (s - Aligned(t)) = s
          BY <4>3 DEF Sector
        <4> QED BY <4>2, <4>3, <4>4, <4>5 DEF Block
      <3> QED BY <1>3, <2>1, <3>1, <3>2 DEF Hits
    <2> QED BY <2>3, <2>4, <2>5
  <1>7. Transparent
    <2> SUFFICES ASSUME NEW s \in Sector
                 PROVE  View(s)' = View(s) /\ disk'[s] \in {disk[s], View(s)}
      BY DEF Transparent
    <2>1. CASE \E i \in Slot \ {v} : i \in Hits(rec, s)
      BY <1>5, <2>1
    <2>2. CASE \A i \in Slot \ {v} : i \notin Hits(rec, s)
      BY <1>6, <2>2
    <2> QED BY <2>1, <2>2
  <1>8. CleanSectors'
    <2> SUFFICES ASSUME NEW s \in Sector, View(s) # disk[s], disk'[s] # View(s),
                        NEW i \in Hits(rec', s)
                 PROVE  i \in Dirty(rec')
      BY <1>7, StaysClean
    <2>1. PICK j \in Slot \ {v} : j \in Hits(rec, s)
      BY <1>6
    <2>2. i = j /\ j \notin S
      BY <1>5, <2>1
    <2>3. j \in Dirty(rec)
      <3>1. View(s) = sectorBuf[j][s - rec[j].sector]
        BY <2>1, ViewHit
      <3> QED BY <2>1, <3>1 DEF CleanSectors, BeingFilled
    <2> QED BY <2>1, <2>2, <2>3 DEF Dirty, Writes
  <1> QED BY <1>7, <1>8

(* The count of the sectors that wait, after a step of the cache.          *)
LEMMA CountStep ==
  ASSUME ContentInv, IndInv', CleanSectors', NEW r \in Records,
         NEW d \in Device, NEW most \in Nat, most <= flushCounter + 1,
         Unwritten' \subseteq Unwritten, Cardinality(Unwritten) <= most,
         \A i \in Slot : r[i].writeDirty <= most, ~ filled',
         \/ Writes(r, Dirty(r), d) /\ flushCounter' = 0
         \/ Writes(r, {}, d) /\ flushCounter' = flushCounter + 1
  PROVE  ContentInv'
  <1>1. Waiting' = Unwritten'
    BY DEF Waiting
  <1>2. flushCounter \in Nat
    BY DEF ContentInv, IndInv, TypeOK
  <1>3. CASE Writes(r, Dirty(r), d) /\ flushCounter' = 0
    <2>1. \A i \in Slot : rec'[i].writeDirty = 0
      BY <1>3 DEF Writes, Dirty
    <2>2. Dirty(rec') = {}
      BY <2>1 DEF Dirty
    <2>3. Unwritten' = {}
      <3>1. (TypeOK /\ UniqueLabels /\ CleanSectors /\ Dirty(rec) = {} /\ ~ filled
               => Unwritten = {})'
        BY AllClean, PTL
      <3> QED BY <2>2, <3>1 DEF IndInv
    <2> QED BY <1>1, <1>3, <2>1, <2>3, FS_EmptySet DEF ContentInv, DirtyCountBounded
  <1>4. CASE Writes(r, {}, d) /\ flushCounter' = flushCounter + 1
    <2>1. \A i \in Slot : rec'[i].writeDirty <= flushCounter'
      <3>1. \A i \in Slot : rec'[i].writeDirty = r[i].writeDirty
        BY <1>4 DEF Writes
      <3>2. \A i \in Slot : r[i].writeDirty \in Int
        BY DEF Records, CacheRecord
      <3> QED BY <1>2, <1>4, <3>1, <3>2
    <2>2. IsFiniteSet(Unwritten) /\ IsFiniteSet(Unwritten')
      <3>1. Unwritten \in SUBSET Sector
        BY DEF Unwritten
      <3> QED BY <3>1, SectorsFinite, FS_Subset
    <2>3. Cardinality(Unwritten') <= Cardinality(Unwritten)
          /\ Cardinality(Unwritten) \in Nat /\ Cardinality(Unwritten') \in Nat
      BY <2>2, FS_Subset, FS_CardinalityType
    <2>4. Cardinality(Waiting') <= flushCounter'
      BY <1>1, <1>2, <1>4, <2>3
    <2> QED BY <2>1, <2>4 DEF ContentInv, DirtyCountBounded
  <1> QED BY <1>3, <1>4

LEMMA ReadMissStep ==
  ASSUME NoFaults, ContentInv, NEW t \in Sector, ReadMiss(t)
  PROVE  ContentInv' /\ Transparent
  <1> USE DEF ContentInv, IndInv
  <1>1. IndInv'
    BY ReadMissInv
  <1>2. PICK v \in Slot, ok \in Outcome(WriteMayFail) :
          LET r == Relabelled(Taxed(t), v, t)
              d == Evicted(Taxed(t), v, ok)
          IN  \/ /\ sectorBuf' = [sectorBuf EXCEPT ![v] = Block(d, Aligned(t))]
                 /\ CountAccess(r, d, writeFlag)
              \/ ReadMayFail
    BY DEF ReadMiss
  <1> DEFINE r == Relabelled(Taxed(t), v, t)
             d == Evicted(Taxed(t), v, TRUE)
  <1>3. ok = TRUE
    BY DEF Outcome, NoFaults
  <1>4. sectorBuf' = [sectorBuf EXCEPT ![v] = Block(d, Aligned(t))]
        /\ CountAccess(r, d, writeFlag)
    BY <1>2, <1>3 DEF NoFaults
  <1>5. Hits(rec, t) = {} /\ ~ filled /\ ~ filled'
    BY DEF ReadMiss, Idle
  <1>6. r \in Records /\ d \in Device
    BY TaxedRecords, RelabelledRecords, EvictedDevice
  <1>7. ~ writeFlag => Dirty(r) = {}
    BY MissFlag
  <1>8. /\ r[v].sector = Aligned(t) /\ r[v].writeDirty = 0
        /\ \A i \in Slot \ {v} : /\ r[i].sector = rec[i].sector
                                 /\ r[i].writeDirty = rec[i].writeDirty
    BY TaxedRecords, RelabelledRecords
  <1>9. /\ \A s \in Sector : \A i \in Hits(rec, s) :
              d[s] = IF i = v /\ i \in Dirty(rec) THEN View(s) ELSE disk[s]
        /\ \A s \in Sector : Hits(rec, s) = {} => d[s] = disk[s]
    BY EvictStep
  <1> HIDE DEF r, d
  <1>10. writeFlag \in BOOLEAN /\ flushCounter \in Nat
    BY DEF TypeOK
  <1>11. \/ Writes(r, Dirty(r), d) /\ flushCounter' = 0
         \/ Writes(r, {}, d) /\ flushCounter' = flushCounter + 1
    BY <1>4, <1>6, <1>7, <1>10, CountWrites
  <1>12. ASSUME NEW S \in {{}, Dirty(r)}, Writes(r, S, d)
         PROVE  Transparent /\ CleanSectors'
    <2>1. v \notin S /\ S \in SUBSET Slot
      BY <1>8 DEF Dirty
    <2> QED BY <1>1, <1>4, <1>5, <1>6, <1>8, <1>9, <1>12, <2>1, MissStep
  <1>13. Transparent /\ CleanSectors'
    BY <1>11, <1>12
  <1>14. Unwritten' \subseteq Unwritten
    BY <1>13, UnwrittenShrinks
  <1>15. Cardinality(Unwritten) <= flushCounter
    <2>1. Waiting = Unwritten
      BY <1>5 DEF Waiting
    <2> QED BY <2>1
  <1>16. \A i \in Slot : r[i].writeDirty <= flushCounter
    BY <1>8, <1>10 DEF DirtyCountBounded
  <1>17. flushCounter <= flushCounter + 1
    BY <1>10
  <1>18. ContentInv'
    BY <1>1, <1>5, <1>6, <1>10, <1>11, <1>13, <1>14, <1>15, <1>16, <1>17, CountStep
  <1> QED BY <1>13, <1>18

LEMMA WriteSectorStep ==
  ASSUME NoFaults, ContentInv, WriteSector
  PROVE  ContentInv' /\ Transparent
  <1> USE DEF ContentInv, IndInv
  <1>1. IndInv'
    BY WriteSectorInv
  <1>2. PICK v \in Hits(rec, cur) : CountAccess(Marked(v), disk, TRUE)
    BY DEF WriteSector
  <1>3. filled /\ ~ filled' /\ UNCHANGED sectorBuf /\ cur \in Sector
    BY DEF WriteSector, FilledIsHeld, TypeOK
  <1>4. v = sbuf[1] /\ Hits(rec, cur) = {v} /\ v \in Slot
    <2>1. Hits(rec, cur) = {v} /\ v \in Slot
      BY <1>2, <1>3, OneHit, HitFacts DEF TypeOK, Records, UniqueLabels, Distinct
    <2>2. sbuf[1] \in Hits(rec, cur)
      BY Held DEF HeldIsCached, FilledIsHeld, WriteSector
    <2> QED BY <2>1, <2>2
  <1> DEFINE r == Marked(v)
  <1>5. flushCounter \in 0 .. FlushTrigger - 1 /\ disk \in Device
    BY DEF TypeOK, Device
  <1>6. \A n \in 0 .. flushCounter : (n + 1) % CharMod = n + 1 /\ n + 1 \in 0 .. CharMod - 1
    BY <1>5, SizesAssumption, SMT
  <1>7. rec[v].writeDirty \in 0 .. flushCounter
    BY <1>4, <1>5 DEF DirtyCountBounded, TypeOK, CacheRecord
  <1>8. /\ r \in Records
        /\ \A i \in Slot : r[i].sector = rec[i].sector
        /\ r[v].writeDirty = rec[v].writeDirty + 1
        /\ \A i \in Slot \ {v} : r[i].writeDirty = rec[i].writeDirty
    BY <1>4, <1>6, <1>7 DEF Marked, TypeOK, Records, CacheRecord
  <1> HIDE DEF r
  <1>9. \/ Writes(r, Dirty(r), disk) /\ flushCounter' = 0
        \/ Writes(r, {}, disk) /\ flushCounter' = flushCounter + 1
    BY <1>2, <1>5, <1>8, CountWrites DEF r
  <1>10. ASSUME NEW S \in {{}, Dirty(r)}, Writes(r, S, disk)
         PROVE  Transparent /\ CleanSectors'
    <2>1. S \in SUBSET Slot
      BY DEF Dirty
    <2>2. /\ Transparent
          /\ \A s \in Sector : \A i \in Hits(rec, s) : i \in S => disk'[s] = View(s)
      BY <1>1, <1>3, <1>8, <1>10, <2>1, WriteBackStep
    <2>3. ASSUME NEW s \in Sector, View(s) # disk[s], disk'[s] # View(s),
                 NEW i \in Hits(rec', s)
          PROVE  i \in Dirty(rec')
      <3>1. PICK j \in Hits(rec, s) : j \in Dirty(rec) \/ BeingFilled(j)
        BY <2>3, UnwrittenIsDirty
      <3>2. Hits(rec', s) = Hits(rec, s)
        BY <1>8, <1>10, SameLabels DEF Writes
      <3>3. i = j /\ i \in Slot
        BY <2>3, <3>1, <3>2, OneHit, HitFacts DEF TypeOK, Records, UniqueLabels, Distinct
      <3>4. i \in Dirty(r)
        BY <1>4, <1>7, <1>8, <3>1, <3>3 DEF Dirty, BeingFilled
      <3>5. i \notin S
        BY <2>2, <2>3, <3>2
      <3> QED BY <1>10, <3>4, <3>5 DEF Writes, Dirty
    <2>4. CleanSectors'
      BY <1>1, <1>3, <2>2, <2>3, StaysClean
    <2> QED BY <2>2, <2>4
  <1>11. Transparent /\ CleanSectors'
    BY <1>9, <1>10
  <1>12. Unwritten' \subseteq Unwritten
    BY <1>11, UnwrittenShrinks
  <1>13. Cardinality(Unwritten) <= flushCounter + 1
    <2>1. Waiting = Unwritten \ {cur}
      BY <1>3 DEF Waiting, Unwritten
    <2>2. IsFiniteSet(Unwritten) /\ Cardinality(Unwritten) \in Nat
      <3>1. Unwritten \in SUBSET Sector
        BY DEF Unwritten
      <3> QED BY <3>1, SectorsFinite, FS_Subset, FS_CardinalityType
    <2>3. Cardinality(Unwritten) <= Cardinality(Waiting) + 1
      BY <2>1, <2>2, WaitingFinite, FS_RemoveElement
    <2> QED BY <1>5, <2>2, <2>3, WaitingFinite
  <1>14. \A i \in Slot : r[i].writeDirty <= flushCounter + 1
    BY <1>5, <1>7, <1>8 DEF DirtyCountBounded, TypeOK, CacheRecord
  <1>15. flushCounter + 1 \in Nat /\ flushCounter + 1 <= flushCounter + 1
    BY <1>5
  <1>16. ContentInv'
    BY <1>1, <1>3, <1>5, <1>8, <1>9, <1>11, <1>12, <1>13, <1>14, <1>15, CountStep
  <1> QED BY <1>11, <1>16

(* A flush the caller asks for.                                            *)
LEMMA FlushStepContents ==
  ASSUME NoFaults, ContentInv, Flush(rec, disk, writeFlag), IndInv', UNCHANGED sectorBuf,
         ~ filled, ~ filled'
  PROVE  ContentInv' /\ Transparent /\ \A s \in Sector : disk'[s] = View(s)
  <1> USE DEF ContentInv, IndInv
  <1>1. rec \in Records /\ disk \in Device /\ writeFlag \in BOOLEAN /\ flushCounter \in Nat
    BY DEF TypeOK, Records, Device
  <1>2. Writes(rec, Dirty(rec), disk) /\ flushCounter' = 0
    BY <1>1, FlushWrites DEF FlagCoversDirty
  <1>3. Dirty(rec) \in SUBSET Slot
    BY DEF Dirty
  <1>4. /\ Transparent
        /\ \A s \in Sector : \A i \in Hits(rec, s) : i \in Dirty(rec) => disk'[s] = View(s)
    BY <1>1, <1>2, <1>3, WriteBackStep
  <1>5. ASSUME NEW s \in Sector PROVE disk'[s] = View(s)
    <2>1. CASE View(s) = disk[s]
      BY <1>4, <2>1 DEF Transparent
    <2>2. CASE View(s) # disk[s]
      <3>1. \E i \in Hits(rec, s) : i \in Dirty(rec)
        BY <2>2, UnwrittenIsDirty DEF BeingFilled
      <3> QED BY <1>4, <3>1
    <2> QED BY <2>1, <2>2
  <1>6. CleanSectors'
    BY <1>4, <1>5, StaysClean
  <1>7. Unwritten' = {} /\ Unwritten' \subseteq Unwritten
    BY <1>4, <1>5 DEF Transparent, Unwritten
  <1>8. \A i \in Slot : rec'[i].writeDirty = 0
    BY <1>2 DEF Writes, Dirty
  <1>9. Waiting' = {}
    BY <1>7 DEF Waiting
  <1>10. ContentInv'
    BY <1>2, <1>6, <1>8, <1>9, FS_EmptySet DEF DirtyCountBounded
  <1> QED BY <1>4, <1>5, <1>10

(* The caller changes the sector it has a pointer to, and nothing else.    *)
LEMMA FillStep ==
  ASSUME ContentInv, NEW c \in Data, Fill(c)
  PROVE  /\ ContentInv'
         /\ cur \in Sector
         /\ \A s \in Sector : View(s)' = IF s = cur THEN c ELSE View(s)
  <1> USE DEF ContentInv, IndInv
  <1>1. IndInv'
    BY FillInv
  <1>2. /\ UNCHANGED <<rec, flushCounter, disk, cur, sbuf>> /\ filled' = TRUE
        /\ sectorBuf' = [sectorBuf EXCEPT ![sbuf[1]][sbuf[2]] = c]
        /\ cur \in Sector
    BY DEF Fill, TypeOK
  <1>3. /\ sbuf[1] \in Slot /\ sbuf[2] \in Offset
        /\ sbuf[1] \in Hits(rec, cur) /\ rec[sbuf[1]].sector + sbuf[2] = cur
    BY Held DEF HeldIsCached, TypeOK, Fill
  <1>4. ASSUME NEW s \in Sector, NEW i \in Hits(rec, s)
        PROVE  /\ View(s)' = IF s = cur THEN c ELSE View(s)
               /\ i # sbuf[1] => sectorBuf'[i] = sectorBuf[i]
    <2>1. Hits(rec, s) = {i} /\ i \in Slot /\ rec[i].sector \in Sector
          /\ s - rec[i].sector \in Offset
      BY <1>4, OneHit, HitFacts DEF TypeOK, Records, UniqueLabels, Distinct
    <2>2. View(s) = sectorBuf[i][s - rec[i].sector]
      BY <1>4, ViewHit
    <2>3. View(s)' = sectorBuf'[i][s - rec[i].sector]
      BY <1>2, <2>1 DEF View
    <2>4. /\ i # sbuf[1] => sectorBuf'[i] = sectorBuf[i]
          /\ i = sbuf[1] => sectorBuf'[i] = [sectorBuf[i] EXCEPT ![sbuf[2]] = c]
          /\ sectorBuf[i] \in [Offset -> Content]
      BY <1>2, <1>3, <2>1 DEF TypeOK
    <2>5. CASE s = cur
      <3>1. i = sbuf[1] /\ s - rec[i].sector = sbuf[2]
        <4>1. i = sbuf[1]
          BY <1>3, <2>1, <2>5
        <4>2. sbuf[2] \in Int /\ rec[i].sector \in Int /\ rec[i].sector + sbuf[2] = s
          BY <1>3, <2>1, <2>5, <4>1 DEF Offset, Sector
        <4> QED BY <4>1, <4>2
      <3> QED BY <1>3, <2>3, <2>4, <2>5, <3>1
    <2>6. CASE s # cur
      <3>1. i = sbuf[1] => s - rec[i].sector # sbuf[2]
        BY <1>3, <2>1, <2>6 DEF Offset, Sector
      <3> QED BY <2>2, <2>3, <2>4, <2>1, <2>6, <3>1
    <2> QED BY <2>4, <2>5, <2>6
  <1>5. \A s \in Sector : View(s)' = IF s = cur THEN c ELSE View(s)
    <2>1. ASSUME NEW s \in Sector, Hits(rec, s) = {}
          PROVE  View(s)' = IF s = cur THEN c ELSE View(s)
      BY <1>2, <1>3, <2>1 DEF View
    <2> QED BY <1>4, <2>1
  <1>6. CleanSectors'
    BY <1>2, <1>4 DEF CleanSectors, BeingFilled
  <1>7. Waiting' \subseteq Waiting
    BY <1>2, <1>5 DEF Waiting, Unwritten, Fill, FilledIsHeld
  <1>8. Cardinality(Waiting') <= flushCounter'
    <2>1. IsFiniteSet(Waiting') /\ Cardinality(Waiting') <= Cardinality(Waiting)
      BY <1>7, WaitingFinite, FS_Subset
    <2>2. Cardinality(Waiting') \in Nat /\ flushCounter \in Nat
      BY <2>1, FS_CardinalityType DEF TypeOK
    <2> QED BY <1>2, <2>1, <2>2, WaitingFinite
  <1>9. DirtyCountBounded'
    BY <1>2 DEF DirtyCountBounded
  <1> QED BY <1>1, <1>2, <1>5, <1>6, <1>8, <1>9

(* The cache starts again: the caller sees the device.                     *)
LEMMA CacheInitStep ==
  ASSUME ContentInv, CacheInit
  PROVE  ContentInv' /\ \A s \in Sector : View(s)' = disk'[s]
  <1>1. IndInv'
    BY CacheInitInv DEF ContentInv
  <1>2. \A i \in Slot : rec'[i].sector = Unused /\ rec'[i].writeDirty = 0
    BY DEF CacheInit, InitRecords
  <1>3. \A s \in Sector : Hits(rec', s) = {}
    BY <1>1, <1>2, HitFacts DEF IndInv, TypeOK, Records, Hits
  <1>4. \A s \in Sector : View(s)' = disk'[s]
    BY <1>3 DEF View
  <1>5. Waiting' = {}
    BY <1>4 DEF Waiting, Unwritten
  <1>6. CleanSectors'
    BY <1>3 DEF CleanSectors
  <1> QED BY <1>1, <1>2, <1>4, <1>5, <1>6, FS_EmptySet DEF ContentInv, DirtyCountBounded, CacheInit
-----------------------------------------------------------------------------
(* Every step, with what it does to what the caller sees.                  *)
LEMMA FlushSectorsStep ==
  ASSUME NoFaults, ContentInv, FlushSectors
  PROVE  ContentInv' /\ Transparent /\ \A s \in Sector : disk'[s] = View(s)
  <1>1. IndInv'
    BY NextInv DEF Next, ContentInv
  <1> QED BY <1>1, FlushStepContents DEF FlushSectors, Idle, callerVars

LEMMA ContentStep ==
  ASSUME NoFaults, ContentInv, [Next]_vars
  PROVE  /\ ContentInv'
         /\ \/ Transparent
            \/ \E c \in Data : Fill(c)
            \/ CacheInit
  <1>1. IndInv'
    BY NextInv DEF ContentInv
  <1>2. ASSUME NEW s \in Sector, ReadHit(s) PROVE ContentInv' /\ Transparent
    BY <1>2, ReadHitStep
  <1>3. ASSUME NEW s \in Sector, ReadMiss(s) PROVE ContentInv' /\ Transparent
    BY <1>3, ReadMissStep
  <1>4. ASSUME NEW s \in Sector, AllocMiss(s) PROVE FALSE
    BY <1>4 DEF AllocMiss, NoFaults
  <1>5. ASSUME NEW c \in Data, Fill(c) PROVE ContentInv'
    BY <1>5, FillStep
  <1>6. CASE WriteSector
    BY <1>6, WriteSectorStep
  <1>7. CASE FlushSectors
    BY <1>7, FlushSectorsStep
  <1>8. CASE Close
    BY <1>1, <1>8, FlushStepContents DEF Close, Idle
  <1>9. CASE CacheInit
    BY <1>9, CacheInitStep
  <1>10. CASE UNCHANGED vars
    <2>1. Transparent
      BY <1>10 DEF vars, Transparent, View, Hits
    <2>2. CleanSectors' /\ DirtyCountBounded' /\ Waiting' = Waiting /\ flushCounter' = flushCounter
      BY <1>10 DEF vars, ContentInv, CleanSectors, DirtyCountBounded, Waiting, Unwritten, View,
                   Hits, Dirty, BeingFilled
    <2> QED BY <1>1, <2>1, <2>2 DEF ContentInv
  <1> QED BY <1>2, <1>3, <1>4, <1>5, <1>6, <1>7, <1>8, <1>9, <1>10 DEF Next

LEMMA ContentHolds ==
  ASSUME NoFaults
  PROVE  Spec => []ContentInv
  BY InitContents, ContentStep, PTL DEF Spec

(* A slot that is not dirty holds what the device holds, so that a miss    *)
(* may reuse it without a write (scache_readSector, scache_allocSector).   *)
THEOREM CleanSlotsMatch ==
  ASSUME NoFaults
  PROVE  Spec => []CleanMatchesDisk
  <1>1. ContentInv => CleanMatchesDisk
    BY CleanSame DEF ContentInv, IndInv
  <1> QED BY <1>1, ContentHolds, PTL

(* The write precaution bounds what is lost when the device goes: fewer    *)
(* than FLUSH_TRIGGER sectors wait, and the one the caller is filling.     *)
THEOREM FewSectorsWait ==
  ASSUME NoFaults
  PROVE  Spec => []LossBounded
  <1>1. ContentInv => LossBounded
    BY SizesAssumption DEF ContentInv, IndInv, TypeOK, LossBounded, Waiting
  <1> QED BY <1>1, ContentHolds, PTL

(* The char that counts the writes of a slot stays below the count of      *)
(* accesses, so it does not wrap to clean.                                 *)
THEOREM DirtyCountsBounded ==
  ASSUME NoFaults
  PROVE  Spec => []DirtyCountBounded
  BY ContentHolds, PTL DEF ContentInv

(* After scache_flushSectors the device holds all that the caller sees.    *)
THEOREM FlushesAreDurable ==
  ASSUME NoFaults
  PROVE  Spec => FlushMakesDurable
  <1>1. ContentInv /\ [Next]_vars
          => [FlushSectors => \A s \in Sector : disk'[s] = View(s)]_vars
    BY FlushSectorsStep
  <1> QED BY <1>1, ContentHolds, PTL DEF Spec, FlushMakesDurable
-----------------------------------------------------------------------------
(* A slot with a label was read, and changed by nobody but the caller.     *)
OnlyData ==
  /\ disk \in [Sector -> Data]
  /\ \A i \in Slot : rec[i].sector # Unused => sectorBuf[i] \in [Offset -> Data]

LEMMA WrittenData ==
  ASSUME TypeOK, OnlyData, NEW r \in Records, NEW S \in SUBSET Slot,
         NEW d \in [Sector -> Data],
         \A i \in Slot : r[i].sector # Unused /\ i \in S => r[i].sector = rec[i].sector
  PROVE  Written(r, S, d) \in [Sector -> Data]
  <1>1. ASSUME NEW s \in Sector PROVE Written(r, S, d)[s] \in Data
    <2>1. CASE Hits(r, s) \intersect S = {}
      BY <2>1 DEF Written
    <2>2. CASE Hits(r, s) \intersect S # {}
      <3> DEFINE i == CHOOSE j \in Hits(r, s) \intersect S : TRUE
      <3>1. i \in Hits(r, s) /\ i \in S
        BY <2>2
      <3> HIDE DEF i
      <3>2. i \in Slot /\ s - r[i].sector \in Offset /\ r[i].sector # Unused
        BY <3>1, HitFacts
      <3>3. sectorBuf[i][s - r[i].sector] \in Data
        BY <3>1, <3>2 DEF OnlyData
      <3> QED BY <2>2, <3>3 DEF Written, i
    <2> QED BY <2>1, <2>2
  <1> QED BY <1>1 DEF Written

LEMMA EvictedData ==
  ASSUME TypeOK, OnlyData, NEW t \in Sector, NEW v \in Slot, NEW ok \in BOOLEAN
  PROVE  Evicted(Taxed(t), v, ok) \in [Sector -> Data]
  BY TaxedRecords, WrittenData DEF Evicted, OnlyData

LEMMA FlushData ==
  ASSUME TypeOK, OnlyData, NEW r \in Records, NEW d \in [Sector -> Data],
         NEW w \in BOOLEAN, Flush(r, d, w),
         \A i \in Dirty(r) : r[i].sector # Unused => r[i].sector = rec[i].sector
  PROVE  disk' \in [Sector -> Data] /\ \A i \in Slot : rec'[i].sector = r[i].sector
  <1>1. CASE rec' = r /\ disk' = d
    BY <1>1
  <1>2. ASSUME NEW f \in {CacheSize} \union {i \in Dirty(r) : WriteMayFail},
               rec' = [i \in Slot |-> IF i <= f THEN [r[i] EXCEPT !.writeDirty = 0] ELSE r[i]],
               disk' = Written(r, {i \in Dirty(r) : i < f}, d)
        PROVE  disk' \in [Sector -> Data] /\ \A i \in Slot : rec'[i].sector = r[i].sector
    <2>1. {i \in Dirty(r) : i < f} \in SUBSET Slot
      BY DEF Dirty
    <2>2. disk' \in [Sector -> Data]
      BY <1>2, <2>1, WrittenData
    <2> QED BY <1>2, <2>2 DEF Records, CacheRecord
  <1> QED BY <1>1, <1>2 DEF Flush

LEMMA CountData ==
  ASSUME TypeOK, OnlyData, NEW r \in Records, NEW d \in [Sector -> Data],
         NEW w \in BOOLEAN, CountAccess(r, d, w),
         \A i \in Dirty(r) : r[i].sector # Unused => r[i].sector = rec[i].sector
  PROVE  disk' \in [Sector -> Data] /\ \A i \in Slot : rec'[i].sector = r[i].sector
  BY FlushData DEF CountAccess

LEMMA OnlyDataStep ==
  ASSUME ~ ReadMayFail, ~ UsesAlloc, IndInv, OnlyData, [Next]_vars
  PROVE  OnlyData'
  <1> USE DEF IndInv
  <1>1. ASSUME NEW s \in Sector, ReadHit(s) PROVE OnlyData'
    BY <1>1, TaxedRecords DEF ReadHit, OnlyData
  <1>2. ASSUME NEW s \in Sector, ReadMiss(s) PROVE OnlyData'
    <2>1. PICK v \in Slot, ok \in Outcome(WriteMayFail) :
            LET r == Relabelled(Taxed(s), v, s)
                d == Evicted(Taxed(s), v, ok)
            IN  /\ sectorBuf' = [sectorBuf EXCEPT ![v] = Block(d, Aligned(s))]
                /\ CountAccess(r, d, writeFlag)
      BY <1>2 DEF ReadMiss
    <2> DEFINE r == Relabelled(Taxed(s), v, s)
               d == Evicted(Taxed(s), v, ok)
    <2>2. ok \in BOOLEAN
      BY FaultsAssumption DEF Outcome
    <2>3. /\ r \in Records /\ r[v].writeDirty = 0
          /\ \A i \in Slot \ {v} : r[i].sector = rec[i].sector
      BY TaxedRecords, RelabelledRecords
    <2>4. d \in [Sector -> Data]
      BY <2>2, EvictedData
    <2> HIDE DEF r, d
    <2>5. \A i \in Dirty(r) : r[i].sector = rec[i].sector
      BY <2>3 DEF Dirty
    <2>6. disk' \in [Sector -> Data] /\ \A i \in Slot : rec'[i].sector = r[i].sector
      <3>1. CountAccess(r, d, writeFlag) /\ writeFlag \in BOOLEAN
        BY <2>1 DEF r, d, TypeOK
      <3> QED BY <2>3, <2>4, <2>5, <3>1, CountData
    <2>7. ASSUME NEW i \in Slot, rec'[i].sector # Unused
          PROVE  sectorBuf'[i] \in [Offset -> Data]
      <3>1. sectorBuf' = [sectorBuf EXCEPT ![v] = Block(d, Aligned(s))]
        BY <2>1 DEF d
      <3>2. CASE i = v
        BY <2>4, <3>1, <3>2, BlockInDevice DEF Block, TypeOK
      <3>3. CASE i # v
        BY <2>3, <2>6, <2>7, <3>1, <3>3 DEF OnlyData, TypeOK
      <3> QED BY <3>2, <3>3
    <2> QED BY <2>6, <2>7 DEF OnlyData
  <1>3. ASSUME NEW c \in Data, Fill(c) PROVE OnlyData'
    <2>1. /\ sbuf[1] \in Slot /\ sbuf[2] \in Offset
          /\ UNCHANGED <<rec, disk>>
          /\ sectorBuf' = [sectorBuf EXCEPT ![sbuf[1]][sbuf[2]] = c]
      BY <1>3 DEF Fill, TypeOK
    <2> QED BY <1>3, <2>1 DEF OnlyData, TypeOK
  <1>4. CASE WriteSector
    <2>1. PICK v \in Hits(rec, cur) : CountAccess(Marked(v), disk, TRUE)
      BY <1>4 DEF WriteSector
    <2>2. Marked(v) \in Records /\ \A i \in Slot : Marked(v)[i].sector = rec[i].sector
      <3>1. v \in Slot
        BY DEF Hits
      <3>2. \A n \in 0 .. CharMod - 1 : (n + 1) % CharMod \in 0 .. CharMod - 1
        BY SizesAssumption, SMT
      <3> QED BY <3>1, <3>2 DEF TypeOK, Records, CacheRecord, Marked
    <2>3. \A i \in Dirty(Marked(v)) : Marked(v)[i].sector = rec[i].sector
      BY <2>2 DEF Dirty
    <2>4. disk' \in [Sector -> Data] /\ \A i \in Slot : rec'[i].sector = rec[i].sector
      BY <2>1, <2>2, <2>3, CountData DEF OnlyData
    <2> QED BY <1>4, <2>4 DEF WriteSector, OnlyData
  <1>5. CASE FlushSectors \/ Close
    <2>1. disk' \in [Sector -> Data] /\ \A i \in Slot : rec'[i].sector = rec[i].sector
      BY <1>5, FlushData DEF FlushSectors, Close, OnlyData, TypeOK, Records
    <2> QED BY <1>5, <2>1 DEF FlushSectors, Close, OnlyData
  <1>6. CASE CacheInit
    BY <1>6 DEF CacheInit, InitRecords, OnlyData
  <1>7. CASE UNCHANGED vars
    BY <1>7 DEF vars, OnlyData
  <1> QED BY <1>1, <1>2, <1>3, <1>4, <1>5, <1>6, <1>7 DEF Next, AllocMiss

(* What reaches the device was read from it or filled by the caller: the   *)
(* comment of scache.c:24 holds, whatever writes fail, as long as no       *)
(* sector is allocated and reads succeed.                                  *)
THEOREM NoJunkWithoutAlloc ==
  ASSUME Junk \notin Data, ~ ReadMayFail, ~ UsesAlloc
  PROVE  Spec => []DeviceHoldsOnlyData
  <1>1. Init => OnlyData
    BY DEF Init, InitRecords, OnlyData
  <1>2. OnlyData => DeviceHoldsOnlyData
    BY DEF OnlyData, DeviceHoldsOnlyData
  <1> QED BY <1>1, <1>2, OnlyDataStep, IndInvHolds, PTL DEF Spec
-----------------------------------------------------------------------------
(* The cache implements the store.                                         *)
viewed == [s \in Sector |-> View(s)]

LEMMA StoreInit == Init => Store!Init
  <1> SUFFICES ASSUME Init PROVE Store!Init
    OBVIOUS
  <1>1. \A s \in Sector : Hits(rec, s) = {}
    BY InitInv, HitFacts DEF Init, InitRecords, IndInv, TypeOK, Records, Hits
  <1>2. viewed = disk
    BY <1>1 DEF View, Init, viewed
  <1> QED BY <1>2 DEF Store!Init, Init, viewed

LEMMA StoreStep ==
  ASSUME NoFaults, ContentInv, [Next]_vars
  PROVE  [Store!Next]_<<viewed, disk, cur>>
  <1>1. /\ ContentInv'
        /\ Transparent \/ (\E c \in Data : Fill(c)) \/ CacheInit
    BY ContentStep
  <1>2. /\ cur \in Sector \union {NoSector} /\ cur' \in Sector \union {NoSector}
        /\ disk \in Device /\ disk' \in Device
    BY <1>1 DEF ContentInv, IndInv, TypeOK, Device
  <1>3. CASE Transparent
    <2>1. viewed' = viewed
      BY <1>3 DEF Transparent, viewed
    <2>2. Store!Open
      BY <1>2, <2>1 DEF Store!Open, viewed
    <2>3. Store!WriteBack
      <3> DEFINE S == {s \in Sector : disk'[s] = View(s)}
      <3>1. disk' = [s \in Sector |-> IF s \in S THEN viewed[s] ELSE disk[s]]
        BY <1>2, <1>3 DEF Transparent, Device, viewed
      <3>2. S \in SUBSET Sector
        OBVIOUS
      <3> QED BY <3>1, <3>2 DEF Store!WriteBack, viewed
    <2> QED BY <2>2, <2>3 DEF Store!Next
  <1>4. ASSUME NEW c \in Data, Fill(c) PROVE Store!Next
    <2>1. /\ cur \in Sector
          /\ \A s \in Sector : View(s)' = IF s = cur THEN c ELSE View(s)
      BY <1>4, FillStep
    <2>2. viewed' = [viewed EXCEPT ![cur] = c]
      BY <2>1 DEF viewed
    <2>3. UNCHANGED <<disk, cur>>
      BY <1>4 DEF Fill
    <2> QED BY <2>1, <2>2, <2>3 DEF Store!Next, Store!Fill, viewed
  <1>5. CASE CacheInit
    <2>1. viewed' = disk'
      BY <1>2, <1>5, CacheInitStep DEF viewed, Device
    <2> QED BY <1>5, <2>1 DEF CacheInit, Store!Next, Store!Restart, viewed
  <1> QED BY <1>1, <1>3, <1>4, <1>5

(* For its caller the cache is a store of sectors that lags behind on the  *)
(* medium only: whatever is aged, evicted and flushed is not seen.         *)
THEOREM CacheIsStore ==
  ASSUME NoFaults
  PROVE  Spec => StoreSpec
  <1>1. Init => Store!Init
    BY StoreInit
  <1>2. ContentInv /\ [Next]_vars => [Store!Next]_(Store!storeVars)
    BY StoreStep DEF Store!storeVars, viewed
  <1> QED BY <1>1, <1>2, ContentHolds, PTL DEF Spec, StoreSpec, Store!Spec
=============================================================================
