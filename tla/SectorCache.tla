------------------------------ MODULE SectorCache ------------------------------
(***************************************************************************)
(* The sector cache between the FAT layer and the device (iop/scache.c).   *)
(*                                                                         *)
(* CacheSize slots of one 4096-byte block each; a block is IndexLimit      *)
(* consecutive sectors starting at an aligned sector.  rec labels each     *)
(* slot with the first sector it holds, an ageing value (tax) that picks   *)
(* the slot to reuse, and a dirty count.  The caller gets a pointer into a *)
(* slot (sbuf), fills the sector in place and reports the change with      *)
(* scache_writeSector.  Dirty slots reach the device when their slot is    *)
(* reused, after every FlushTrigger misses and writes, or on request.      *)
(*                                                                         *)
(* One caller: an operation runs to its end before the next one starts.    *)
(***************************************************************************)
EXTENDS Integers, FiniteSets

CONSTANTS CacheSize,      \* slots (CACHE_SIZE, 32)
          IndexLimit,     \* sectors per slot (indexLimit, 4096/sectorSize)
          NumSectors,     \* sectors of the device
          FlushTrigger,   \* FLUSH_TRIGGER, 16
          CharMod,        \* values of a char (writeDirty), 256
          TaxBound,       \* bound on |tax| in the runs
          Data, Junk,     \* sector contents; what malloc leaves in the buffer
          ReadMayFail,    \* may READ_SECTOR_4096 return an error?
          WriteMayFail,   \* may WRITE_SECTOR_4096 return an error?
          UsesAlloc       \* does the caller use scache_allocSector?

ASSUME SizesAssumption ==
  /\ CacheSize \in Nat \ {0}
  /\ IndexLimit \in Nat \ {0}
  /\ NumSectors \in Nat \ {0}
  /\ NumSectors % IndexLimit = 0
  /\ FlushTrigger \in Nat \ {0}
  /\ CharMod \in Nat
  /\ CharMod > FlushTrigger
  /\ TaxBound \in Nat

ASSUME FaultsAssumption == {ReadMayFail, WriteMayFail, UsesAlloc} \subseteq BOOLEAN

VARIABLES rec,            \* [sector, tax, writeDirty] of every slot
          sectorBuf,      \* contents of every slot
          allocated,      \* sectorBuf # NULL
          writeFlag,      \* writeFlag # 0
          flushCounter,
          disk,           \* contents of the device
          cur,            \* sector the caller has a pointer to, or NoSector
          sbuf,           \* the pointer: <<slot, sector within the slot>>
          filled          \* the caller has changed *sbuf and not reported it

cacheVars  == <<rec, sectorBuf, allocated, writeFlag, flushCounter>>
callerVars == <<cur, sbuf, filled>>
vars == <<rec, sectorBuf, allocated, writeFlag, flushCounter, disk, cur, sbuf, filled>>

Slot   == 0 .. CacheSize - 1
Sector == 0 .. NumSectors - 1
Offset == 0 .. IndexLimit - 1
NoSector == -1
Unused == NumSectors      \* the label 0xFFFFFFF0: aligned, beyond every sector
Content == Data \union {Junk}

(* allignedSector: the first sector of the block that holds s.             *)
Aligned(s) == (s \div IndexLimit) * IndexLimit

Label == {Aligned(s) : s \in Sector} \union {Unused}

(* cache_record                                                            *)
CacheRecord == [sector : Label, tax : Int, writeDirty : 0 .. CharMod - 1]

TypeOK ==
  /\ rec \in [Slot -> CacheRecord]
  /\ sectorBuf \in [Slot -> [Offset -> Content]]
  /\ allocated \in BOOLEAN
  /\ writeFlag \in BOOLEAN
  /\ flushCounter \in 0 .. FlushTrigger - 1
  /\ disk \in [Sector -> Content]
  /\ cur \in Sector \union {NoSector}
  /\ sbuf \in Slot \X Offset
  /\ filled \in BOOLEAN
-----------------------------------------------------------------------------
(* Mutant: the last sector of a slot is not found.                         *)
HitsButLast(r, s) ==
  {i \in Slot : r[i].sector <= s /\ s < r[i].sector + IndexLimit - 1}

(* getSlot, getIndexRead: the slots of r whose range holds sector s.       *)
Hits(r, s) == {i \in Slot : r[i].sector <= s /\ s < r[i].sector + IndexLimit}

(* getIndexRead charges every slot one tax unit, and first gives the slots *)
(* that hold s two of them, from zero if they were below it.               *)
Taxed(s) ==
  [i \in Slot |-> [rec[i] EXCEPT !.tax =
      IF i \in Hits(rec, s) THEN (IF @ < 0 THEN 0 ELSE @) + 2 - 1 ELSE @ - 1]]

(* getIndexWrite reuses the first of the slots with the least tax.         *)
IsVictim(r, v) == \A i \in Slot : /\ r[v].tax <= r[i].tax
                                  /\ i < v => r[v].tax < r[i].tax

Dirty(r) == {i \in Slot : r[i].writeDirty # 0}

(* Device d after the slots S, labelled by r, are written to it (no sector *)
(* is in two slots: OneSlotPerSector).                                     *)
Written(r, S, d) ==
  [s \in Sector |->
     IF Hits(r, s) \intersect S = {} THEN d[s]
     ELSE LET i == CHOOSE i \in Hits(r, s) \intersect S : TRUE
          IN  sectorBuf[i][s - r[i].sector]]

(* The block that starts at sector s of device d.                          *)
Block(d, s) == [o \in Offset |-> d[s + o]]

(* Does a transfer succeed?  An error is possible only if mayFail.         *)
Outcome(mayFail) == {TRUE} \union {~ mayFail}

(* Mutant: a dirty victim is not written back.                             *)
EvictedUnwritten(r, v, ok) == disk

(* Device after slot v is written back; ok says if the transfer succeeded. *)
Evicted(r, v, ok) == IF v \in Dirty(r) /\ ok THEN Written(r, {v}, disk) ELSE disk

Relabelled(r, v, s) ==
  [r EXCEPT ![v] = [sector |-> Aligned(s), tax |-> @.tax + 2, writeDirty |-> 0]]

(* Mutant: the slot is not marked dirty.                                   *)
MarkedClean(v) ==
  [rec EXCEPT ![v] = [sector |-> @.sector, tax |-> @.tax + 2, writeDirty |-> @.writeDirty]]

(* scache_writeSector marks slot v dirty and lets it stay longer.          *)
Marked(v) ==
  [rec EXCEPT ![v] = [sector |-> @.sector, tax |-> @.tax + 2,
                      writeDirty |-> (@.writeDirty + 1) % CharMod]]

(* Mutant: writeFlag is reset although a transfer failed.                 *)
FlushClearsFlag(r, d, w) ==
  /\ flushCounter' = 0
  /\ writeFlag' = FALSE
  /\ \/ ~ w /\ rec' = r /\ disk' = d
     \/ w /\ \E f \in {CacheSize} \union {i \in Dirty(r) : WriteMayFail} :
            /\ rec' = [i \in Slot |-> IF i <= f THEN [r[i] EXCEPT !.writeDirty = 0]
                                                ELSE r[i]]
            /\ disk' = Written(r, {i \in Dirty(r) : i < f}, d)

(* scache_flushSectors on records r, device d and writeFlag w: dirty slots *)
(* are written in index order.  The slot f whose transfer fails is marked  *)
(* clean and ends the loop; f = CacheSize is no failure.                   *)
Flush(r, d, w) ==
  /\ flushCounter' = 0
  /\ \/ /\ ~ w
        /\ rec' = r /\ disk' = d /\ writeFlag' = w
     \/ /\ w
        /\ \E f \in {CacheSize} \union {i \in Dirty(r) : WriteMayFail} :
             /\ rec' = [i \in Slot |-> IF i <= f THEN [r[i] EXCEPT !.writeDirty = 0]
                                                 ELSE r[i]]
             /\ disk' = Written(r, {i \in Dirty(r) : i < f}, d)
             /\ writeFlag' = (f < CacheSize)

(* Mutants: one access too many before the flush; the counter starts again *)
(* without a flush.                                                        *)
CountAccessLate(r, d, w) ==
  \/ flushCounter = FlushTrigger /\ Flush(r, d, w)
  \/ /\ flushCounter # FlushTrigger
     /\ flushCounter' = flushCounter + 1
     /\ rec' = r /\ disk' = d /\ writeFlag' = w

CountAccessNoFlush(r, d, w) ==
  /\ flushCounter' = (flushCounter + 1) % FlushTrigger
  /\ rec' = r /\ disk' = d /\ writeFlag' = w

(* The "write precaution" that ends a read miss and a write: count it, and *)
(* flush when the trigger is reached.                                      *)
CountAccess(r, d, w) ==
  \/ /\ flushCounter + 1 = FlushTrigger
     /\ Flush(r, d, w)
  \/ /\ flushCounter + 1 # FlushTrigger
     /\ flushCounter' = flushCounter + 1
     /\ rec' = r /\ disk' = d /\ writeFlag' = w

(* Between operations the caller never leaves a change unreported.         *)
Idle == allocated /\ ~ filled

BoundedTax == \A i \in Slot : rec[i].tax \in -TaxBound .. TaxBound
-----------------------------------------------------------------------------
(* The static variables after the first scache_init: malloc fills nothing. *)
InitRecords == [i \in Slot |-> [sector |-> Unused, tax |-> 0, writeDirty |-> 0]]

Init ==
  /\ rec = InitRecords
  /\ sectorBuf = [i \in Slot |-> [o \in Offset |-> Junk]]
  /\ allocated = TRUE
  /\ writeFlag = FALSE
  /\ flushCounter = 0
  /\ disk \in [Sector -> Data]
  /\ cur = NoSector
  /\ sbuf = <<0, 0>>
  /\ filled = FALSE

(* Mutant: the pointer is to the first sector of the slot.                 *)
ReadHitSlotStart(s) ==
  /\ Idle /\ BoundedTax
  /\ \E v \in Hits(rec, s) : sbuf' = <<v, 0>>
  /\ rec' = Taxed(s)
  /\ cur' = s
  /\ UNCHANGED <<sectorBuf, allocated, writeFlag, flushCounter, disk, filled>>

(* The sector is in slot v: scache_readSector and scache_allocSector only  *)
(* age the slots and hand out the pointer.                                 *)
ReadHit(s) ==
  /\ Idle /\ BoundedTax
  /\ \E v \in Hits(rec, s) : sbuf' = <<v, s - rec[v].sector>>
  /\ rec' = Taxed(s)
  /\ cur' = s
  /\ UNCHANGED <<sectorBuf, allocated, writeFlag, flushCounter, disk, filled>>

(* scache_readSector, not cached: the victim is written back if dirty (an  *)
(* error is only printed), relabelled, then loaded with the whole block.   *)
(* If that transfer fails the caller gets an error, the label stays.       *)
ReadMiss(s) ==
  /\ Idle /\ BoundedTax
  /\ Hits(rec, s) = {}
  /\ \E v \in Slot, ok \in Outcome(WriteMayFail) :
       LET aged == Taxed(s)
           r    == Relabelled(aged, v, s)
           d    == Evicted(aged, v, ok)
       IN  /\ IsVictim(aged, v)
           /\ \/ /\ sectorBuf' = [sectorBuf EXCEPT ![v] = Block(d, Aligned(s))]
                 /\ CountAccess(r, d, writeFlag)
                 /\ sbuf' = <<v, s % IndexLimit>>
                 /\ cur' = s
              \/ /\ ReadMayFail
                 /\ rec' = r /\ disk' = d
                 /\ cur' = NoSector
                 /\ UNCHANGED <<sectorBuf, writeFlag, flushCounter, sbuf>>
  /\ UNCHANGED <<allocated, filled>>

(* scache_allocSector, not cached: as a read miss, but nothing is read and *)
(* nothing is counted; the other sectors of the slot keep what was there.  *)
AllocMiss(s) ==
  /\ Idle /\ BoundedTax /\ UsesAlloc
  /\ Hits(rec, s) = {}
  /\ \E v \in Slot, ok \in Outcome(WriteMayFail) :
       /\ IsVictim(Taxed(s), v)
       /\ rec' = Relabelled(Taxed(s), v, s)
       /\ disk' = Evicted(Taxed(s), v, ok)
       /\ sbuf' = <<v, s % IndexLimit>>
  /\ cur' = s
  /\ UNCHANGED <<sectorBuf, allocated, writeFlag, flushCounter, filled>>

(* The caller changes the sector through its pointer.                      *)
Fill(d) ==
  /\ allocated /\ cur # NoSector
  /\ sectorBuf' = [sectorBuf EXCEPT ![sbuf[1]][sbuf[2]] = d]
  /\ filled' = TRUE
  /\ UNCHANGED <<rec, allocated, writeFlag, flushCounter, disk, cur, sbuf>>

(* Mutant: writeFlag is not set.                                           *)
WriteSectorNoFlag ==
  /\ filled /\ BoundedTax
  /\ \E v \in Hits(rec, cur) :
       /\ \A j \in Hits(rec, cur) : v <= j
       /\ CountAccess(Marked(v), disk, writeFlag)
  /\ filled' = FALSE
  /\ UNCHANGED <<sectorBuf, allocated, cur, sbuf>>

(* scache_writeSector: the first slot that holds the sector becomes dirty. *)
(* Its error return (not cached) cannot happen: see HeldIsCached.          *)
WriteSector ==
  /\ filled /\ BoundedTax
  /\ \E v \in Hits(rec, cur) :
       /\ \A j \in Hits(rec, cur) : v <= j
       /\ CountAccess(Marked(v), disk, TRUE)
  /\ filled' = FALSE
  /\ UNCHANGED <<sectorBuf, allocated, cur, sbuf>>

(* scache_flushSectors, asked for by the caller (fs_close, fs_remove ...). *)
FlushSectors ==
  /\ Idle
  /\ Flush(rec, disk, writeFlag)
  /\ UNCHANGED <<sectorBuf, allocated, callerVars>>

(* scache_close flushes and frees the buffer.                              *)
Close ==
  /\ Idle
  /\ Flush(rec, disk, writeFlag)
  /\ allocated' = FALSE
  /\ cur' = NoSector
  /\ UNCHANGED <<sectorBuf, sbuf, filled>>

(* scache_init at every later mount: the records are reset with no flush.  *)
CacheInit ==
  /\ ~ filled
  /\ rec' = InitRecords
  /\ writeFlag' = FALSE
  /\ flushCounter' = 0
  /\ sectorBuf' = IF allocated THEN sectorBuf
                  ELSE [i \in Slot |-> [o \in Offset |-> Junk]]
  /\ allocated' = TRUE
  /\ cur' = NoSector
  /\ UNCHANGED <<disk, sbuf, filled>>

Next ==
  \/ \E s \in Sector : ReadHit(s) \/ ReadMiss(s) \/ AllocMiss(s)
  \/ \E d \in Data : Fill(d)
  \/ WriteSector
  \/ FlushSectors
  \/ Close
  \/ CacheInit

Spec == Init /\ [][Next]_vars
-----------------------------------------------------------------------------
(* "To prevent storage of duplicit sectors in slots" (scache.c:229): a     *)
(* sector is in at most one slot, so that a change through one pointer is  *)
(* seen through every other and written once.                              *)
OneSlotPerSector == \A s \in Sector : \A i, j \in Hits(rec, s) : i = j

(* The slot the caller holds a pointer to is not reused under its hands,   *)
(* whatever flushes and failures happen: scache_writeSector finds it, and  *)
(* it is the sector the caller asked for.                                  *)
HeldIsCached ==
  cur # NoSector => /\ sbuf[1] \in Hits(rec, cur)
                    /\ rec[sbuf[1]].sector + sbuf[2] = cur

(* writeFlag = 0 makes scache_flushSectors return at once (scache.c:180):  *)
(* there is then no dirty slot to write.                                   *)
FlagCoversDirty == ~ writeFlag => Dirty(rec) = {}

(* The char writeDirty counts the writes since the last flush, so it does  *)
(* not wrap to "clean".                                                    *)
DirtyCountBounded == \A i \in Slot : rec[i].writeDirty <= flushCounter

(* A slot that is not dirty can be reused without writing it: it holds     *)
(* what the device holds.                                                  *)
BeingFilled(i) == filled /\ i = sbuf[1]

CleanMatchesDisk ==
  \A i \in Slot : rec[i].sector # Unused /\ i \notin Dirty(rec) /\ ~ BeingFilled(i)
                    => sectorBuf[i] = Block(disk, rec[i].sector)

(* What a caller that asks for sector s sees.                              *)
View(s) == IF Hits(rec, s) = {} THEN disk[s]
           ELSE LET i == CHOOSE i \in Hits(rec, s) : TRUE
                IN  sectorBuf[i][s - rec[i].sector]

Unwritten == {s \in Sector : View(s) # disk[s]}

(* The "write precaution": what a power cut or an unplugged device can     *)
(* lose is fewer than FlushTrigger sectors, each of them reported since    *)
(* the last flush, and the one being filled.                               *)
LossBounded ==
  /\ Cardinality(Unwritten \ {s \in Sector : filled /\ s = cur}) <= flushCounter
  /\ flushCounter < FlushTrigger

(* When the caller asks for a flush, everything it wrote is on the device. *)
FlushMakesDurable == [][FlushSectors => \A s \in Sector : disk'[s] = View(s)]_vars

(* "Always read 4096 bytes ... (the rest bytes is stored in the cache)"    *)
(* (scache.c:24): what is written to the device was read from it or filled *)
(* by the caller, never what happened to be in the buffer.                 *)
DeviceHoldsOnlyData == \A s \in Sector : disk[s] # Junk

(* The cache is a store of sectors for its caller: reads, evictions and    *)
(* flushes never change what the caller sees, a fill changes one sector.   *)
Store == INSTANCE BlockStore WITH
  Sector <- Sector, Data <- Data, NoSector <- NoSector,
  content <- [s \in Sector |-> View(s)], medium <- disk, open <- cur

StoreSpec == Store!Spec
=============================================================================
