------------------------------ MODULE ShortNames ------------------------------
(***************************************************************************)
(* The numbers in short names: "QUITEL~1.TXT", "QUITEL~2.TXT" and so on    *)
(* for long names with the same mask (fat_write.c 917-1045, 1208-1230,     *)
(* 1540-1600).                                                             *)
(*                                                                         *)
(* Every file here has the same mask, and an entry of its long name in     *)
(* front of the entry of its short name.  The records in which             *)
(* fat_fillDirentryInfo notes what is in the directory have six bits for a *)
(* number; the rest of it goes into the record of the entry before.        *)
(***************************************************************************)
EXTENDS Integers, FiniteSets, FiniteSetsExt

CONSTANTS Radix,     \* 64, what fits into the six bits
          Places     \* bound: room for this many files

VARIABLE number      \* the number in the short name at each place, 0 if free

Place == 1 .. Places

(* Two entries of each place: records 2p - 1 and 2p.                       *)
Record == 1 .. 2 * Places
Lfn(i) == i % 2 = 1
PlaceOf(i) == (i + 1) \div 2
-----------------------------------------------------------------------------
(* fat_fillDirentryInfo: the six bits of each record, those of the short   *)
(* names and those of the long names before them.                          *)
Bits(i) == IF Lfn(i) THEN (number[PlaceOf(i)] \div Radix) % Radix
           ELSE number[PlaceOf(i)] % Radix

(* setShortNameSequence, the number that it makes of record i: the bits of *)
(* the record before count only if there are bits in this one, and a       *)
(* record of a long name counts by itself, too.                            *)
Sequence(i) == IF Bits(i) # 0 /\ ~ Lfn(i) THEN Bits(i) + Radix * Bits(i - 1) ELSE Bits(i)

Hits == {i \in Record : Sequence(i) # 0}
MaxSeq == Max({Sequence(i) : i \in Record})

(* The number of a new short name: one behind the largest if there are as  *)
(* many as it says, otherwise the first that is missing.                   *)
NewSequence ==
  IF Cardinality(Hits) < MaxSeq
  THEN Min({j \in 0 .. MaxSeq - 1 : \A i \in Record : Sequence(i) # j})
  ELSE MaxSeq + 1
-----------------------------------------------------------------------------
Free == {p \in Place : number[p] = 0}

(* fat_modifyDirSpace: the entries go to the first place where they fit.   *)
Create == Free # {} /\ number' = [number EXCEPT ![Min(Free)] = NewSequence]

(* fat_clearDirSpace                                                       *)
Remove == \E p \in Place \ Free : number' = [number EXCEPT ![p] = 0]

Next == Create \/ Remove

Init == number = [p \in Place |-> 0]

Spec == Init /\ [][Next]_number
-----------------------------------------------------------------------------
(* "try to find unassigned sequence number" (fat_write.c:1014): no two     *)
(* files of a directory get the same short name.                           *)
ShortNamesUnique ==
  \A p, q \in Place : number[p] = number[q] /\ number[p] # 0 => p = q
=============================================================================
