-------------------------------- MODULE Volume --------------------------------
(***************************************************************************)
(* Finding the volume on a medium: the partition table, the boot sector,   *)
(* the type of the FAT and the sector of a cluster (fat_driver.c 109-127,  *)
(* 329-451).                                                               *)
(*                                                                         *)
(* A medium has four partition records, and boot sectors at the starts of  *)
(* its volumes.  Sizes are in sectors.                                     *)
(***************************************************************************)
EXTENDS Integers

FatTypes == {12, 16, 32}

(* The fields of a boot sector that the driver computes with; rootSectors  *)
(* is rootSize in sectors, fatSize is 0 for FAT32.                         *)
Boot == [resSectors : Nat, fatCount : Nat, fatSize : Nat, fatSize32 : Nat, rootSectors : Nat,
         clusterSize : Nat \ {0}, sectorCount : Nat, rootDirCluster : Nat]

(* partBpb before any volume was mounted.                                  *)
NoBpb == [partStart |-> 0, fatType |-> 0, clusterSize |-> 0, rootSectors |-> 0,
          sectorCount |-> 0, fatSize |-> 0, rootDirStart |-> 0, rootDirCluster |-> 0]
-----------------------------------------------------------------------------
(* fat_getPartitionTable: the record that is used, or the whole medium.    *)
Suitable == {1, 4, 6, 11, 12, 14}

WorkPartition(table) ==
  LET fat == {i \in 1 .. 4 : table[i].sid \in Suitable}
  IN  IF fat = {} THEN [sid |-> 0, start |-> 0]
      ELSE table[CHOOSE i \in fat : \A j \in fat : j <= i]

(* Mutant: the root directory takes no room.                               *)
Cluster2SectorNoRoot(bpb, c) == bpb.rootDirStart + bpb.clusterSize * (c - 2)

(* fat_cluster2sector                                                      *)
Cluster2Sector(bpb, c) ==
  bpb.rootDirStart + (IF bpb.fatType = 32 THEN 0 ELSE bpb.rootSectors) + bpb.clusterSize * (c - 2)

TypeOf(count) == IF count < 4085 THEN 12 ELSE IF count < 65525 THEN 16 ELSE 32

(* fat_determineFatType: cluster 0 is looked up with the type of the       *)
(* volume that was mounted before.                                         *)
DetermineFatType(bpb) ==
  TypeOf((bpb.sectorCount - (Cluster2Sector(bpb, 0) - bpb.partStart)) \div bpb.clusterSize)

(* What partBpb takes over from the boot sector at start; rootDirStart     *)
(* follows from the size of the table.                                     *)
Common(boot, start, old) ==
  [partStart |-> start, fatType |-> old.fatType, clusterSize |-> boot.clusterSize,
   rootSectors |-> boot.rootSectors, sectorCount |-> boot.sectorCount, fatSize |-> boot.fatSize,
   rootDirStart |-> start + boot.fatCount * boot.fatSize + boot.resSectors,
   rootDirCluster |-> 0]

(* Mutant: the type is determined before rootDirStart is known.            *)
PartitionBootSectorEarly(boot, start, old) ==
  LET bpb == Common(boot, start, old)
      type == DetermineFatType([bpb EXCEPT !.rootDirStart = old.rootDirStart])
  IN  IF type = 32 /\ boot.fatSize = 0
        THEN [bpb EXCEPT !.fatType = type, !.fatSize = boot.fatSize32,
                         !.rootDirStart = @ + boot.fatCount * boot.fatSize32,
                         !.rootDirCluster = boot.rootDirCluster]
        ELSE [bpb EXCEPT !.fatType = type]

(* fat_getPartitionBootSector: partBpb after the boot sector was read, with *)
(* old before.                                                             *)
PartitionBootSector(boot, start, old) ==
  LET bpb == Common(boot, start, old)
      type == DetermineFatType(bpb)
  IN  IF type = 32 /\ boot.fatSize = 0
        THEN [bpb EXCEPT !.fatType = type, !.fatSize = boot.fatSize32,
                         !.rootDirStart = @ + boot.fatCount * boot.fatSize32,
                         !.rootDirCluster = boot.rootDirCluster]
        ELSE [bpb EXCEPT !.fatType = type]
-----------------------------------------------------------------------------
(* What the boot sector means: where its data clusters are, how many there *)
(* are, and the type of FAT that follows from their number.                *)
DataStart(boot) ==
  boot.resSectors + boot.fatCount * (boot.fatSize + boot.fatSize32) + boot.rootSectors

DataClusters(boot) == (boot.sectorCount - DataStart(boot)) \div boot.clusterSize

(* A boot sector as formatting writes it: one of the two sizes of the table *)
(* is given, which one says whether it is FAT32, and FAT32 has no root     *)
(* directory of a fixed size.                                              *)
WellFormed(boot) ==
  IF boot.fatSize = 0 THEN boot.rootSectors = 0 /\ TypeOf(DataClusters(boot)) = 32
                      ELSE boot.fatSize32 = 0 /\ TypeOf(DataClusters(boot)) # 32

(* fat_determineFatType counts two clusters too many, as fat_cluster2sector *)
(* starts at cluster 2, and the root directory too if the volume before    *)
(* was FAT32.  So close below a limit the type may be wrong.               *)
Overcounted(boot) ==
  (boot.sectorCount - DataStart(boot) + boot.rootSectors) \div boot.clusterSize + 2

NearLimit(boot) == boot.fatSize # 0 /\ TypeOf(Overcounted(boot)) # TypeOf(DataClusters(boot))
=============================================================================
