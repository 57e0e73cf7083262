------------------------------- MODULE MCMount -------------------------------
(* Small instances of Mount for TLC.                                        *)
EXTENDS Mount, TLC

CONSTANTS dev1, dev2

NoRecord == [sid |-> 0, start |-> 0]

(* A FAT32 volume on the whole medium.                                      *)
Fat32Boot == [resSectors |-> 32, fatCount |-> 2, fatSize |-> 0, fatSize32 |-> 1000,
              rootSectors |-> 0, clusterSize |-> 8, sectorCount |-> 2032 + 8 * 127000,
              rootDirCluster |-> 2]

(* A FAT12 volume, something else, and a FAT16 volume with as many clusters *)
(* as are safe: 65525 are too many, the root directory counts as 4, and     *)
(* fat_determineFatType counts 2 more than there are.                       *)
Fat12Boot == [resSectors |-> 1, fatCount |-> 2, fatSize |-> 9, fatSize32 |-> 0,
              rootSectors |-> 14, clusterSize |-> 1, sectorCount |-> 2880, rootDirCluster |-> 0]
Fat16Boot == [resSectors |-> 1, fatCount |-> 2, fatSize |-> 256, fatSize32 |-> 0,
              rootSectors |-> 32, clusterSize |-> 8, sectorCount |-> 545 + 8 * 65518,
              rootDirCluster |-> 0]

MCMedium ==
  (dev1 :> [table |-> [i \in 1 .. 4 |-> NoRecord], boot |-> (0 :> Fat32Boot)])
  @@ (dev2 :> [table |-> <<[sid |-> 1, start |-> 63], [sid |-> 6, start |-> 5000],
                           [sid |-> 131, start |-> 600000], NoRecord>>,
               boot |-> (63 :> Fat12Boot) @@ (5000 :> Fat16Boot)])

ASSUME MCFormatted == Formatted
=============================================================================
