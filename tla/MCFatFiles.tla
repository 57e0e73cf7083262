------------------------------ MODULE MCFatFiles ------------------------------
(* Small instances of FatFiles for TLC.                                     *)
EXTENDS FatFiles

EmptyMedium ==
  [fat |-> [c \in FatIndex |-> IF c < 2 THEN EOF ELSE 0],
   dirent |-> [f \in File |-> NoFile]]

(* One file of two clusters is on it.                                       *)
UsedMedium(f) ==
  [fat |-> [EmptyMedium.fat EXCEPT ![2] = 3, ![3] = EOF],
   dirent |-> [EmptyMedium.dirent EXCEPT ![f] = [start |-> 2, size |-> ClusterBytes + 1]]]

OnlyEmpty == {EmptyMedium}
EmptyAndUsed == {EmptyMedium} \union {UsedMedium(f) : f \in File}
=============================================================================
