----------------------------- MODULE MCDirEntries -----------------------------
(* Small instances of DirEntries for TLC: a takes two entries, b three.     *)
EXTENDS DirEntries

CONSTANTS a, b, c

NameParts == [n \in Name |-> IF n = b THEN 2 ELSE 1]
=============================================================================
