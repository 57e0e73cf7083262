----------------------------- MODULE MCDirListing -----------------------------
(* Small instances of DirListing for TLC.                                   *)
EXTENDS DirListing

CONSTANTS a, b, root, sub

(* A root directory with a label, and a directory of two sectors in which   *)
(* b may lie before and behind a.                                           *)
MCContents == {[d \in Dir |-> IF d = root THEN <<Label, a, Hole, End>> ELSE <<Hole, a, b, End>>]}
MCChanging == {<<sub, b>>}
=============================================================================
