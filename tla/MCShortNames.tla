----------------------------- MODULE MCShortNames -----------------------------
(* Small instances of ShortNames for TLC.                                   *)
EXTENDS ShortNames
=============================================================================
