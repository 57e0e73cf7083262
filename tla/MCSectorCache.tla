---------------------------- MODULE MCSectorCache ----------------------------
(* Small instances of SectorCache for TLC.                                  *)
EXTENDS SectorCache
=============================================================================
