----------------------------- MODULE MCMassDevice -----------------------------
(* Small instances of MassDevice for TLC.                                   *)
EXTENDS MassDevice
=============================================================================
