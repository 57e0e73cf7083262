------------------------------ MODULE MCBulkOnly ------------------------------
(* Small instances of BulkOnly for TLC.                                     *)
EXTENDS BulkOnly
=============================================================================
