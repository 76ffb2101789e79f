---------------------------- MODULE MCLogExport ----------------------------
(* Instances of LogExport for TLC. *)
EXTENDS LogExport, TLC
=============================================================================
