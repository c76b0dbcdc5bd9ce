------------------------------- MODULE MCReload -------------------------------
(* Instances of Reload for TLC. *)
EXTENDS Reload, TLC

CONSTANTS i1, i2, d1, d2
=============================================================================
