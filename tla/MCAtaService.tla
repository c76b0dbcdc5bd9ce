----------------------------- MODULE MCAtaService -----------------------------
(* Instances of AtaService for TLC. *)
EXTENDS AtaService, TLC

CONSTANTS p1, p2
=============================================================================
