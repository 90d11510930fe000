--------------------------- MODULE MCApprovalGate ---------------------------
(* Instances of ApprovalGate for TLC. *)
EXTENDS ApprovalGate

CONSTANTS r1, r2, r3
=============================================================================
