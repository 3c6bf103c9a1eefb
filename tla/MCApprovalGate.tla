--------------------------- MODULE MCApprovalGate ---------------------------
(***************************************************************************)
(* ApprovalGate with small sets of calls and tools, for TLC.               *)
(***************************************************************************)
EXTENDS ApprovalGate
=============================================================================
