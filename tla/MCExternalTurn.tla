--------------------------- MODULE MCExternalTurn ---------------------------
(***************************************************************************)
(* ExternalTurn for TLC.  Two gateway calls have one name, the agent's own *)
(* call has another.                                                       *)
(***************************************************************************)
EXTENDS ExternalTurn

ToolNames == [c \in Calls |-> IF c \in Gateway THEN "query" ELSE "bash"]
=============================================================================
