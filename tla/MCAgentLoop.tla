----------------------------- MODULE MCAgentLoop -----------------------------
(***************************************************************************)
(* AgentLoop for TLC.  Every call has the same name and arguments, so that *)
(* a few of them meet the detector.                                        *)
(***************************************************************************)
EXTENDS AgentLoop

OneSignature == [c \in Plain \cup Sub |-> "query"]
TurnContents == {{"thinking", "text"}}
=============================================================================
