----------------------------- MODULE MCMcpFleet -----------------------------
(***************************************************************************)
(* McpFleet for TLC: one server of each transport.                         *)
(***************************************************************************)
EXTENDS McpFleet, TLC

CONSTANTS pipe, stream, web

ThreeServers == <<pipe, stream, web>>
=============================================================================
