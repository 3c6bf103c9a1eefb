--------------------------- MODULE MCConfigStore ---------------------------
(***************************************************************************)
(* ConfigStore for TLC.                                                    *)
(***************************************************************************)
EXTENDS ConfigStore
=============================================================================
