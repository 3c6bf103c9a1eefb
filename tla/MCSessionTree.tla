---- MODULE MCSessionTree ----
(***************************************************************************)
(* Instances of SessionTree for TLC.                                       *)
(***************************************************************************)
EXTENDS SessionTree

\* Anywhere but between a save's check and its write, between the write and the
\* new baseline, and between the two reads of a resume.
OutsideWindows ==
    {"rest", "turn", "replacing", "replaced", "checking", "stamping",
     "inserting", "down", "probing", "replaying"}
====
