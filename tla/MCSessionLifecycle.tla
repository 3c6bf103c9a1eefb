------------------------- MODULE MCSessionLifecycle -------------------------
(***************************************************************************)
(* SessionLifecycle over small sets of sessions, recipes and commands.     *)
(***************************************************************************)
EXTENDS SessionLifecycle, TLC

\* Commands of one kind, ids and stored recipes are interchangeable.
Symmetry ==
    UNION {Permutations(S) : S \in {Sids, Stored, Asks, Edits, Closes, Deletes,
                                    Opens, Renames}}
=============================================================================
