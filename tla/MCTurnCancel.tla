---------------------------- MODULE MCTurnCancel ----------------------------
(***************************************************************************)
(* TLC instance of TurnCancel: commands and clicks are model values and    *)
(* turns are interchangeable, so they may be permuted in the safety runs.  *)
(***************************************************************************)
EXTENDS TurnCancel, TLC

Symmetry == Permutations(Turns)
=============================================================================
