--------------------------- MODULE MCTurnRuntime ---------------------------
(* Small instances of TurnRuntime for TLC. *)
EXTENDS TurnRuntime, TLC

Symmetry == Permutations(Handlers)
=============================================================================
