--------------------------- MODULE MCTurnSteering ---------------------------
(* A model-checking instance of TurnSteering.                              *)
EXTENDS TurnSteering

=============================================================================
