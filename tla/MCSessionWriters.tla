-------------------------- MODULE MCSessionWriters --------------------------
(* Model-checking instance of SessionWriters: objects and turns are        *)
(* interchangeable.                                                        *)
EXTENDS SessionWriters, TLC

Symmetry == Permutations(Objects) \cup Permutations(Turns)
=============================================================================
