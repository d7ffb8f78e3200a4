------------------------------- MODULE MCGame -------------------------------
(* Instances of Game for TLC.                                              *)
EXTENDS Game, TLC

Symmetry == Permutations(Handler)
=============================================================================
