--------------------------- MODULE MCMatchmaking ---------------------------
(* Instances of Matchmaking for TLC.                                       *)
EXTENDS Matchmaking

Symmetry == Permutations(Ticket) \cup Permutations(User)
              \cup Permutations(Cancel) \cup Permutations(Sweep)
=============================================================================
