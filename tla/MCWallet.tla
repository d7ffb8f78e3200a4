------------------------------ MODULE MCWallet ------------------------------
(* Instances of Wallet for TLC, with the rows of LedgerRows.               *)
EXTENDS LedgerRows

Symmetry == Permutations(Req) \cup Permutations(User)
=============================================================================
