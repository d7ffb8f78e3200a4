----------------------------- MODULE MCAccounts -----------------------------
(* Instances of Accounts for TLC.                                          *)
EXTENDS Accounts, TLC

Symmetry == Permutations(Handler) \cup Permutations(Otp) \cup Permutations(Device)
=============================================================================
