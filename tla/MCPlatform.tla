----------------------------- MODULE MCPlatform -----------------------------
(* Instances of Platform for TLC.                                          *)
EXTENDS Platform

OneCoin == [s \in Stake |-> 1]

=============================================================================
