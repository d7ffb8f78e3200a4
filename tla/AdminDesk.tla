------------------------------ MODULE AdminDesk ------------------------------
(***************************************************************************)
(* The requests of AdminController (src/admin/admin.controller.ts): those  *)
(* about a withdrawal or a configuration (Administration), and those about *)
(* an alert or a users row (FraudDetection), with the checks that raise    *)
(* alerts.                                                                 *)
(*                                                                         *)
(* The first read and write withdrawals and game_configs, the second       *)
(* fraud_alerts and users, and no property relates the two pairs of        *)
(* tables.  Interleaving the steps of one module with those of the other   *)
(* would show no property anything new and multiply the states: a          *)
(* behaviour here is a behaviour of one of the two in which the other does *)
(* not begin.                                                              *)
(***************************************************************************)
EXTENDS Administration, FraudDetection

deskVars == <<adminVars, fraudVars>>

DeskInit == AdminInit /\ FraudInit

(* No request about a withdrawal or a configuration was served.            *)
AdminRest == AdminInit /\ row = Unset

DeskNext ==
  \/ FraudInit /\ AdminNext /\ UNCHANGED fraudVars
  \/ AdminRest /\ FraudNext /\ UNCHANGED adminVars

DeskSpec == DeskInit /\ [][DeskNext]_deskVars

=============================================================================
