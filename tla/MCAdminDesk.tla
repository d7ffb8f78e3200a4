---------------------------- MODULE MCAdminDesk ----------------------------
(* Instances of AdminDesk for TLC.                                         *)
EXTENDS AdminDesk, TLC

(* Two columns stand for those of game_configs; an update sets one of them *)
(* to another value.                                                       *)
MCConfigColumn == {"commissionPercent", "rules"}
MCNewConfig == {[c \in MCConfigColumn |-> "old"]}
MCConfigUpdate == {[c \in {column} |-> "new"] : column \in MCConfigColumn}

(* Just above, at and below the thresholds.                                *)
MCTally == {[games |-> 10, mine |-> 8, theirs |-> 0],
            [games |-> 10, mine |-> 7, theirs |-> 0],
            [games |-> 5, mine |-> 5, theirs |-> 0]}

(* The code tells CLEARED from every other status: FLAGGED is one.         *)
MCReview == {"FLAGGED", "CLEARED", "none"}

Symmetry ==
  UNION {Permutations(S) : S \in {Request, Member, Case, Check}}
=============================================================================
