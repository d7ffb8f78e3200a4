---------------------------- MODULE StakeEscrow ----------------------------
(***************************************************************************)
(* What matchmaking owes a player for the stake it locked: the stake is    *)
(* held, and then either put into one game against one other stake, or     *)
(* given back, and never both and never twice.  A stake over which         *)
(* handlers got into each other's way is disputed, and no more is promised *)
(* about it: the code has no lock that would prevent that.                 *)
(***************************************************************************)
EXTENDS FiniteSets, Naturals

CONSTANT Ticket

VARIABLE escrow

State == {"none", "held", "playing", "refunded", "disputed"}

Init == escrow = [t \in Ticket |-> "none"]

Hold(t) ==
  /\ escrow[t] = "none"
  /\ escrow' = [escrow EXCEPT ![t] = "held"]

(* Two stakes enter one game together.                                     *)
Play(s, t) ==
  /\ s # t
  /\ {escrow[s], escrow[t]} \subseteq {"held", "disputed"}
  /\ escrow' = [x \in Ticket |-> IF x \in {s, t} /\ escrow[x] = "held"
                                   THEN "playing" ELSE escrow[x]]

Refund(t) ==
  /\ escrow[t] = "held"
  /\ escrow' = [escrow EXCEPT ![t] = "refunded"]

Dispute(S) ==
  escrow' = [x \in Ticket |-> IF x \in S THEN "disputed" ELSE escrow[x]]

Next ==
  \/ \E t \in Ticket : Hold(t) \/ Refund(t)
  \/ \E s, t \in Ticket : Play(s, t)
  \/ \E S \in SUBSET Ticket : Dispute(S)

Spec == Init /\ [][Next]_escrow

=============================================================================
