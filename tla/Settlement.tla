----------------------------- MODULE Settlement -----------------------------
(***************************************************************************)
(* SettlementService (src/settlement/settlement.service.ts) on top of the  *)
(* messages of module Game, for one game.                                  *)
(*                                                                         *)
(* The handler whose move completed the game runs settleGame: it looks     *)
(* into the process's set of settled games, reads the row in a transaction *)
(* of its own, credits the winner in a transaction of the wallet, commits  *)
(* its own and only then adds the game to the set.                         *)
(* validateAndSettleGame and cancelGameAndRefund, the service's other two  *)
(* operations, may be requested at any time.                               *)
(***************************************************************************)
EXTENDS Game, FiniteSets

CONSTANTS
  RefundLimit, \* bound: no cancellation is asked for after so many refunds
  FaultLimit   \* bound: failed queries and crashes in a behaviour

ASSUME HandlerAssumption == IsFiniteSet(Handler)
ASSUME BoundAssumption == RefundLimit \in Nat /\ FaultLimit \in Nat

VARIABLES
  settled,    \* the game is in settledGames, the set in memory
  to,         \* the winner a settleGame read, or None
  paid,       \* WIN_CREDIT rows of the game, per player
  released,   \* BET_RELEASE rows of the game, per player
  disturbed,  \* history: two handlers were finishing the game at once, or a
              \* failure or a crash undid what settleGame remembers
  faults      \* history: failures so far

moneyVars == <<paid, released>>
settleVars == <<settled, to, moneyVars, disturbed, faults>>
vars == <<gameVars, settleVars>>

Init ==
  /\ GameInit
  /\ settled = FALSE
  /\ to = [h \in Handler |-> None]
  /\ paid = [u \in Player |-> 0]
  /\ released = [u \in Player |-> 0]
  /\ disturbed = FALSE
  /\ faults = 0

(* Handler h is about to store a completed game, or is settling it.        *)
Finishing(h) ==
  \/ hpc[h] \in {"select", "update"} /\ by[h] # None /\ mem[h].status = "COMPLETED"
  \/ hpc[h] \in {"settle", "read", "credit", "commit"}

(* Bookkeeping of the steps by which a handler may begin to finish.        *)
Track ==
  disturbed' = (disturbed \/ \E g, h \in Handler : g # h /\ Finishing(g)' /\ Finishing(h)')

rowVars == <<row, mem, base, by, fresh, mixed>>

Goto(h, pc) == hpc' = [hpc EXCEPT ![h] = pc]

Fault == faults < FaultLimit /\ faults' = faults + 1

-----------------------------------------------------------------------------
(* A message of module Game.                                               *)
PlayerMessage(h) ==
  /\ Message(h)
  /\ UNCHANGED <<settled, to, moneyVars, faults>>
  /\ Track

(* validateAndSettleGame: the row is read, whatever its status, and the    *)
(* named winner is put into it.                                            *)
ValidateLoad(h, w) ==
  /\ Load(h, "validate", w, [row EXCEPT !.status = "COMPLETED", !.winner = w])
  /\ UNCHANGED <<settled, to, moneyVars, faults>>
  /\ Track

(* Mutants of SettleCheck: no check at all, and a check that remembers the *)
(* game at once instead of after the commit.                               *)
SettlesAgain(h) ==
  /\ hpc[h] = "settle"
  /\ Goto(h, "read")
  /\ UNCHANGED <<rowVars, settleVars>>

RemembersFirst(h) ==
  /\ hpc[h] = "settle"
  /\ settled' = TRUE
  /\ Goto(h, IF settled THEN "idle" ELSE "read")
  /\ UNCHANGED <<rowVars, to, moneyVars, disturbed, faults>>

(* settleGame: the idempotency check.                                      *)
SettleCheck(h) ==
  /\ hpc[h] = "settle"
  /\ Goto(h, IF settled THEN "idle" ELSE "read")
  /\ UNCHANGED <<rowVars, settleVars>>

(* findOne inside the transaction, and the checks of status and winner.    *)
SettleRead(h) ==
  /\ hpc[h] = "read"
  /\ IF row.status = "COMPLETED" /\ row.winner \in Player
       THEN Goto(h, "credit") /\ to' = [to EXCEPT ![h] = row.winner]
       ELSE Goto(h, "idle") /\ UNCHANGED to
  /\ UNCHANGED <<rowVars, settled, moneyVars, disturbed, faults>>

(* creditWinnings, which commits by itself.                                *)
Credit(h) ==
  /\ hpc[h] = "credit"
  /\ paid' = [paid EXCEPT ![to[h]] = @ + 1]
  /\ Goto(h, "commit")
  /\ UNCHANGED <<rowVars, settled, to, released, disturbed, faults>>

(* commitTransaction, and the game is remembered as settled.               *)
Commit(h) ==
  /\ hpc[h] = "commit"
  /\ settled' = TRUE
  /\ to' = [to EXCEPT ![h] = None]
  /\ Goto(h, "idle")
  /\ UNCHANGED <<rowVars, moneyVars, disturbed, faults>>

(* A query of settleGame fails: its transaction rolls back, a credit that  *)
(* was given stays.                                                        *)
SettleFails(h) ==
  /\ hpc[h] \in {"read", "credit", "commit"}
  /\ Fault
  /\ to' = [to EXCEPT ![h] = None]
  /\ disturbed' = (disturbed \/ hpc[h] = "commit")
  /\ Goto(h, "idle")
  /\ UNCHANGED <<rowVars, settled, moneyVars>>

-----------------------------------------------------------------------------
(* Mutant of CancelLoad: a completed game is not refused.                  *)
CancelsAny(h) ==
  /\ "cancel" \in Op
  /\ hpc[h] = "idle"
  /\ mem' = [mem EXCEPT ![h] = [row EXCEPT !.status = "CANCELLED"]]
  /\ fresh' = [fresh EXCEPT ![h] = TRUE]
  /\ Goto(h, "release1")
  /\ UNCHANGED <<row, base, by, mixed, settleVars>>
  /\ released[Player1] < RefundLimit

(* cancelGameAndRefund: findOne; only a completed game is refused.  (The   *)
(* last guard is the bound.)                                               *)
CancelLoad(h) ==
  /\ "cancel" \in Op
  /\ hpc[h] = "idle"
  /\ row.status # "COMPLETED"
  /\ mem' = [mem EXCEPT ![h] = [row EXCEPT !.status = "CANCELLED"]]
  /\ fresh' = [fresh EXCEPT ![h] = TRUE]
  /\ Goto(h, "release1")
  /\ UNCHANGED <<row, base, by, mixed, settleVars>>
  /\ released[Player1] < RefundLimit

(* Mutant of ReleaseTo: the release is booked with the wrong sign.         *)
ReleaseNegative(h, u, pc) ==
  /\ released' = [released EXCEPT ![u] = @ - 1]
  /\ Goto(h, pc)
  /\ UNCHANGED <<rowVars, settled, to, paid, disturbed, faults>>

(* The two releaseFunds, each of which commits by itself.                  *)
ReleaseTo(h, u, pc) ==
  /\ released' = [released EXCEPT ![u] = @ + 1]
  /\ Goto(h, pc)
  /\ UNCHANGED <<rowVars, settled, to, paid, disturbed, faults>>

(* Mutant of Release2: player1 is refunded a second time.                  *)
RefundsFirstAgain(h) == hpc[h] = "release2" /\ ReleaseTo(h, Player1, "select")

Release1(h) == hpc[h] = "release1" /\ ReleaseTo(h, Player1, "release2")

(* After the second comes the save, as in module Game; its transaction     *)
(* commits with the update.                                                *)
Release2(h) == hpc[h] = "release2" /\ ReleaseTo(h, Player2, "select")

CancelFails(h) ==
  /\ hpc[h] \in {"release1", "release2"}
  /\ Fault
  /\ Goto(h, "idle")
  /\ fresh' = [fresh EXCEPT ![h] = FALSE]
  /\ Forget(h)
  /\ UNCHANGED <<row, mixed, settled, to, moneyVars, disturbed>>

-----------------------------------------------------------------------------
(* The process restarts: no handler runs, and settledGames is empty.       *)
Crash ==
  /\ Fault
  /\ hpc' = [h \in Handler |-> "idle"]
  /\ mem' = [h \in Handler |-> WaitingRow]
  /\ base' = [h \in Handler |-> WaitingRow]
  /\ by' = [h \in Handler |-> None]
  /\ fresh' = [h \in Handler |-> FALSE]
  /\ to' = [h \in Handler |-> None]
  /\ settled' = FALSE
  /\ disturbed' = (disturbed \/ settled \/ \E h \in Handler : hpc[h] = "commit")
  /\ UNCHANGED <<row, mixed, moneyVars>>

(* A handler's steps after it began.                                       *)
Continue(h) ==
  \/ /\ Select(h) \/ Save(h)
     /\ UNCHANGED <<settled, to, moneyVars, faults>>
     /\ Track
  \/ SettleCheck(h) \/ SettleRead(h) \/ Credit(h) \/ Commit(h)
  \/ Release1(h) \/ Release2(h)

Next ==
  \/ \E h \in Handler : \/ PlayerMessage(h)
                        \/ \E w \in Player : ValidateLoad(h, w)
                        \/ SettleCheck(h) \/ SettleRead(h)
                        \/ Credit(h) \/ Commit(h) \/ SettleFails(h)
                        \/ CancelLoad(h) \/ Release1(h) \/ Release2(h)
                        \/ CancelFails(h)
  \/ Crash

(* Node runs what it was asked to; players move only if they want to.      *)
Fairness == \A h \in Handler : WF_vars(Continue(h))

Spec == Init /\ [][Next]_vars
FairSpec == Spec /\ Fairness

-----------------------------------------------------------------------------
(* The types of settlement: well-formed rows, and payments and refunds     *)
(* that are only ever added.                                               *)
TypeOK ==
  /\ row \in Row
  /\ hpc \in [Handler -> {"idle", "select", "update", "settle", "read",
                          "credit", "commit", "release1", "release2"}]
  /\ mem \in [Handler -> Row]
  /\ base \in [Handler -> Row]
  /\ by \in [Handler -> Player \cup {None}]
  /\ fresh \in [Handler -> BOOLEAN]
  /\ mixed \in BOOLEAN
  /\ settled \in BOOLEAN
  /\ to \in [Handler -> Player \cup {None}]
  /\ paid \in [Player -> Nat]
  /\ released \in [Player -> Nat]
  /\ disturbed \in BOOLEAN
  /\ faults \in 0 .. FaultLimit

TimesPaid == paid[Player1] + paid[Player2]

(* The set of settled games never holds a game whose winner went unpaid:   *)
(* no overlap, failure or crash makes a later settleGame skip a payment    *)
(* that was not made.                                                      *)
SettledIsPaid == settled => TimesPaid >= 1

(* Unless two handlers finish the game at once, or a failure or a restart  *)
(* makes settleGame forget, a game is paid once at most, even if lost      *)
(* updates or cancellations reopen it and it is won again.                 *)
UndisturbedPaysOnce == ~disturbed => TimesPaid <= 1

(* The two refunds of a cancellation commit one after the other: only a    *)
(* call that is between them, or that failed there, leaves player1 with a  *)
(* refund more than player2, and each once.                                *)
RefundsPaired ==
  LET between == Cardinality({h \in Handler : hpc[h] = "release2"})
  IN  released[Player1] - released[Player2]
        \in between .. between + faults * Cardinality(Handler)

(* README.md:36 "Automatic fund distribution": a game that is completed    *)
(* and stays so is paid in the end, whichever of the overlapping handlers  *)
(* stored the row last.  (True unless a save mixed the columns of two      *)
(* rows, a query fails or the process restarts.)                           *)
CompletedIsPaid ==
  <>[](row.status = "COMPLETED" /\ ~mixed) => <>(TimesPaid > 0)

-----------------------------------------------------------------------------
(* README.md:35 "Idempotent settlement processing", IMPLEMENTATION.md:132  *)
(* "Prevent double-settlement".                                            *)
PaidOnce == TimesPaid <= 1

=============================================================================
