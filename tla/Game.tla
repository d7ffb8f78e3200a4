-------------------------------- MODULE Game --------------------------------
(***************************************************************************)
(* GameService and GameGateway (src/game/) serving several socket messages *)
(* for one game at once.                                                   *)
(*                                                                         *)
(* Every handler reads the whole games row, checks it and computes a new   *)
(* row in memory (Load), and then saves that row: there is no lock and no  *)
(* version column.  repository.save of TypeORM is two queries: it selects  *)
(* the row as it is now (Select) and updates those columns in which the    *)
(* row in memory differs from what it selected (Save).                     *)
(***************************************************************************)
EXTENDS LudoRules

CONSTANTS
  Handler,  \* slots for messages being served
  Op        \* the kinds of request that are made

VARIABLES
  hpc,    \* "idle", "select" and "update": the two queries of a save are to
          \* come, "settle": a winning move was saved and settleGame runs
  mem,    \* the row a handler has in memory
  base,   \* the row the save of a handler selected
  by,     \* the player whose roll or move a handler serves, or None
  fresh,  \* history: the row has not changed since the handler read it
  mixed   \* history: the row changed between the two queries of a save

handlerVars == <<hpc, mem, base, by, fresh, mixed>>
gameVars == <<row, handlerVars>>

GameInit ==
  /\ row = WaitingRow
  /\ hpc = [h \in Handler |-> "idle"]
  /\ mem = [h \in Handler |-> WaitingRow]
  /\ base = [h \in Handler |-> WaitingRow]
  /\ by = [h \in Handler |-> None]
  /\ fresh = [h \in Handler |-> FALSE]
  /\ mixed = FALSE

-----------------------------------------------------------------------------
(* findOne, the checks of the operation, and the new row n it computes for *)
(* player u.  A check that fails throws, and nothing has changed.          *)
Load(h, op, u, n) ==
  /\ op \in Op
  /\ hpc[h] = "idle"
  /\ hpc' = [hpc EXCEPT ![h] = "select"]
  /\ mem' = [mem EXCEPT ![h] = n]
  /\ by' = [by EXCEPT ![h] = u]
  /\ fresh' = [fresh EXCEPT ![h] = TRUE]
  /\ UNCHANGED <<row, base, mixed>>

(* Mutants of LoadMove: makeMove without its turn check, and without its   *)
(* check of the dice.                                                      *)
LoadAnyMove(h, u, i) ==
  /\ row.status = "IN_PROGRESS" /\ row.dice # 0
  /\ Load(h, "move", u, Moved(row, u, i))

LoadUnrolledMove(h, u, i) ==
  /\ row.status = "IN_PROGRESS" /\ row.turn = u
  /\ Load(h, "move", u, Moved(row, u, i))

LoadStart(h) == CanStart(row) /\ Load(h, "start", None, Started(row))

LoadRoll(h, u, d) == CanRoll(row, u) /\ Load(h, "roll", u, Rolled(row, d))

LoadMove(h, u, i) == CanMove(row, u) /\ Load(h, "move", u, Moved(row, u, i))

LoadDisconnect(h, u) ==
  CanDisconnect(row) /\ Load(h, "disconnect", None, Disconnected(row, u))

LoadReconnect(h, u) ==
  CanReconnect(row, u) /\ Load(h, "reconnect", None, Reconnected(row, u))

(* The first query of save.                                                *)
Select(h) ==
  /\ hpc[h] = "select"
  /\ base' = [base EXCEPT ![h] = row]
  /\ hpc' = [hpc EXCEPT ![h] = "update"]
  /\ UNCHANGED <<row, mem, by, fresh, mixed>>

(* The second, on the row now: of the columns status, winnerId and         *)
(* gameState, those in which new differs from old are set.                 *)
SameState(r, s) == <<r.turn, r.pos, r.dice, r.away>> = <<s.turn, s.pos, s.dice, s.away>>

Updated(now, old, new) ==
  LET state == IF SameState(new, old) THEN now ELSE new
  IN  [ status |-> IF new.status = old.status THEN now.status ELSE new.status,
        winner |-> IF new.winner = old.winner THEN now.winner ELSE new.winner,
        turn |-> state.turn, pos |-> state.pos,
        dice |-> state.dice, away |-> state.away ]

(* The slot of handler h is free again.                                    *)
Forget(h) ==
  /\ mem' = [mem EXCEPT ![h] = WaitingRow]
  /\ base' = [base EXCEPT ![h] = WaitingRow]
  /\ by' = [by EXCEPT ![h] = None]

Write(h) ==
  /\ row' = Updated(row, base[h], mem[h])
  /\ fresh' = [g \in Handler |-> g # h /\ fresh[g] /\ row' = row]
  /\ mixed' = (mixed \/ row # base[h])
  /\ Forget(h)

(* Mutant of Save: the gateway does not call settleGame.                   *)
SavesOnly(h) ==
  /\ hpc[h] = "update"
  /\ Write(h)
  /\ hpc' = [hpc EXCEPT ![h] = "idle"]

(* The save of a message.  After a move that completed the game the        *)
(* gateway goes on to settleGame.                                          *)
Save(h) ==
  /\ hpc[h] = "update"
  /\ Write(h)
  /\ hpc' = [hpc EXCEPT ![h] = IF by[h] # None /\ mem[h].status = "COMPLETED"
                                 THEN "settle" ELSE "idle"]

(* The database refuses a query: the message is answered with an error.    *)
SaveFails(h) ==
  /\ hpc[h] \in {"select", "update"}
  /\ hpc' = [hpc EXCEPT ![h] = "idle"]
  /\ fresh' = [fresh EXCEPT ![h] = FALSE]
  /\ Forget(h)
  /\ UNCHANGED <<row, mixed>>

(* settleGame returned; module Settlement says what it does until then.    *)
SettleReturns(h) ==
  /\ hpc[h] = "settle"
  /\ hpc' = [hpc EXCEPT ![h] = "idle"]
  /\ UNCHANGED <<row, mem, base, by, fresh, mixed>>

Message(h) ==
  \/ LoadStart(h)
  \/ \E u \in Player, d \in Face : LoadRoll(h, u, d)
  \/ \E u \in Player, i \in Index : LoadMove(h, u, i)
  \/ \E u \in Player : LoadDisconnect(h, u) \/ LoadReconnect(h, u)
  \/ Select(h)
  \/ Save(h)
  \/ SaveFails(h)

GameNext == \E h \in Handler : Message(h) \/ SettleReturns(h)

GameSpec == GameInit /\ [][GameNext]_gameVars

-----------------------------------------------------------------------------
(* The types of the game server: whatever is stored or about to be stored  *)
(* is a well-formed games row, with no position beyond home and no face    *)
(* beyond the dice.                                                        *)
GameTypeOK ==
  /\ row \in Row
  /\ hpc \in [Handler -> {"idle", "select", "update", "settle"}]
  /\ mem \in [Handler -> Row]
  /\ base \in [Handler -> Row]
  /\ by \in [Handler -> Player \cup {None}]
  /\ fresh \in [Handler -> BOOLEAN]
  /\ mixed \in BOOLEAN

(* A row that is consistent in itself: a completed game has a winner, who  *)
(* held the turn and brought every piece home; in any other game nobody is *)
(* home and nobody has won; a game that waits is untouched.                *)
Coherent(r) ==
  /\ r.status = "COMPLETED" => /\ r.winner = r.turn /\ AllHome(r, r.turn)
                               /\ r.dice # 0
  /\ r.status # "COMPLETED" => r.winner = None
  /\ \A u \in Player : AllHome(r, u) => r.winner = u
  /\ r.status = "WAITING" => r = WaitingRow

(* However handlers overwrite each other's work, the row that is stored    *)
(* and the rows about to be stored are consistent in themselves, unless a  *)
(* row changed between the two queries of a save: that interleaving alone  *)
(* makes a row of the columns of two.                                      *)
RowCoherent == ~mixed => Coherent(row) /\ \A h \in Handler : Coherent(mem[h])

(* A save whose handler read the row that is still there is a step of the  *)
(* rules, whatever state earlier saves left the row in: only a row that    *)
(* changed between read and write breaks them.                             *)
FreshSavesFollowRules ==
  [][\A h \in Handler :
       hpc[h] = "update" /\ hpc'[h] # "update" /\ fresh[h] /\ row' # row
         => RulesNext]_gameVars

(* Served by one handler, the game is the game of the rules.               *)
Rules == INSTANCE LudoRules
FollowsRules == Rules!RulesSpec

=============================================================================
