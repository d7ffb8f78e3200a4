----------------------------- MODULE GameProofs -----------------------------
(***************************************************************************)
(* What the overlapping saves of module Game keep, for any number of       *)
(* handlers, any number of pieces and any length of the way home: rows     *)
(* stay well-formed, they stay consistent unless a save mixes two of them, *)
(* and a save that nobody overtook is a step of the rules.  A game in      *)
(* which no save is overtaken is the game of the rules, however many       *)
(* messages overlap.                                                       *)
(***************************************************************************)
EXTENDS Game, TLAPS

(* Every operation computes a row of the right type from a row of the      *)
(* right type.                                                             *)
LEMMA OperationsTyped ==
  ASSUME NEW r \in Row, NEW u \in Player
  PROVE  /\ Started(r) \in Row
         /\ \A d \in Face : Rolled(r, d) \in Row
         /\ \A i \in Index : Moved(r, u, i) \in Row
         /\ Disconnected(r, u) \in Row
         /\ Reconnected(r, u) \in Row
<1> USE HomeAssumption
<1>1. AtStart \in [Player -> [Piece -> 0 .. Home]] /\ Player1 \in Player
  BY DEF AtStart, Player
<1>2. 0 \in 0 .. Six /\ \A d \in Face : d \in 0 .. Six
  BY DEF Face
<1>3. Started(r) \in Row
  BY <1>1, <1>2 DEF Started, Row
<1>4. \A d \in Face : Rolled(r, d) \in Row
  BY <1>2 DEF Rolled, Row
<1>5. ASSUME NEW i \in Index
      PROVE  Moved(r, u, i) \in Row
  <2> DEFINE n == Pushed(r, u, i)
  <2>1. ASSUME i \in Piece
        PROVE  n \in Row
    <3>1. r.pos[u][i] \in 0 .. Home /\ r.dice \in 0 .. Six
      BY <2>1 DEF Row
    <3>2. Advance(r.pos[u][i], r.dice) \in 0 .. Home
      BY <3>1 DEF Advance
    <3> QED
      BY <2>1, <3>2 DEF Pushed, Row
  <2>2. n \in Row
    BY <2>1 DEF Pushed
  <2> HIDE DEF n
  <2>3. \A v \in Player : Other(v) \in Player
    BY DEF Other, Player
  <2>4. [n EXCEPT !.status = "COMPLETED", !.winner = u] \in Row
    BY <2>2 DEF Row
  <2>5. [n EXCEPT !.turn = IF r.dice = Six THEN @ ELSE Other(@), !.dice = 0] \in Row
    BY <2>2, <2>3, <1>2 DEF Row
  <2> QED
    BY <2>4, <2>5 DEF Moved, n
<1>6. Disconnected(r, u) \in Row /\ Reconnected(r, u) \in Row
  BY DEF Disconnected, Reconnected, Row
<1> QED
  BY <1>3, <1>4, <1>5, <1>6

(* Nobody is home at the start: there is a piece, and it has a way to go.  *)
LEMMA NobodyHomeAtStart ==
  ASSUME NEW r \in Row, r.pos = AtStart, NEW u \in Player
  PROVE  ~AllHome(r, u)
BY HomeAssumption, PieceAssumption DEF AllHome, AtStart

(* The row a game begins with is well-formed and consistent.               *)
LEMMA WaitingRowFacts == WaitingRow \in Row /\ Coherent(WaitingRow)
<1>1. WaitingRow \in Row
  BY HomeAssumption DEF WaitingRow, Row, AtStart, Player
<1>2. \A u \in Player : ~AllHome(WaitingRow, u)
  BY <1>1, NobodyHomeAtStart DEF WaitingRow
<1> QED
  BY <1>1, <1>2 DEF Coherent, WaitingRow

(* Every operation whose checks pass computes a consistent row from a      *)
(* consistent row.                                                         *)
LEMMA OperationsCoherent ==
  ASSUME NEW r \in Row, Coherent(r), NEW u \in Player
  PROVE  /\ CanStart(r) => Coherent(Started(r))
         /\ \A d \in Face : CanRoll(r, u) => Coherent(Rolled(r, d))
         /\ \A i \in Index : CanMove(r, u) => Coherent(Moved(r, u, i))
         /\ CanDisconnect(r) => Coherent(Disconnected(r, u))
         /\ CanReconnect(r, u) => Coherent(Reconnected(r, u))
<1> USE PlayerAssumption
<1>1. ASSUME CanStart(r)
      PROVE  Coherent(Started(r))
  <2>1. \A v \in Player : ~AllHome(Started(r), v)
    <3>1. Started(r) \in Row
      BY OperationsTyped
    <3>2. Started(r).pos = AtStart
      BY DEF Started, Row
    <3> QED
      BY <3>1, <3>2, NobodyHomeAtStart
  <2> QED
    BY <1>1, <2>1 DEF CanStart, Coherent, Started, Row
<1>2. ASSUME NEW d \in Face, CanRoll(r, u)
      PROVE  Coherent(Rolled(r, d))
  BY <1>2, HomeAssumption DEF CanRoll, Coherent, Rolled, Row, AllHome, Face
<1>3. ASSUME NEW i \in Index, CanMove(r, u)
      PROVE  Coherent(Moved(r, u, i))
  <2> DEFINE n == Pushed(r, u, i)
             won == [n EXCEPT !.status = "COMPLETED", !.winner = u]
             next == [n EXCEPT !.turn = IF r.dice = Six THEN @ ELSE Other(@),
                               !.dice = 0]
  <2>1. /\ r.status = "IN_PROGRESS" /\ r.turn = u /\ r.dice # 0 /\ r.winner = None
        /\ \A v \in Player : v # None
    BY <1>3 DEF CanMove, Coherent, Player
  <2>2. \A v \in Player : ~AllHome(r, v)
    BY <2>1 DEF Coherent
  <2>0. /\ n.status = r.status /\ n.winner = r.winner /\ n.turn = r.turn
        /\ n.dice = r.dice /\ n = [n EXCEPT !.status = n.status]
        /\ \A v \in Player \ {u} : n.pos[v] = r.pos[v]
        /\ n = [ status |-> n.status, winner |-> n.winner, turn |-> n.turn,
                 pos |-> n.pos, dice |-> n.dice, away |-> n.away ]
    BY DEF Pushed, Row
  <2>3. \A v \in Player \ {u} : ~AllHome(n, v)
    BY <2>0, <2>2 DEF AllHome
  <2> HIDE DEF n
  <2>4. CASE AllHome(n, u)
    <3>1. Moved(r, u, i) = won
      BY <2>4 DEF Moved, n
    <3>2. \A v \in Player : won.pos[v] = n.pos[v]
      BY <2>0
    <3>3. AllHome(won, u) /\ \A v \in Player \ {u} : ~AllHome(won, v)
      BY <2>3, <2>4, <3>2 DEF AllHome
    <3>4. /\ won.status = "COMPLETED" /\ won.winner = u /\ won.turn = u
          /\ won.dice # 0
      BY <2>0, <2>1
    <3> QED
      BY <3>1, <3>3, <3>4 DEF Coherent
  <2>5. CASE ~AllHome(n, u)
    <3>1. Moved(r, u, i) = next
      BY <2>5 DEF Moved, n
    <3>2. \A v \in Player : next.pos[v] = n.pos[v]
      BY <2>0
    <3>3. \A v \in Player : ~AllHome(next, v)
      BY <2>3, <2>5, <3>2 DEF AllHome
    <3>4. next.status = "IN_PROGRESS" /\ next.winner = None
      BY <2>0, <2>1
    <3> QED
      BY <3>1, <3>3, <3>4 DEF Coherent
  <2> QED
    BY <2>4, <2>5
<1>4. ASSUME CanDisconnect(r)
      PROVE  Coherent(Disconnected(r, u))
  BY <1>4 DEF CanDisconnect, Coherent, Disconnected, Row, AllHome
<1>5. ASSUME CanReconnect(r, u)
      PROVE  Coherent(Reconnected(r, u))
  <2>1. r.status # "WAITING"
    BY <1>5 DEF CanReconnect, Coherent, WaitingRow
  <2> QED
    BY <2>1 DEF Coherent, Reconnected, Row, AllHome
<1> QED
  BY <1>1, <1>2, <1>3, <1>4, <1>5

(* An update leaves a well-formed row; and if the row is still the one the *)
(* save selected, it leaves the row the handler had in memory.             *)
LEMMA UpdatedRow ==
  ASSUME NEW now \in Row, NEW old \in Row, NEW new \in Row
  PROVE  Updated(now, old, new) \in Row /\ (now = old => Updated(now, old, new) = new)
<1>1. Updated(now, old, new) \in Row
  BY DEF Updated, Row
<1>2. ASSUME now = old
      PROVE  Updated(now, old, new) = new
  <2>1. new = [ status |-> new.status, winner |-> new.winner, turn |-> new.turn,
                pos |-> new.pos, dice |-> new.dice, away |-> new.away ]
    BY DEF Row
  <2>2. Updated(now, old, new)
          = [ status |-> new.status, winner |-> new.winner, turn |-> new.turn,
              pos |-> new.pos, dice |-> new.dice, away |-> new.away ]
    BY <1>2 DEF Updated, SameState
  <2> QED
    BY <2>1, <2>2
<1> QED
  BY <1>1, <1>2

-----------------------------------------------------------------------------
(* The rows that are stored and in memory are well-formed.                 *)
RowsTyped ==
  /\ row \in Row
  /\ mem \in [Handler -> Row]
  /\ base \in [Handler -> Row]
  /\ by \in [Handler -> Player \cup {None}]
  /\ fresh \in [Handler -> BOOLEAN]
  /\ mixed \in BOOLEAN

(* What a handler takes into memory is a well-formed row, consistent if    *)
(* the stored one is, that the rules allow to follow the stored one; and a *)
(* roll or a move is taken from the player whose turn it is only.          *)
LEMMA LoadedRow ==
  ASSUME RowsTyped, NEW h \in Handler, Message(h)
  PROVE  \/ \E n \in Row, op \in Op, u \in Player \cup {None} :
               /\ Coherent(row) => Coherent(n)
               /\ n \in Successors(row)
               /\ u # None => u = row.turn
               /\ Load(h, op, u, n)
         \/ Select(h) \/ Save(h) \/ SaveFails(h)
<1> USE DEF RowsTyped
<1> None \in Player \cup {None} /\ Player1 \in Player /\ row \in Row
  BY DEF Player
<1>1. CASE LoadStart(h)
  <2>1. /\ Started(row) \in Row /\ "start" \in Op
        /\ Coherent(row) => Coherent(Started(row))
    BY <1>1, OperationsTyped, OperationsCoherent DEF LoadStart, Load
  <2>2. Started(row) \in Successors(row)
    BY <1>1 DEF LoadStart, Successors, Starts
  <2> QED
    BY <1>1, <2>1, <2>2 DEF LoadStart
<1>2. CASE \E u \in Player, d \in Face : LoadRoll(h, u, d)
  <2>1. PICK u \in Player, d \in Face : LoadRoll(h, u, d)
    BY <1>2
  <2>2. /\ Rolled(row, d) \in Row /\ "roll" \in Op
        /\ Coherent(row) => Coherent(Rolled(row, d))
    BY <2>1, OperationsTyped, OperationsCoherent DEF LoadRoll, Load
  <2>3. Rolled(row, d) \in Successors(row)
    BY <2>1 DEF LoadRoll, Successors, Rolls
  <2> QED
    BY <2>1, <2>2, <2>3 DEF LoadRoll, CanRoll
<1>3. CASE \E u \in Player, i \in Index : LoadMove(h, u, i)
  <2>1. PICK u \in Player, i \in Index : LoadMove(h, u, i)
    BY <1>3
  <2>2. /\ Moved(row, u, i) \in Row /\ "move" \in Op
        /\ Coherent(row) => Coherent(Moved(row, u, i))
    BY <2>1, OperationsTyped, OperationsCoherent DEF LoadMove, Load
  <2>3. u \in {p \in Player : CanMove(row, p)}
    BY <2>1 DEF LoadMove
  <2>4. Moved(row, u, i) \in Successors(row)
    BY <2>3 DEF Successors, Moves
  <2> QED
    BY <2>1, <2>2, <2>4 DEF LoadMove, CanMove
<1>4. CASE \E u \in Player : LoadDisconnect(h, u) \/ LoadReconnect(h, u)
  <2>1. PICK u \in Player : LoadDisconnect(h, u) \/ LoadReconnect(h, u)
    BY <1>4
  <2>2. CASE LoadDisconnect(h, u)
    <3>1. /\ Disconnected(row, u) \in Row /\ "disconnect" \in Op
          /\ Coherent(row) => Coherent(Disconnected(row, u))
      BY <2>2, OperationsTyped, OperationsCoherent DEF LoadDisconnect, Load
    <3>2. u \in {p \in Player : CanDisconnect(row)}
      BY <2>2 DEF LoadDisconnect
    <3>3. Disconnected(row, u) \in Successors(row)
      BY <3>2 DEF Successors, Leaves
    <3> QED
      BY <2>2, <3>1, <3>3 DEF LoadDisconnect
  <2>3. CASE LoadReconnect(h, u)
    <3>1. /\ Reconnected(row, u) \in Row /\ "reconnect" \in Op
          /\ Coherent(row) => Coherent(Reconnected(row, u))
      BY <2>3, OperationsTyped, OperationsCoherent DEF LoadReconnect, Load
    <3>2. u \in {p \in Player : CanReconnect(row, p)}
      BY <2>3 DEF LoadReconnect
    <3>3. Reconnected(row, u) \in Successors(row)
      BY <3>2 DEF Successors, Returns
    <3> QED
      BY <2>3, <3>1, <3>3 DEF LoadReconnect
  <2> QED
    BY <2>1, <2>2, <2>3
<1> QED
  BY <1>1, <1>2, <1>3, <1>4 DEF Message

(* A message keeps the rows well-formed, whatever else handlers do.        *)
LEMMA MessageTyped ==
  ASSUME RowsTyped, NEW h \in Handler, Message(h)
  PROVE  RowsTyped'
<1>1. ASSUME NEW n \in Row, NEW op \in Op, NEW u \in Player \cup {None}, Load(h, op, u, n)
      PROVE  RowsTyped'
  BY <1>1 DEF Load, RowsTyped
<1>2. CASE Select(h)
  BY <1>2 DEF Select, RowsTyped
<1>3. CASE Save(h)
  <2>1. row' \in Row
    BY <1>3, UpdatedRow DEF Save, Write, RowsTyped
  <2> QED
    BY <1>3, <2>1, WaitingRowFacts DEF Save, Write, Forget, RowsTyped
<1>4. CASE SaveFails(h)
  BY <1>4, WaitingRowFacts DEF SaveFails, Forget, RowsTyped
<1> QED
  BY <1>1, <1>2, <1>3, <1>4, LoadedRow

(* Why a fresh save is a step of the rules: its handler still has in       *)
(* memory a successor of the row that is stored, and that row is the one   *)
(* its save selected.  A roll or a move is still its player's turn.        *)
FreshInv ==
  \A h \in Handler : fresh[h] =>
    /\ hpc[h] \in {"select", "update"}
    /\ mem[h] \in Successors(row)
    /\ by[h] # None => by[h] = row.turn
    /\ hpc[h] = "update" => base[h] = row

GameInv == GameTypeOK /\ RowCoherent /\ FreshInv

(* One step of module Game keeps the invariant.                            *)
LEMMA GameInvStep ==
  ASSUME GameInv, [GameNext]_gameVars
  PROVE  GameInv'
<1> USE DEF GameInv
<1>1. ASSUME NEW h \in Handler, NEW n \in Row, NEW op \in Op,
             NEW u \in Player \cup {None}, Coherent(row) => Coherent(n),
             n \in Successors(row), u # None => u = row.turn, Load(h, op, u, n)
      PROVE  GameInv'
  <2>1. GameTypeOK'
    BY <1>1 DEF Load, GameTypeOK
  <2>2. RowCoherent'
    BY <1>1 DEF Load, GameTypeOK, RowCoherent
  <2>3. FreshInv'
    BY <1>1 DEF Load, GameTypeOK, FreshInv
  <2> QED
    BY <2>1, <2>2, <2>3
<1>2. ASSUME NEW h \in Handler, Select(h)
      PROVE  GameInv'
  <2>1. GameTypeOK'
    BY <1>2 DEF Select, GameTypeOK
  <2>2. RowCoherent' /\ FreshInv'
    BY <1>2 DEF Select, GameTypeOK, RowCoherent, FreshInv
  <2> QED
    BY <2>1, <2>2
<1>3. ASSUME NEW h \in Handler, Save(h)
      PROVE  GameInv'
  <2>1. row' \in Row /\ (row = base[h] => row' = mem[h])
    BY <1>3, UpdatedRow DEF Save, Write, GameTypeOK
  <2>2. GameTypeOK'
    BY <1>3, <2>1, WaitingRowFacts DEF Save, Write, Forget, GameTypeOK
  <2>3. RowCoherent'
    BY <1>3, <2>1, WaitingRowFacts DEF Save, Write, Forget, GameTypeOK, RowCoherent
  <2>4. FreshInv'
    BY <1>3 DEF Save, Write, Forget, GameTypeOK, FreshInv
  <2> QED
    BY <2>2, <2>3, <2>4
<1>4. ASSUME NEW h \in Handler, SaveFails(h)
      PROVE  GameInv'
  <2>1. GameTypeOK' /\ RowCoherent'
    BY <1>4, WaitingRowFacts DEF SaveFails, Forget, GameTypeOK, RowCoherent
  <2>2. FreshInv'
    BY <1>4 DEF SaveFails, Forget, GameTypeOK, FreshInv
  <2> QED
    BY <2>1, <2>2
<1>5. ASSUME NEW h \in Handler, SettleReturns(h)
      PROVE  GameInv'
  BY <1>5 DEF SettleReturns, GameTypeOK, RowCoherent, FreshInv
<1>6. CASE UNCHANGED gameVars
  BY <1>6 DEF gameVars, handlerVars, GameTypeOK, RowCoherent, FreshInv
<1> QED
  BY <1>1, <1>2, <1>3, <1>4, <1>5, <1>6, LoadedRow DEF GameNext, GameTypeOK, RowsTyped

(* The invariant holds before the first message.                           *)
LEMMA GameInvInit == GameInit => GameInv
BY WaitingRowFacts DEF GameInit, GameInv, GameTypeOK, RowCoherent, FreshInv

(* The row that is stored and those about to be stored are well-formed in  *)
(* every state, and consistent in themselves until a row changes between   *)
(* the two queries of a save.                                              *)
THEOREM RowsStayCoherent == GameSpec => [](GameTypeOK /\ RowCoherent)
<1>1. GameInv => GameTypeOK /\ RowCoherent
  BY DEF GameInv
<1> QED
  BY <1>1, GameInvInit, GameInvStep, PTL DEF GameSpec

(* The types alone.                                                        *)
COROLLARY GameTyped == GameSpec => []GameTypeOK
BY RowsStayCoherent, PTL

(* A save whose handler read the row that is still there is a step of the  *)
(* rules of LudoRules.                                                     *)
THEOREM FreshSavesAreMoves == GameSpec => FreshSavesFollowRules
<1> DEFINE Rule == \A h \in Handler :
                     hpc[h] = "update" /\ hpc'[h] # "update" /\ fresh[h] /\ row' # row
                       => RulesNext
<1>1. ASSUME GameInv, [GameNext]_gameVars
      PROVE  [Rule]_gameVars
  <2>1. SUFFICES ASSUME NEW g \in Handler, hpc[g] = "update", hpc'[g] # "update",
                        fresh[g], row' # row
                 PROVE  RulesNext
    BY <1>1
  <2>2. PICK h \in Handler : Message(h) \/ SettleReturns(h)
    BY <1>1, <2>1 DEF GameNext, gameVars
  <2>3. Save(h)
    BY <1>1, <2>1, <2>2, LoadedRow
       DEF GameInv, GameTypeOK, RowsTyped, Load, Select, SaveFails, SettleReturns
  <2>4. h = g
    BY <1>1, <2>1, <2>3 DEF Save, GameInv, GameTypeOK
  <2>5. mem[h] \in Successors(row) /\ base[h] = row
    BY <1>1, <2>1, <2>4 DEF GameInv, FreshInv
  <2>6. row' = mem[h]
    BY <1>1, <2>3, <2>5, UpdatedRow DEF Save, Write, GameInv, GameTypeOK
  <2> QED
    BY <2>5, <2>6 DEF RulesNext
<1> QED
  BY <1>1, GameInvInit, GameInvStep, PTL DEF GameSpec, FreshSavesFollowRules

-----------------------------------------------------------------------------
(* No save is overtaken: whenever a handler writes, the row is still the   *)
(* one it read.  Handlers may overlap in any other way.                    *)
Timely == \A h \in Handler : Save(h) => fresh[h]
NoneOvertaken == [][Timely]_gameVars

(* A row that changes is saved by a handler.                               *)
LEMMA ChangesAreSaves ==
  ASSUME GameInv, [GameNext]_gameVars, row' # row
  PROVE  \E h \in Handler : Save(h)
<1>1. PICK h \in Handler : Message(h) \/ SettleReturns(h)
  BY DEF GameNext, gameVars
<1>2. Save(h)
  BY <1>1, LoadedRow
     DEF GameInv, GameTypeOK, RowsTyped, Load, Select, SaveFails, SettleReturns
<1> QED
  BY <1>2

(* FollowsRules: whatever number of messages overlap, a game in which no   *)
(* save is overtaken is the game of LudoRules, although each operation is  *)
(* a load, a select and an update, and any of its queries may fail.        *)
THEOREM TimelyGameFollowsRules == GameSpec /\ NoneOvertaken => FollowsRules
<1>1. GameInit => Rules!RulesInit
  BY DEF GameInit, Rules!RulesInit, WaitingRow, Rules!WaitingRow, AtStart, Rules!AtStart,
         Player, Rules!Player
<1>2. Successors(row) = Rules!Successors(row)
  BY DEF Successors, Rules!Successors, Starts, Rules!Starts, Rolls, Rules!Rolls,
         Moves, Rules!Moves, Leaves, Rules!Leaves, Returns, Rules!Returns,
         CanStart, Rules!CanStart, Started, Rules!Started, CanRoll, Rules!CanRoll,
         Rolled, Rules!Rolled, CanMove, Rules!CanMove, Moved, Rules!Moved,
         Pushed, Rules!Pushed,
         Advance, Rules!Advance, Other, Rules!Other, AllHome, Rules!AllHome,
         CanDisconnect, Rules!CanDisconnect, Disconnected, Rules!Disconnected,
         CanReconnect, Rules!CanReconnect, Reconnected, Rules!Reconnected,
         AtStart, Rules!AtStart, Player, Rules!Player, Face, Rules!Face
<1>3. ASSUME GameInv, [GameNext]_gameVars, [Timely]_gameVars
      PROVE  [Rules!RulesNext]_row
  <2>1. SUFFICES ASSUME row' # row
                 PROVE  Rules!RulesNext
    OBVIOUS
  <2>2. PICK h \in Handler : Save(h)
    BY <1>3, <2>1, ChangesAreSaves
  <2>3. fresh[h]
    BY <1>3, <2>1, <2>2 DEF Timely, gameVars
  <2>4. mem[h] \in Successors(row) /\ base[h] = row
    BY <1>3, <2>2, <2>3 DEF GameInv, FreshInv, Save
  <2>5. row' = mem[h]
    BY <1>3, <2>2, <2>4, UpdatedRow DEF Save, Write, GameInv, GameTypeOK
  <2> QED
    BY <1>2, <2>4, <2>5 DEF Rules!RulesNext
<1> QED
  BY <1>1, <1>3, GameInvInit, GameInvStep, PTL
     DEF GameSpec, NoneOvertaken, FollowsRules, Rules!RulesSpec

=============================================================================
