----------------------------- MODULE LudoRules -----------------------------
(***************************************************************************)
(* The game as src/game/game.service.ts plays it when one request at a     *)
(* time is served: a single row, and one atomic step per request.          *)
(*                                                                         *)
(* A row is the games row as far as the service reads it back: the status, *)
(* the winner and the gameState JSON.  Positions stop at Home, which       *)
(* stands for every value from 57 on: the code compares them with 57 and   *)
(* does nothing else with them.  Dice 0 is an undefined lastDiceRoll.      *)
(***************************************************************************)
EXTENDS Integers

CONSTANTS
  Player1, Player2,  \* games.player1Id and player2Id
  Piece,             \* indices of a player's pieces (0 .. 3)
  Index,             \* what makeMove takes for an index: those of pieces, and
                     \* what is below no bound and above none (undefined, NaN,
                     \* a fraction), which is the index of no piece
  Home,              \* the position from which a piece is home (57)
  Six,               \* the face that keeps the turn, and the highest (6)
  None               \* no winner

ASSUME PlayerAssumption == Player1 # Player2 /\ None \notin {Player1, Player2}
ASSUME HomeAssumption == Home \in Nat \ {0} /\ Six \in Nat \ {0}
ASSUME PieceAssumption == Piece # {} /\ Piece \subseteq Index

Player == {Player1, Player2}
Face   == 1 .. Six

Row == [ status : {"WAITING", "IN_PROGRESS", "COMPLETED", "CANCELLED"},
         winner : Player \cup {None},
         turn   : Player,
         pos    : [Player -> [Piece -> 0 .. Home]],
         dice   : 0 .. Six,
         away   : SUBSET Player ]    \* the keys of gameState.disconnects

AtStart == [p \in Player |-> [i \in Piece |-> 0]]

(* The row tryMatch creates.                                               *)
WaitingRow == [ status |-> "WAITING", winner |-> None, turn |-> Player1,
                pos |-> AtStart, dice |-> 0, away |-> {} ]

Other(u) == IF u = Player1 THEN Player2 ELSE Player1

AllHome(r, u) == \A i \in Piece : r.pos[u][i] = Home

-----------------------------------------------------------------------------
(* startGame.                                                              *)
CanStart(r) == r.status = "WAITING"

Started(r) == [r EXCEPT !.status = "IN_PROGRESS", !.turn = Player1,
                        !.pos = AtStart, !.dice = 0, !.away = {}]

(* rollDice: a player whose turn it is, whether or not he rolled before.   *)
CanRoll(r, u) == r.status = "IN_PROGRESS" /\ r.turn = u

(* Mutant of Rolled: the face is one too high.                             *)
RolledOneTooHigh(r, d) == [r EXCEPT !.dice = d + 1]

Rolled(r, d) == [r EXCEPT !.dice = d]

(* makeMove: the roll must be there; the piece may already be home.        *)
CanMove(r, u) == r.status = "IN_PROGRESS" /\ r.turn = u /\ r.dice # 0

Advance(x, d) == IF x + d >= Home THEN Home ELSE x + d

(* The pieces of u after the move: an index that is none of a piece moves  *)
(* none.                                                                   *)
Pushed(r, u, i) ==
  IF i \in Piece THEN [r EXCEPT !.pos[u][i] = Advance(@, r.dice)] ELSE r

(* Mutant of Moved: the turn passes before the winner is named.            *)
MovedNamesTheOther(r, u, i) ==
  LET n == Pushed(r, u, i) IN
    IF AllHome(n, u)
      THEN [n EXCEPT !.status = "COMPLETED", !.winner = Other(u)]
      ELSE [n EXCEPT !.turn = IF r.dice = Six THEN @ ELSE Other(@), !.dice = 0]

Moved(r, u, i) ==
  LET n == Pushed(r, u, i) IN
    IF AllHome(n, u)
      THEN [n EXCEPT !.status = "COMPLETED", !.winner = u]
      ELSE [n EXCEPT !.turn = IF r.dice = Six THEN @ ELSE Other(@), !.dice = 0]

(* handleDisconnect and handleReconnect.                                   *)
CanDisconnect(r) == r.status = "IN_PROGRESS"
Disconnected(r, u) == [r EXCEPT !.away = @ \cup {u}]
CanReconnect(r, u) == u \in r.away
Reconnected(r, u) == [r EXCEPT !.away = @ \ {u}]

-----------------------------------------------------------------------------
(* The rows one request may leave of row r.                                *)
Starts(r)  == {n \in {Started(r)} : CanStart(r)}
Rolls(r)   == {Rolled(r, d) : d \in {x \in Face : \E u \in Player : CanRoll(r, u)}}
Moves(r)   == UNION {{Moved(r, u, i) : i \in Index} : u \in {p \in Player : CanMove(r, p)}}
Leaves(r)  == {Disconnected(r, u) : u \in {p \in Player : CanDisconnect(r)}}
Returns(r) == {Reconnected(r, u) : u \in {p \in Player : CanReconnect(r, p)}}

Successors(r) == Starts(r) \cup Rolls(r) \cup Moves(r) \cup Leaves(r) \cup Returns(r)

VARIABLE row

RulesInit == row = WaitingRow

RulesNext == row' \in Successors(row)

RulesSpec == RulesInit /\ [][RulesNext]_row

=============================================================================
