--------------------------- MODULE PlatformProofs ---------------------------
(***************************************************************************)
(* What the queue, the game and the payout keep together, for every number *)
(* of users, joins and handlers: a stake comes back once at most, and      *)
(* money is conserved.  The argument joins the escrow of MatchmakingProofs *)
(* with what one settled or cancelled game does to its two stakes.         *)
(***************************************************************************)
EXTENDS Platform, MatchmakingProofs

Seats == {First, Second}

PlayState == {"idle", "select", "update", "settle", "read", "credit", "commit",
              "release1", "release2"}

-----------------------------------------------------------------------------
(* The game that is played.                                                *)

(* The types the argument needs.                                           *)
PlayTyped ==
  /\ row \in Play!Row
  /\ hpc \in [Handler -> PlayState]
  /\ mem \in [Handler -> Play!Row] /\ base \in [Handler -> Play!Row]
  /\ to \in [Handler -> Seats \cup {NoSeat}]
  /\ \A h \in Handler : hpc[h] = "credit" => to[h] \in Seats
  /\ paid \in [Seats -> Nat] /\ released \in [Seats -> Nat]

(* What a load may make of the status.                                     *)
Follows(n) ==
  /\ n \in Play!Row
  /\ row.status = "COMPLETED" => n.status = "COMPLETED"
  /\ row.status # "CANCELLED" => n.status # "CANCELLED"

Loads(h) ==
  /\ hpc[h] = "idle" /\ hpc' = [hpc EXCEPT ![h] = "select"]
  /\ \E n : Follows(n) /\ mem' = [mem EXCEPT ![h] = n]
  /\ UNCHANGED <<row, base>>

(* The rows of the operations are rows, and of the right status.           *)
LEMMA RowsOfOperations ==
  ASSUME row \in Play!Row, NEW u \in Seats
  PROVE  /\ Play!CanStart(row) => Follows(Play!Started(row))
         /\ \A d \in Play!Face : Follows(Play!Rolled(row, d))
         /\ \A i \in Index : row.status = "IN_PROGRESS" => Follows(Play!Moved(row, u, i))
         /\ Follows(Play!Disconnected(row, u))
         /\ Follows(Play!Reconnected(row, u))
         /\ Follows([row EXCEPT !.status = "COMPLETED", !.winner = u])
         /\ [row EXCEPT !.status = "CANCELLED"] \in Play!Row
<1> USE WayAssumption DEF Play!Player, Seats
<1>1. Play!AtStart \in [Seats -> [Piece -> 0 .. Home]] /\ 0 \in 0 .. Six
  BY DEF Play!AtStart
<1>2. Play!CanStart(row) => Follows(Play!Started(row))
  BY <1>1 DEF Play!Started, Play!CanStart, Play!Row, Follows
<1>3. ASSUME NEW d \in Play!Face
      PROVE  Follows(Play!Rolled(row, d))
  <2>1. d \in 0 .. Six
    BY DEF Play!Face
  <2> QED
    BY <2>1 DEF Play!Rolled, Play!Row, Follows
<1>4. ASSUME NEW i \in Index, row.status = "IN_PROGRESS"
      PROVE  Follows(Play!Moved(row, u, i))
  <2> DEFINE n == Play!Pushed(row, u, i)
  <2>1. ASSUME i \in Piece
        PROVE  n \in Play!Row /\ n.status = row.status
    <3>1. row.pos[u][i] \in 0 .. Home /\ row.dice \in 0 .. Six
      BY <2>1 DEF Play!Row
    <3>2. Play!Advance(row.pos[u][i], row.dice) \in 0 .. Home
      BY <3>1 DEF Play!Advance
    <3> QED
      BY <2>1, <3>2 DEF Play!Pushed, Play!Row
  <2>2. n \in Play!Row /\ n.status = row.status
    BY <2>1 DEF Play!Pushed, Play!Row
  <2> HIDE DEF n
  <2>3. \A v \in Seats : Play!Other(v) \in Seats
    BY DEF Play!Other
  <2>4. Follows([n EXCEPT !.status = "COMPLETED", !.winner = u])
    BY <1>4, <2>2 DEF Play!Row, Follows
  <2>5. Follows([n EXCEPT !.turn = IF row.dice = Six THEN @ ELSE Play!Other(@), !.dice = 0])
    BY <1>1, <1>4, <2>2, <2>3 DEF Play!Row, Follows
  <2> QED
    BY <2>4, <2>5 DEF Play!Moved, n
<1>5. Follows(Play!Disconnected(row, u)) /\ Follows(Play!Reconnected(row, u))
  BY DEF Play!Disconnected, Play!Reconnected, Play!Row, Follows
<1>6. /\ Follows([row EXCEPT !.status = "COMPLETED", !.winner = u])
      /\ [row EXCEPT !.status = "CANCELLED"] \in Play!Row
  BY DEF Play!Row, Follows
<1> QED
  BY <1>2, <1>3, <1>4, <1>5, <1>6

(* A message loads, or it is at its save.                                  *)
LEMMA MessageIs ==
  ASSUME PlayTyped, NEW h \in Handler,
         Play!Message(h) \/ \E w \in Play!Player : Play!ValidateLoad(h, w)
  PROVE  Loads(h) \/ Play!Select(h) \/ Play!Save(h) \/ Play!SaveFails(h)
<1>1. ASSUME NEW op, NEW u, NEW n, Follows(n), Play!Load(h, op, u, n)
      PROVE  Loads(h)
  BY <1>1 DEF Play!Load, Loads
<1>0. row \in Play!Row /\ Play!Player = Seats /\ \E u \in Seats : TRUE
  BY DEF PlayTyped, Play!Player, Seats
<1>2. CASE Play!LoadStart(h)
  BY <1>0, <1>1, <1>2, RowsOfOperations DEF Play!LoadStart
<1>3. ASSUME NEW u \in Play!Player, NEW d \in Play!Face, Play!LoadRoll(h, u, d)
      PROVE  Loads(h)
  BY <1>0, <1>1, <1>3, RowsOfOperations DEF Play!LoadRoll
<1>4. ASSUME NEW u \in Play!Player, NEW i \in Index, Play!LoadMove(h, u, i)
      PROVE  Loads(h)
  BY <1>0, <1>1, <1>4, RowsOfOperations DEF Play!LoadMove, Play!CanMove
<1>5. ASSUME NEW u \in Play!Player, Play!LoadDisconnect(h, u) \/ Play!LoadReconnect(h, u)
      PROVE  Loads(h)
  BY <1>0, <1>1, <1>5, RowsOfOperations DEF Play!LoadDisconnect, Play!LoadReconnect
<1>6. ASSUME NEW w \in Play!Player, Play!ValidateLoad(h, w)
      PROVE  Loads(h)
  <2>1. Follows([row EXCEPT !.status = "COMPLETED", !.winner = w])
    BY <1>0, RowsOfOperations
  <2> QED
    BY <1>1, <1>6, <2>1 DEF Play!ValidateLoad
<1> QED
  BY <1>2, <1>3, <1>4, <1>5, <1>6 DEF Play!Message

(* Every step of a request keeps the types.                                *)
LEMMA PlayTypesKept ==
  ASSUME PlayTyped, Play!Next
  PROVE  PlayTyped'
<1> USE DEF PlayTyped, PlayState
<1>0. Play!WaitingRow \in Play!Row /\ Seats # {} /\ Play!Player = Seats
  BY WayAssumption DEF Play!WaitingRow, Play!Row, Play!AtStart, Play!Player, Seats
<1>1. ASSUME NEW h \in Handler,
             Play!PlayerMessage(h) \/ \E w \in Play!Player : Play!ValidateLoad(h, w)
      PROVE  PlayTyped'
  <2>1. UNCHANGED <<to, paid, released>>
    BY <1>1 DEF Play!PlayerMessage, Play!ValidateLoad, Play!moneyVars
  <2>2. Loads(h) \/ Play!Select(h) \/ Play!Save(h) \/ Play!SaveFails(h)
    BY <1>1, MessageIs DEF Play!PlayerMessage
  <2>3. CASE Loads(h)
    BY <2>1, <2>3 DEF Loads, Follows
  <2>4. CASE Play!Select(h)
    BY <2>1, <2>4 DEF Play!Select
  <2>5. CASE Play!Save(h)
    <3>1. row' \in Play!Row
      BY <2>5 DEF Play!Save, Play!Write, Play!Updated, Play!Row
    <3> QED
      BY <1>0, <2>1, <2>5, <3>1 DEF Play!Save, Play!Write, Play!Forget
  <2>6. CASE Play!SaveFails(h)
    BY <1>0, <2>1, <2>6 DEF Play!SaveFails, Play!Forget
  <2> QED
    BY <2>2, <2>3, <2>4, <2>5, <2>6
<1>2. ASSUME NEW h \in Handler,
             Play!SettleCheck(h) \/ Play!SettleRead(h) \/ Play!Commit(h) \/ Play!SettleFails(h)
      PROVE  PlayTyped'
  <2>1. UNCHANGED <<row, mem, base, paid, released>>
    BY <1>2 DEF Play!SettleCheck, Play!SettleRead, Play!Commit, Play!SettleFails,
                Play!rowVars, Play!settleVars, Play!moneyVars
  <2>2. CASE Play!SettleCheck(h)
    BY <2>1, <2>2 DEF Play!SettleCheck, Play!Goto, Play!settleVars
  <2>3. CASE Play!SettleRead(h)
    BY <1>0, <2>1, <2>3 DEF Play!SettleRead, Play!Goto
  <2>4. CASE Play!Commit(h) \/ Play!SettleFails(h)
    BY <2>1, <2>4 DEF Play!Commit, Play!SettleFails, Play!Goto
  <2> QED
    BY <1>2, <2>2, <2>3, <2>4
<1>3. ASSUME NEW h \in Handler, Play!Credit(h)
      PROVE  PlayTyped'
  BY <1>3 DEF Play!Credit, Play!Goto, Play!rowVars
<1>4. ASSUME NEW h \in Handler, Play!CancelLoad(h)
      PROVE  PlayTyped'
  <2>1. [row EXCEPT !.status = "CANCELLED"] \in Play!Row
    BY <1>0, RowsOfOperations
  <2> QED
    BY <1>4, <2>1 DEF Play!CancelLoad, Play!Goto, Play!settleVars, Play!moneyVars
<1>5. ASSUME NEW h \in Handler, Play!Release1(h) \/ Play!Release2(h)
      PROVE  PlayTyped'
  BY <1>5 DEF Play!Release1, Play!Release2, Play!ReleaseTo, Play!Goto, Play!rowVars, Seats
<1>6. ASSUME NEW h \in Handler, Play!CancelFails(h)
      PROVE  PlayTyped'
  BY <1>0, <1>6 DEF Play!CancelFails, Play!Goto, Play!Forget, Play!moneyVars
<1>7. CASE Play!Crash
  BY <1>0, <1>7 DEF Play!Crash, Play!moneyVars
<1> QED
  BY <1>1, <1>2, <1>3, <1>4, <1>5, <1>6, <1>7 DEF Play!Next

-----------------------------------------------------------------------------
(* One request at a time, and no cancelled game taken up again.            *)

Busy(h) == hpc[h] # "idle"

Alone == \A g, h \in Handler : Busy(g) /\ Busy(h) => g = h

NoneReleased == released[First] = 0 /\ released[Second] = 0
AllReleased  == released[First] = 1 /\ released[Second] = 1

Undecided == row.status \notin {"COMPLETED", "CANCELLED"} /\ Play!TimesPaid = 0

(* What is refunded while handler h is at its step.                        *)
Standing(h) ==
  /\ hpc[h] = "release1" => /\ mem[h].status = "CANCELLED"
                            /\ NoneReleased /\ Undecided
  /\ hpc[h] = "release2" => /\ mem[h].status = "CANCELLED"
                            /\ released[First] = 1 /\ released[Second] = 0 /\ Undecided
  /\ hpc[h] \in {"select", "update"} =>
       IF mem[h].status = "CANCELLED" THEN AllReleased /\ Undecided
       ELSE /\ NoneReleased /\ row.status # "CANCELLED"
            /\ row.status = "COMPLETED" => mem[h].status = "COMPLETED"
  /\ hpc[h] \in {"settle", "read", "credit", "commit"} =>
       NoneReleased /\ row.status = "COMPLETED"
  /\ hpc[h] = "update" => base[h] = row

(* What is refunded between two requests.                                  *)
Rest == IF row.status = "CANCELLED" THEN AllReleased /\ Play!TimesPaid = 0
                                    ELSE NoneReleased

OneRequest ==
  /\ Alone
  /\ \A h \in Handler : Standing(h)
  /\ (\A h \in Handler : ~Busy(h)) => Rest
  /\ Play!TimesPaid > 0 => row.status = "COMPLETED"

(* What settleGame remembers is what was paid.                             *)
PaidIsKnown ==
  /\ Play!TimesPaid <= 1
  /\ Play!TimesPaid > 0 => settled \/ \E h \in Handler : hpc[h] = "commit"
  /\ \A h \in Handler : hpc[h] \in {"read", "credit"} => Play!TimesPaid = 0

PlayInv ==
  /\ PlayTyped
  /\ ~spoiled => OneRequest
  /\ ~spoiled /\ ~overlapped => PaidIsKnown

(* Handler h takes a step to step s, and the others do nothing.            *)
Moves(h, s) ==
  /\ hpc' = [hpc EXCEPT ![h] = s]
  /\ Busy(h) \/ s # "idle"

(* While no two requests overlap, it is enough to look at the one that     *)
(* goes on.                                                                *)
LEMMA OneRequestKept ==
  ASSUME PlayTyped, OneRequest, NEW h \in Handler, NEW s, Moves(h, s), ~Spoils,
         Standing(h)', s = "idle" => Rest', Play!TimesPaid' > 0 => row'.status = "COMPLETED"
  PROVE  OneRequest'
<1>1. hpc'[h] = s /\ \A g \in Handler \ {h} : hpc'[g] = hpc[g]
  BY DEF Moves, PlayTyped
<1>2. Alone'
  BY DEF Spoils, Alone, Busy
<1>3. \A g \in Handler \ {h} : hpc'[g] = "idle"
  BY <1>1, <1>2 DEF Alone, OneRequest, Moves, Busy
<1>4. \A g \in Handler : Standing(g)'
  BY <1>3 DEF Standing
<1>5. (\A g \in Handler : ~Busy(g)') => Rest'
  BY <1>1 DEF Busy
<1> QED
  BY <1>2, <1>4, <1>5 DEF OneRequest

(* A handler that begins finds the game at rest, and not cancelled.        *)
LEMMA BeginsAtRest ==
  ASSUME PlayTyped, OneRequest, NEW h \in Handler, NEW s, Moves(h, s), ~Spoils,
         hpc[h] = "idle"
  PROVE  NoneReleased /\ row.status # "CANCELLED"
<1>1. hpc'[h] = s /\ s # "idle" /\ \A g \in Handler \ {h} : hpc'[g] = hpc[g]
  BY DEF Moves, PlayTyped, Busy
<1>2. row.status # "CANCELLED"
  BY <1>1 DEF Spoils
<1>3. \A g \in Handler : ~Busy(g)
  BY <1>1 DEF Spoils, Busy
<1> QED
  BY <1>2, <1>3 DEF OneRequest, Rest

(* The number of payments is a number.                                     *)
LEMMA PlayPaidNat == PlayTyped => Play!TimesPaid \in Nat
BY DEF PlayTyped, Play!TimesPaid, Seats

(* A message keeps what is refunded and paid.                              *)
LEMMA MessageAlone ==
  ASSUME PlayTyped, OneRequest, ~Spoils, NEW h \in Handler,
         Play!PlayerMessage(h) \/ \E w \in Play!Player : Play!ValidateLoad(h, w)
  PROVE  OneRequest'
<1>1. UNCHANGED <<settled, paid, released>> /\ UNCHANGED Play!TimesPaid
  BY DEF Play!PlayerMessage, Play!ValidateLoad, Play!moneyVars, Play!TimesPaid
<1>2. UNCHANGED <<NoneReleased, AllReleased>>
  BY <1>1 DEF NoneReleased, AllReleased
<1>3. Loads(h) \/ Play!Select(h) \/ Play!Save(h) \/ Play!SaveFails(h)
  BY MessageIs DEF Play!PlayerMessage
<1>4. Standing(h) /\ Play!TimesPaid \in Nat
  BY PlayPaidNat DEF OneRequest
<1>5. CASE Loads(h)
  <2>1. PICK n : Follows(n) /\ mem' = [mem EXCEPT ![h] = n]
    BY <1>5 DEF Loads
  <2>2. /\ Moves(h, "select") /\ hpc'[h] = "select" /\ mem'[h] = n
        /\ UNCHANGED row /\ hpc[h] = "idle"
    BY <1>5, <2>1 DEF Moves, Loads, PlayTyped
  <2>3. NoneReleased /\ row.status # "CANCELLED"
    BY <2>2, BeginsAtRest
  <2>4. Standing(h)'
    BY <1>2, <2>1, <2>2, <2>3 DEF Standing, Follows
  <2> QED
    BY <1>1, <2>2, <2>4, OneRequestKept DEF OneRequest
<1>6. CASE Play!Select(h)
  <2>1. /\ Moves(h, "update") /\ hpc'[h] = "update" /\ base'[h] = row
        /\ UNCHANGED <<row, mem>> /\ hpc[h] = "select"
    BY <1>6 DEF Moves, Play!Select, PlayTyped, Busy
  <2>2. Standing(h)'
    BY <1>1, <1>2, <1>4, <2>1 DEF Standing, Undecided
  <2> QED
    BY <1>1, <2>1, <2>2, OneRequestKept DEF OneRequest
<1>7. CASE Play!Save(h)
  <2>1. hpc[h] = "update" /\ base[h] = row
    BY <1>4, <1>7 DEF Play!Save, Standing
  <2>2. row'.status = mem[h].status
    BY <1>7, <2>1 DEF Play!Save, Play!Write, Play!Updated
  <2>3. PICK s \in {"settle", "idle"} :
          hpc' = [hpc EXCEPT ![h] = s] /\ (s = "settle" => mem[h].status = "COMPLETED")
    BY <1>7 DEF Play!Save
  <2>4. Moves(h, s) /\ hpc'[h] = s
    BY <2>1, <2>3 DEF Moves, Busy, PlayTyped
  <2>5. IF mem[h].status = "CANCELLED" THEN AllReleased /\ Undecided
        ELSE /\ NoneReleased /\ row.status # "CANCELLED"
             /\ row.status = "COMPLETED" => mem[h].status = "COMPLETED"
    BY <1>4, <2>1 DEF Standing
  <2>6. Standing(h)'
    BY <1>2, <2>2, <2>3, <2>4, <2>5 DEF Standing
  <2>7. Rest'
    BY <1>1, <1>2, <2>2, <2>5 DEF Rest, Undecided
  <2>8. Play!TimesPaid' > 0 => row'.status = "COMPLETED"
    BY <1>1, <1>4, <2>2, <2>5 DEF OneRequest, Undecided
  <2> QED
    BY <2>4, <2>6, <2>7, <2>8, OneRequestKept
<1>8. CASE Play!SaveFails(h)
  <2>1. /\ Moves(h, "idle") /\ hpc'[h] = "idle" /\ hpc[h] \in {"select", "update"}
        /\ UNCHANGED row
    BY <1>8 DEF Moves, Play!SaveFails, PlayTyped, Busy
  <2>2. mem[h].status # "CANCELLED"
    BY <1>4, <2>1 DEF Standing, Undecided, Spoils
  <2>3. Rest'
    BY <1>2, <1>4, <2>1, <2>2 DEF Standing, Rest
  <2>4. Standing(h)'
    BY <2>1 DEF Standing
  <2> QED
    BY <1>1, <2>1, <2>3, <2>4, OneRequestKept DEF OneRequest
<1> QED
  BY <1>3, <1>5, <1>6, <1>7, <1>8

(* settleGame pays for a completed game of which nothing was refunded.     *)
LEMMA SettleAlone ==
  ASSUME PlayTyped, OneRequest, ~Spoils, NEW h \in Handler,
         \/ Play!SettleCheck(h) \/ Play!SettleRead(h) \/ Play!Credit(h)
         \/ Play!Commit(h) \/ Play!SettleFails(h)
  PROVE  OneRequest'
<1>1. /\ hpc[h] \in {"settle", "read", "credit", "commit"}
      /\ UNCHANGED <<row, mem, base, released>>
  BY DEF Play!SettleCheck, Play!SettleRead, Play!Credit, Play!Commit, Play!SettleFails,
         Play!rowVars, Play!settleVars, Play!moneyVars
<1>2. PICK s \in {"idle", "read", "credit", "commit"} : hpc' = [hpc EXCEPT ![h] = s]
  BY DEF Play!SettleCheck, Play!SettleRead, Play!Credit, Play!Commit, Play!SettleFails,
         Play!Goto
<1>3. Moves(h, s) /\ hpc'[h] = s
  BY <1>1, <1>2 DEF Moves, Busy, PlayTyped
<1>4. NoneReleased /\ row.status = "COMPLETED" /\ NoneReleased'
  BY <1>1 DEF OneRequest, Standing, NoneReleased
<1>5. Standing(h)' /\ Rest' /\ row'.status = "COMPLETED"
  BY <1>1, <1>3, <1>4 DEF Standing, Rest
<1> QED
  BY <1>3, <1>5, OneRequestKept

(* A cancellation refunds a game that was not decided.                     *)
LEMMA CancelAlone ==
  ASSUME PlayTyped, OneRequest, ~Spoils, NEW h \in Handler,
         \/ Play!CancelLoad(h) \/ Play!Release1(h) \/ Play!Release2(h)
         \/ Play!CancelFails(h)
  PROVE  OneRequest'
<1>1. UNCHANGED <<row, paid>> /\ UNCHANGED Play!TimesPaid
  BY DEF Play!CancelLoad, Play!Release1, Play!Release2, Play!ReleaseTo, Play!CancelFails,
         Play!rowVars, Play!settleVars, Play!moneyVars, Play!TimesPaid
<1>2. Standing(h) /\ Play!TimesPaid \in Nat
  BY PlayPaidNat DEF OneRequest
<1>3. CASE Play!CancelLoad(h)
  <2>1. /\ Moves(h, "release1") /\ hpc[h] = "idle" /\ hpc'[h] = "release1"
        /\ UNCHANGED released /\ row.status # "COMPLETED"
    BY <1>3 DEF Moves, Play!CancelLoad, Play!Goto, Play!settleVars, Play!moneyVars, PlayTyped
  <2>2. mem'[h].status = "CANCELLED"
    BY <1>3 DEF Play!CancelLoad, PlayTyped, Play!Row
  <2>3. NoneReleased /\ row.status # "CANCELLED"
    BY <2>1, BeginsAtRest
  <2>4. Play!TimesPaid = 0
    BY <1>2, <2>1 DEF OneRequest
  <2>5. Standing(h)'
    BY <1>1, <2>1, <2>2, <2>3, <2>4 DEF Standing, Undecided, NoneReleased
  <2> QED
    BY <1>1, <2>1, <2>5, OneRequestKept DEF OneRequest
<1>4. CASE Play!Release1(h)
  <2>1. /\ Moves(h, "release2") /\ hpc[h] = "release1" /\ hpc'[h] = "release2"
        /\ UNCHANGED mem /\ released' = [released EXCEPT ![First] = @ + 1]
    BY <1>4 DEF Moves, Play!Release1, Play!ReleaseTo, Play!Goto, Play!rowVars, PlayTyped, Busy
  <2>2. released'[First] = 1 /\ released'[Second] = 0
    BY <1>2, <2>1, SeatAssumption DEF Standing, NoneReleased, PlayTyped, Seats
  <2>3. Standing(h)'
    BY <1>1, <1>2, <2>1, <2>2 DEF Standing, Undecided
  <2> QED
    BY <1>1, <2>1, <2>3, OneRequestKept DEF OneRequest
<1>5. CASE Play!Release2(h)
  <2>1. /\ Moves(h, "select") /\ hpc[h] = "release2" /\ hpc'[h] = "select"
        /\ UNCHANGED mem /\ released' = [released EXCEPT ![Second] = @ + 1]
    BY <1>5 DEF Moves, Play!Release2, Play!ReleaseTo, Play!Goto, Play!rowVars, PlayTyped, Busy
  <2>2. AllReleased'
    BY <1>2, <2>1, SeatAssumption DEF Standing, AllReleased, PlayTyped, Seats
  <2>3. Standing(h)'
    BY <1>1, <1>2, <2>1, <2>2 DEF Standing, Undecided
  <2> QED
    BY <1>1, <2>1, <2>3, OneRequestKept DEF OneRequest
<1>6. CASE Play!CancelFails(h)
  <2>1. /\ Moves(h, "idle") /\ hpc[h] \in {"release1", "release2"} /\ hpc'[h] = "idle"
        /\ UNCHANGED released
    BY <1>6 DEF Moves, Play!CancelFails, Play!Goto, Play!moneyVars, PlayTyped, Busy
  <2>2. hpc[h] # "release2"
    BY <1>1, <1>2, <2>1 DEF Standing, Undecided, Spoils
  <2>3. Rest' /\ Standing(h)'
    BY <1>1, <1>2, <2>1, <2>2 DEF Standing, Rest, NoneReleased, Undecided
  <2> QED
    BY <1>1, <2>1, <2>3, OneRequestKept DEF OneRequest
<1> QED
  BY <1>3, <1>4, <1>5, <1>6

(* A crash finds the one request where stopping it leaves no half refund.  *)
LEMMA CrashAlone ==
  ASSUME PlayTyped, OneRequest, ~Spoils, Play!Crash
  PROVE  OneRequest'
<1>1. /\ UNCHANGED <<row, paid, released>> /\ UNCHANGED Play!TimesPaid
      /\ \A h \in Handler : hpc'[h] = "idle"
  BY DEF Play!Crash, Play!moneyVars, Play!TimesPaid
<1>2. Rest
  <2>1. ASSUME NEW h \in Handler, Busy(h)
        PROVE  Rest
    <3>1. /\ Standing(h) /\ hpc[h] \in PlayState
          /\ ~(mem[h].status = "CANCELLED" /\ row.status # "CANCELLED"
               /\ hpc[h] \in {"release2", "select", "update"})
      BY <1>1 DEF OneRequest, Spoils, PlayTyped
    <3> QED
      BY <2>1, <3>1 DEF Standing, Rest, Undecided, PlayState, Busy
  <2> QED
    BY <2>1 DEF OneRequest
<1>3. UNCHANGED Rest
  BY <1>1 DEF Rest, AllReleased, NoneReleased
<1> QED
  BY <1>1, <1>2, <1>3 DEF OneRequest, Alone, Busy, Standing

(* Every step of a request keeps it.                                       *)
LEMMA OneRequestStep ==
  ASSUME PlayTyped, OneRequest, ~Spoils, Play!Next
  PROVE  OneRequest'
BY MessageAlone, SettleAlone, CancelAlone, CrashAlone DEF Play!Next

-----------------------------------------------------------------------------
(* A payment is remembered, or about to be.                                *)
LEMMA PaidIsKnownStep ==
  ASSUME PlayTyped, OneRequest, OneRequest', PaidIsKnown, ~overlapped', Play!Next
  PROVE  PaidIsKnown'
<1> USE DEF PaidIsKnown
<1>0. Play!TimesPaid \in Nat
  BY PlayPaidNat
<1>1. ASSUME NEW h \in Handler,
             \/ Play!PlayerMessage(h) \/ \E w \in Play!Player : Play!ValidateLoad(h, w)
             \/ Play!CancelLoad(h) \/ Play!Release1(h) \/ Play!Release2(h)
             \/ Play!CancelFails(h)
      PROVE  PaidIsKnown'
  <2>1. UNCHANGED <<settled, paid>> /\ UNCHANGED Play!TimesPaid
    BY <1>1 DEF Play!PlayerMessage, Play!ValidateLoad, Play!CancelLoad, Play!Release1,
                Play!Release2, Play!ReleaseTo, Play!CancelFails, Play!settleVars,
                Play!moneyVars, Play!TimesPaid
  <2>2. /\ hpc[h] \in {"idle", "select", "update", "release1", "release2"}
        /\ \E s \in {"idle", "select", "update", "settle", "release1", "release2"} :
             hpc' = [hpc EXCEPT ![h] = s]
    BY <1>1, MessageIs DEF Play!PlayerMessage, Loads, Play!Select, Play!Save,
       Play!SaveFails, Play!CancelLoad, Play!Release1, Play!Release2, Play!ReleaseTo,
       Play!CancelFails, Play!Goto
  <2>3. \A g \in Handler : /\ hpc[g] = "commit" => hpc'[g] = "commit"
                           /\ hpc'[g] \in {"read", "credit"} => hpc'[g] = hpc[g]
    BY <2>2 DEF PlayTyped
  <2> QED
    BY <2>1, <2>3
<1>2. ASSUME NEW h \in Handler, Play!SettleCheck(h)
      PROVE  PaidIsKnown'
  <2>1. /\ UNCHANGED <<settled, paid>> /\ UNCHANGED Play!TimesPaid /\ hpc[h] = "settle"
        /\ hpc' = [hpc EXCEPT ![h] = IF settled THEN "idle" ELSE "read"]
    BY <1>2 DEF Play!SettleCheck, Play!Goto, Play!settleVars, Play!moneyVars, Play!TimesPaid
  <2>2. \A g \in Handler \ {h} : hpc[g] = "idle" /\ hpc'[g] = "idle"
    BY <2>1 DEF OneRequest, Alone, Busy, PlayTyped
  <2>3. Play!TimesPaid > 0 => settled
    BY <2>1, <2>2
  <2>4. hpc'[h] = IF settled THEN "idle" ELSE "read"
    BY <2>1 DEF PlayTyped
  <2> QED
    BY <1>0, <2>1, <2>2, <2>3, <2>4
<1>3. ASSUME NEW h \in Handler, Play!SettleRead(h)
      PROVE  PaidIsKnown'
  <2>1. /\ UNCHANGED <<settled, paid>> /\ UNCHANGED Play!TimesPaid /\ hpc[h] = "read"
        /\ \E s \in {"idle", "credit"} : hpc' = [hpc EXCEPT ![h] = s]
    BY <1>3 DEF Play!SettleRead, Play!Goto, Play!moneyVars, Play!TimesPaid
  <2> QED
    BY <1>0, <2>1 DEF PlayTyped
<1>4. ASSUME NEW h \in Handler, Play!Credit(h)
      PROVE  PaidIsKnown'
  <2>1. /\ UNCHANGED settled /\ hpc[h] = "credit" /\ hpc' = [hpc EXCEPT ![h] = "commit"]
        /\ to[h] \in Seats /\ paid' = [paid EXCEPT ![to[h]] = @ + 1]
    BY <1>4 DEF Play!Credit, Play!Goto, PlayTyped
  <2>2. paid[First] = 0 /\ paid[Second] = 0
    BY <2>1 DEF PlayTyped, Play!TimesPaid, Seats
  <2>3. Play!TimesPaid' = 1
    BY <2>1, <2>2, SeatAssumption DEF Play!TimesPaid, PlayTyped, Seats
  <2>4. /\ hpc'[h] = "commit" /\ \A g \in Handler \ {h} : hpc'[g] = "idle"
    BY <2>1 DEF OneRequest, Alone, Busy, PlayTyped
  <2> QED
    BY <2>3, <2>4
<1>5. ASSUME NEW h \in Handler, Play!Commit(h)
      PROVE  PaidIsKnown'
  <2>1. /\ settled' /\ UNCHANGED Play!TimesPaid /\ hpc' = [hpc EXCEPT ![h] = "idle"]
    BY <1>5 DEF Play!Commit, Play!Goto, Play!moneyVars, Play!TimesPaid
  <2> QED
    BY <1>0, <2>1 DEF PlayTyped
<1>6. ASSUME NEW h \in Handler, Play!SettleFails(h)
      PROVE  PaidIsKnown'
  <2>1. /\ UNCHANGED settled /\ UNCHANGED Play!TimesPaid /\ hpc' = [hpc EXCEPT ![h] = "idle"]
        /\ hpc[h] # "commit"
    BY <1>6 DEF Play!SettleFails, Play!Goto, Play!moneyVars, Play!TimesPaid
  <2> QED
    BY <1>0, <2>1 DEF PlayTyped
<1>7. CASE Play!Crash
  <2>1. /\ UNCHANGED Play!TimesPaid /\ \A h \in Handler : hpc'[h] = "idle"
        /\ ~settled /\ \A h \in Handler : hpc[h] # "commit"
    BY <1>7 DEF Play!Crash, Play!moneyVars, Play!TimesPaid
  <2> QED
    BY <1>0, <2>1
<1> QED
  BY <1>1, <1>2, <1>3, <1>4, <1>5, <1>6, <1>7 DEF Play!Next

(* What two requests did at once is not forgotten.                         *)
LEMMA OverlapsAreKept ==
  ASSUME Play!Next, overlapped
  PROVE  overlapped'
<1>1. ASSUME NEW h \in Handler,
             \/ Play!PlayerMessage(h) \/ \E w \in Play!Player : Play!ValidateLoad(h, w)
             \/ Play!CancelLoad(h) \/ Play!Release1(h) \/ Play!Release2(h)
             \/ Play!CancelFails(h)
      PROVE  overlapped'
  BY <1>1 DEF Play!PlayerMessage, Play!ValidateLoad, Play!CancelLoad, Play!Release1,
              Play!Release2, Play!ReleaseTo, Play!CancelFails, Play!Track, Play!settleVars
<1>2. ASSUME NEW h \in Handler,
             \/ Play!SettleCheck(h) \/ Play!SettleRead(h) \/ Play!Credit(h)
             \/ Play!Commit(h) \/ Play!SettleFails(h)
      PROVE  overlapped'
  BY <1>2 DEF Play!SettleCheck, Play!SettleRead, Play!Credit, Play!Commit,
              Play!SettleFails, Play!settleVars
<1>3. CASE Play!Crash
  BY <1>3 DEF Play!Crash
<1> QED
  BY <1>1, <1>2, <1>3 DEF Play!Next

LEMMA PlayInvInit == Play!Init /\ spoiled = FALSE => PlayInv /\ NoneReleased /\ Play!TimesPaid = 0
<1> SUFFICES ASSUME Play!Init, spoiled = FALSE
             PROVE  PlayInv /\ NoneReleased /\ Play!TimesPaid = 0
  OBVIOUS
<1>1. Play!WaitingRow \in Play!Row /\ Play!WaitingRow.status = "WAITING"
  BY WayAssumption DEF Play!WaitingRow, Play!Row, Play!AtStart, Play!Player
<1>2. /\ \A h \in Handler : hpc[h] = "idle"
      /\ row = Play!WaitingRow /\ paid[First] = 0 /\ paid[Second] = 0 /\ NoneReleased
  BY DEF Play!Init, Play!GameInit, Play!Player, NoneReleased
<1>3. PlayTyped
  BY <1>1, <1>2 DEF Play!Init, Play!GameInit, Play!Player, PlayTyped, PlayState, Seats
<1>4. Play!TimesPaid = 0
  BY <1>2 DEF Play!TimesPaid
<1>5. OneRequest
  BY <1>1, <1>2, <1>4 DEF OneRequest, Alone, Busy, Standing, Rest
<1>6. PaidIsKnown
  BY <1>2, <1>4 DEF PaidIsKnown
<1> QED
  BY <1>2, <1>3, <1>4, <1>5, <1>6 DEF PlayInv

LEMMA PlayInvKept ==
  ASSUME PlayInv, Play!Next, spoiled' = (spoiled \/ Spoils)
  PROVE  PlayInv'
<1>1. PlayTyped'
  BY PlayTypesKept DEF PlayInv
<1>2. ASSUME ~spoiled'
      PROVE  ~spoiled /\ OneRequest /\ OneRequest'
  BY <1>2, OneRequestStep DEF PlayInv
<1>3. ASSUME ~spoiled', ~overlapped'
      PROVE  PaidIsKnown'
  BY <1>2, <1>3, OverlapsAreKept, PaidIsKnownStep DEF PlayInv
<1> QED
  BY <1>1, <1>2, <1>3 DEF PlayInv

(* A game that was paid for was not refunded, and each seat is refunded    *)
(* once at most.                                                           *)
LEMMA ComesBackOnce ==
  ASSUME PlayInv, ~spoiled, ~overlapped, NEW seat \in Seats
  PROVE  /\ released[seat] \in {0, 1} /\ Play!TimesPaid \in {0, 1}
         /\ Play!TimesPaid + released[seat] <= 1
         /\ Play!TimesPaid > 0 => NoneReleased
<1>1. PlayTyped /\ OneRequest /\ PaidIsKnown /\ Play!TimesPaid \in Nat
  BY PlayPaidNat DEF PlayInv
<1>2. \/ NoneReleased
      \/ AllReleased /\ Play!TimesPaid = 0
      \/ released[First] = 1 /\ released[Second] = 0 /\ Play!TimesPaid = 0
  <2>1. ASSUME NEW h \in Handler, Busy(h)
        PROVE  \/ NoneReleased
               \/ AllReleased /\ Play!TimesPaid = 0
               \/ released[First] = 1 /\ released[Second] = 0 /\ Play!TimesPaid = 0
    <3>1. Standing(h) /\ hpc[h] \in PlayState
      BY <1>1 DEF OneRequest, PlayTyped
    <3> QED
      BY <2>1, <3>1 DEF Standing, Undecided, PlayState, Busy
  <2> QED
    BY <1>1, <2>1 DEF OneRequest, Rest
<1> QED
  BY <1>1, <1>2 DEF NoneReleased, AllReleased, PaidIsKnown, Seats

-----------------------------------------------------------------------------
(* The queue and the game together.                                        *)

TableInv ==
  IF table = None THEN NoneReleased /\ Play!TimesPaid = 0
                  ELSE table \in Ticket /\ game[table] # <<>>

PlatformInv == TypeOK /\ Shape /\ EscrowInv /\ PlayInv /\ TableInv

(* The game of a match has two entries at its own stake, and users who     *)
(* made them.                                                              *)
LEMMA SeatsAreTaken ==
  ASSUME TypeOK, Shape, NEW j \in Ticket, game[j] # <<>>
  PROVE  /\ game[j] = <<game[j][1], game[j][2]>>
         /\ game[j][1] \in Ticket /\ game[j][2] \in Ticket /\ game[j][1] # game[j][2]
         /\ stake[game[j][1]] = stake[j] /\ stake[game[j][2]] = stake[j]
         /\ who[game[j][1]] \in User /\ who[game[j][2]] \in User
         /\ stake[j] \in Stake /\ stake[j] \in Nat /\ Commission[stake[j]] \in Nat
         /\ 2 * stake[j] - Commission[stake[j]] \in Nat
<1>1. game[j] \in Ticket \X Ticket
  BY DEF TypeOK
<1>2. /\ \A i \in {1, 2} : game[j][i] \in staked /\ stake[game[j][i]] = stake[j]
      /\ game[j][1] # game[j][2]
  BY DEF Shape, GameShape, Pushed
<1>3. \A t \in staked : t \in Ticket /\ who[t] \in User /\ stake[t] \in Stake
  BY DEF Shape, HandShape, TicketShape, Started, TypeOK
<1>4. stake[j] \in Stake
  BY <1>2, <1>3
<1>5. /\ stake[j] \in Nat /\ Commission[stake[j]] \in Nat
      /\ Commission[stake[j]] < 2 * stake[j]
  BY <1>4, StakeAssumption, CommissionAssumption
<1>6. 2 * stake[j] - Commission[stake[j]] \in Nat
  BY <1>5
<1> QED
  BY <1>1, <1>2, <1>3, <1>4, <1>5, <1>6

(* A row booked by settlement keeps the ledger typed.                      *)
LEMMA BookedTyped ==
  ASSUME TypeOK, Shape, TableInv, table # None, Booked
  PROVE  acc' \in [User -> Account]
<1>1. /\ Prize \in Nat /\ stake[table] \in Nat
      /\ \A seat \in Seats : Seated(seat) \in User
  BY SeatsAreTaken DEF TableInv, Prize, Seated
<1>2. \A u \in User : acc[u] \in Account
  BY DEF TypeOK
<1>3. ASSUME NEW seat \in Seats, NEW type \in TransactionType, NEW n \in Nat,
             acc' = [acc EXCEPT ![Seated(seat)] = AddRow(@, type, n)]
      PROVE  acc' \in [User -> Account]
  <2>1. AddRow(acc[Seated(seat)], type, n) \in Account
    BY <1>1, <1>2, RowsAdded
  <2> QED
    BY <1>1, <1>3, <2>1 DEF TypeOK
<1>4. "WIN_CREDIT" \in TransactionType /\ "BET_RELEASE" \in TransactionType
  BY DEF TransactionType, CreditType
<1> QED
  BY <1>1, <1>3, <1>4 DEF Booked, Seats, TypeOK

(* A step that leaves the lobby alone keeps what is known of it.           *)
LEMMA LobbyAside ==
  ASSUME TypeOK, Shape, EscrowInv, UNCHANGED lobbyVars, acc' \in [User -> Account]
  PROVE  TypeOK' /\ Shape' /\ EscrowInv'
<1> USE DEF lobbyVars, redisVars, joinVars, cancelVars, sweepVars
<1>1. TypeOK'
  BY DEF TypeOK
<1>2. HandShape'
  BY DEF Shape, HandShape, TicketShape, PairShape, CancelShape, CancelFits, SweepShape,
         SweepFits, Started, Pushed
<1>3. QueueShape' /\ KeyShape' /\ GameShape' /\ HistoryShape'
  BY DEF Shape, QueueShape, KeyShape, GameShape, HistoryShape, Pushed
<1>4. \A h \in Call : Untouched(h)
  BY Bystanders DEF Call
<1>5. \A t \in Ticket : Uses(t)' = Uses(t) /\ (Queued(t)' <=> Queued(t))
  BY DEF Uses, GamesOf, ToSet, Queued, Contains
<1>6. ASSUME NEW t \in Ticket \ disturbed
      PROVE  Sole(t)' /\ Once(t)'
  BY <1>4, <1>5 DEF EscrowInv, Sole, Once, Untouched
<1> QED
  BY <1>1, <1>2, <1>3, <1>6 DEF Shape, EscrowInv

(* A step that leaves the table alone keeps what is known of it.           *)
LEMMA TableAside ==
  ASSUME PlayInv, UNCHANGED tableVars
  PROVE  /\ PlayInv' /\ (NoneReleased' <=> NoneReleased) /\ Play!TimesPaid' = Play!TimesPaid
         /\ table' = table
<1> USE DEF tableVars, playVars
<1>1. PlayTyped' /\ UNCHANGED Play!TimesPaid /\ UNCHANGED <<NoneReleased, AllReleased, Undecided>>
  BY DEF PlayInv, PlayTyped, Play!TimesPaid, NoneReleased, AllReleased, Undecided
<1>2. UNCHANGED Rest
  BY <1>1 DEF Rest
<1>3. \A h \in Handler : Standing(h) => Standing(h)'
  BY <1>1 DEF Standing
<1>4. OneRequest => OneRequest'
  BY <1>1, <1>2, <1>3 DEF OneRequest, Alone, Busy
<1>5. PaidIsKnown => PaidIsKnown'
  BY <1>1 DEF PaidIsKnown
<1> QED
  BY <1>1, <1>4, <1>5 DEF PlayInv

(* A saved game stays as it was saved.                                     *)
LEMMA GamesStay ==
  ASSUME TypeOK, Shape, Next, NEW j \in Ticket, game[j] # <<>>
  PROVE  game'[j] = game[j]
BY GamesAreSaved DEF TypeOK

LEMMA PlatformInvInit == PlatformInit => PlatformInv
BY InitTyped, InitShaped, InitEscrow, PlayInvInit DEF PlatformInit, PlatformInv, TableInv

LEMMA PlatformInvKept ==
  ASSUME PlatformInv, [PlatformNext]_platformVars
  PROVE  PlatformInv'
<1> USE DEF PlatformInv
<1>1. CASE Lobby
  <2>1. TypeOK' /\ Shape' /\ EscrowInv'
    BY <1>1, TypesKept, ShapeKept, EscrowKept DEF Lobby
  <2>2. PlayInv' /\ TableInv'
    BY <1>1, TableAside, GamesStay DEF Lobby, TableInv
  <2> QED
    BY <2>1, <2>2
<1>2. ASSUME NEW j \in Ticket, Open(j)
      PROVE  PlatformInv'
  <2>1. UNCHANGED <<vars, playVars, spoiled>> /\ game[j] # <<>> /\ table' = j
    BY <1>2 DEF Open
  <2>2. TypeOK' /\ Shape' /\ EscrowInv'
    BY <2>1, StutterKeeps, EscrowStutters
  <2>3. PlayInv'
    <3>1. UNCHANGED <<playVars, spoiled>>
      BY <2>1
    <3> QED
      BY <3>1 DEF PlayInv, PlayTyped, playVars, OneRequest, Alone, Busy, Standing, Rest,
          Undecided, NoneReleased, AllReleased, Play!TimesPaid, PaidIsKnown
  <2>4. UNCHANGED game /\ j # None
    BY <2>1, NoneAssumption DEF vars, joinVars
  <2>5. TableInv'
    BY <2>1, <2>4 DEF TableInv
  <2> QED
    BY <2>2, <2>3, <2>5
<1>3. CASE Round
  <2>1. acc' \in [User -> Account]
    BY <1>3, BookedTyped DEF Round
  <2>2. TypeOK' /\ Shape' /\ EscrowInv'
    BY <1>3, <2>1, LobbyAside DEF Round
  <2>3. PlayInv'
    BY <1>3, PlayInvKept DEF Round
  <2>4. TableInv'
    BY <1>3 DEF Round, TableInv, lobbyVars, joinVars
  <2> QED
    BY <2>2, <2>3, <2>4
<1>4. CASE UNCHANGED platformVars
  <2>1. UNCHANGED vars /\ UNCHANGED tableVars
    BY <1>4 DEF platformVars
  <2>2. TypeOK' /\ Shape' /\ EscrowInv'
    BY <2>1, StutterKeeps, EscrowStutters
  <2>3. PlayInv' /\ TableInv'
    BY <2>1, TableAside DEF TableInv, vars, joinVars
  <2> QED
    BY <2>2, <2>3
<1> QED
  BY <1>1, <1>2, <1>3, <1>4 DEF PlatformNext

(* PlatformInv: matchmaking keeps its escrow while games are played; of    *)
(* requests about a game that do not overlap each finds what the one       *)
(* before left; and a refund and a payout exclude each other.              *)
THEOREM PlatformHolds == PlatformSpec => []PlatformInv
<1>1. PlatformInv /\ [PlatformNext]_platformVars => PlatformInv'
  BY PlatformInvKept
<1> QED
  BY <1>1, PlatformInvInit, PTL DEF PlatformSpec

(* What is used once comes back once.                                      *)
LEMMA ReturnsOnce == PlatformInv => StakeReturnsOnce
<1> SUFFICES ASSUME PlatformInv, ~overlapped, ~spoiled, NEW t \in Ticket \ disturbed
             PROVE  refunds[t] + CameBack(t) <= 1
  BY DEF StakeReturnsOnce
<1> USE DEF PlatformInv
<1>1. /\ Uses(t) = Cardinality(GamesOf(t)) + refunds[t] /\ Uses(t) <= 1
      /\ GamesOf(t) \in SUBSET Ticket /\ refunds[t] \in Nat
  <2>1. Uses(t) \in {0, 1}
    BY DEF EscrowInv, Once
  <2>2. Uses(t) = Cardinality(GamesOf(t)) + refunds[t]
    BY DEF Uses
  <2>3. GamesOf(t) \in SUBSET Ticket /\ refunds[t] \in Nat
    BY DEF GamesOf, TypeOK
  <2> QED
    BY <2>1, <2>2, <2>3
<1>2. Cardinality(GamesOf(t)) \in Nat /\ (GamesOf(t) # {} => Cardinality(GamesOf(t)) # 0)
  <2>1. IsFiniteSet(GamesOf(t))
    BY <1>1, TicketAssumption, FS_Subset
  <2> QED
    BY <2>1, FS_CardinalityType, FS_EmptySet
<1>3. CASE table = None \/ t \notin ToSet(game[table])
  BY <1>1, <1>2, <1>3 DEF CameBack
<1>4. CASE table # None /\ t \in ToSet(game[table])
  <2>1. table \in GamesOf(t)
    BY <1>4 DEF TableInv, GamesOf
  <2>2. refunds[t] = 0
    BY <1>1, <1>2, <2>1
  <2>3. PICK seat \in Seats : CameBack(t) = Play!TimesPaid + released[seat]
    BY <1>4 DEF CameBack, Seats
  <2>4. Play!TimesPaid + released[seat] <= 1 /\ released[seat] \in {0, 1}
        /\ Play!TimesPaid \in {0, 1}
    BY ComesBackOnce
  <2> QED
    BY <2>2, <2>3, <2>4
<1> QED
  BY <1>3, <1>4

(* StakeReturnsOnce: a stake that matchmaking did not hand to two handlers *)
(* comes back once at most, from the queue, from the cancelled game or in  *)
(* the pot of the won game.                                                *)
THEOREM StakesReturnOnce == PlatformSpec => []StakeReturnsOnce
BY PlatformHolds, ReturnsOnce, PTL

-----------------------------------------------------------------------------
(* Sums over finite sets.                                                  *)

(* Of the subsets that are bad one is so only by itself.                   *)
LEMMA SmallestBad ==
  ASSUME NEW T, IsFiniteSet(T), NEW Bad \in SUBSET (SUBSET T), Bad # {}
  PROVE  \E s \in Bad : \A x \in s : s \ {x} \notin Bad
<1> DEFINE Sizes == {n \in Nat : \E s \in Bad : Cardinality(s) = n}
           Less == {p \in Nat \X Nat : p[1] < p[2]}
<1>1. \A s \in SUBSET T : IsFiniteSet(s) /\ Cardinality(s) \in Nat
  BY FS_Subset, FS_CardinalityType
<1>2. IsWellFoundedOn(Less, Nat)
  BY NatLessThanWellFounded DEF OpToRel
<1>3. Sizes \in SUBSET Nat /\ Sizes # {}
  BY <1>1
<1> HIDE DEF Less, Sizes
<1>4. PICK n \in Sizes : \A m \in Sizes : ~ (<<m, n>> \in Less)
  BY <1>2, <1>3, WFMin
<1>5. PICK s \in Bad : Cardinality(s) = n
  BY DEF Sizes
<1>6. ASSUME NEW x \in s, s \ {x} \in Bad
      PROVE  FALSE
  <2>1. Cardinality(s \ {x}) = n - 1 /\ Cardinality(s \ {x}) \in Nat
    BY <1>1, <1>5, FS_RemoveElement
  <2>2. n - 1 \in Sizes /\ n - 1 \in Nat /\ n \in Nat
    BY <1>5, <1>6, <2>1 DEF Sizes
  <2>3. <<n - 1, n>> \in Less
    BY <2>2 DEF Less
  <2> QED
    BY <1>4, <2>2, <2>3
<1> QED
  BY <1>6

(* SumFunctionOnSet takes one element after another.                       *)
OneOf(s) == CHOOSE x \in s : TRUE

Layer(f, sums, s) == IF s = {} THEN 0 ELSE f[OneOf(s)] + sums[s \ {OneOf(s)}]

Sums(f, S) == CHOOSE sums : sums = [s \in SUBSET S |-> Layer(f, sums, s)]

LEMMA SumIsLast ==
  ASSUME NEW f, NEW S
  PROVE  SumFunctionOnSet(f, S) = Sums(f, S)[S]
BY DEF SumFunctionOnSet, FoldFunctionOnSet, MapThenFoldSet, Sums, Layer, OneOf

LEMMA OneIsIn == \A s : s # {} => OneOf(s) \in s
BY DEF OneOf

(* There is such a function: one that is right for up to k elements yields *)
(* one that is right for k + 1.                                            *)
LEMMA SumsUnfold ==
  ASSUME NEW f, NEW S, IsFiniteSet(S)
  PROVE  \A s \in SUBSET S : Sums(f, S)[s] = Layer(f, Sums(f, S), s)
<1> DEFINE Right(k) == \E sums : \A s \in SUBSET S :
                         Cardinality(s) <= k => sums[s] = Layer(f, sums, s)
<1>0. \A s \in SUBSET S : /\ IsFiniteSet(s) /\ Cardinality(s) \in Nat
                          /\ Cardinality(s) = 0 <=> s = {}
                          /\ Cardinality(s) <= Cardinality(S)
  BY FS_Subset, FS_CardinalityType, FS_EmptySet
<1>1. Right(0)
  <2> DEFINE sums == [s \in SUBSET S |-> 0]
  <2>1. \A s \in SUBSET S : Cardinality(s) <= 0 => sums[s] = Layer(f, sums, s)
    BY <1>0 DEF Layer
  <2> QED
    BY <2>1
<1>2. ASSUME NEW k \in Nat, Right(k)
      PROVE  Right(k + 1)
  <2>1. PICK sums : \A s \in SUBSET S : Cardinality(s) <= k => sums[s] = Layer(f, sums, s)
    BY <1>2
  <2> DEFINE next == [s \in SUBSET S |-> Layer(f, sums, s)]
  <2>2. ASSUME NEW s \in SUBSET S, Cardinality(s) <= k + 1
        PROVE  next[s] = Layer(f, next, s)
    <3>1. CASE s = {}
      BY <3>1 DEF Layer
    <3>2. CASE s # {}
      <4> DEFINE r == s \ {OneOf(s)}
      <4>1. r \in SUBSET S /\ Cardinality(r) = Cardinality(s) - 1
        BY <1>0, <3>2, OneIsIn, FS_RemoveElement
      <4>2. Cardinality(r) <= k
        BY <1>0, <2>2, <4>1
      <4>3. next[r] = sums[r]
        BY <2>1, <4>1, <4>2
      <4> QED
        BY <3>2, <4>3 DEF Layer
    <3> QED
      BY <3>1, <3>2
  <2> QED
    BY <2>2
<1> HIDE DEF Right
<1>3. Right(Cardinality(S))
  <2> DEFINE Wrong == {k \in Nat : ~Right(k)}
             Less == {p \in Nat \X Nat : p[1] < p[2]}
  <2> SUFFICES ASSUME Wrong # {} PROVE FALSE
    BY <1>0
  <2>1. IsWellFoundedOn(Less, Nat)
    BY NatLessThanWellFounded DEF OpToRel
  <2> HIDE DEF Less
  <2>2. PICK k \in Wrong : \A j \in Wrong : ~ (<<j, k>> \in Less)
    BY <2>1, WFMin
  <2>3. k \in Nat /\ k # 0
    BY <1>1
  <2>4. k - 1 \in Nat /\ <<k - 1, k>> \in Less
    BY <2>3 DEF Less
  <2>5. Right((k - 1) + 1)
    BY <1>2, <2>2, <2>4
  <2> QED
    BY <2>3, <2>5
<1>4. PICK sums : \A s \in SUBSET S : sums[s] = Layer(f, sums, s)
  BY <1>0, <1>3 DEF Right
<1> DEFINE all == [s \in SUBSET S |-> sums[s]]
<1>5. all = [s \in SUBSET S |-> Layer(f, all, s)]
  <2> SUFFICES ASSUME NEW s \in SUBSET S
               PROVE  sums[s] = Layer(f, all, s)
    OBVIOUS
  <2>1. CASE s = {}
    BY <1>4, <2>1 DEF Layer
  <2>2. CASE s # {}
    <3>1. s \ {OneOf(s)} \in SUBSET S
      OBVIOUS
    <3> QED
      BY <1>4, <2>2, <3>1 DEF Layer
  <2> QED
    BY <2>1, <2>2
<1> HIDE DEF all
<1>6. Sums(f, S) = [s \in SUBSET S |-> Layer(f, Sums(f, S), s)]
  BY <1>5 DEF Sums
<1> QED
  BY <1>6

(* Functions that agree on a set have the same sum over it, whichever set  *)
(* the sum is a part of.                                                   *)
LEMMA SumsAgree ==
  ASSUME NEW S, IsFiniteSet(S), NEW T, IsFiniteSet(T), S \subseteq T,
         NEW f, NEW g, \A x \in S : f[x] = g[x]
  PROVE  Sums(f, S)[S] = Sums(g, T)[S]
<1> DEFINE Bad == {s \in SUBSET S : Sums(f, S)[s] # Sums(g, T)[s]}
<1> SUFFICES ASSUME Bad # {} PROVE FALSE
  OBVIOUS
<1>1. Bad \in SUBSET (SUBSET S)
  OBVIOUS
<1>2. PICK s \in Bad : \A x \in s : s \ {x} \notin Bad
  BY <1>1, SmallestBad
<1>3. s \in SUBSET S /\ s \in SUBSET T
  OBVIOUS
<1>4. Sums(f, S)[s] = Layer(f, Sums(f, S), s) /\ Sums(g, T)[s] = Layer(g, Sums(g, T), s)
  BY <1>3, SumsUnfold
<1>5. s # {}
  BY <1>4 DEF Layer
<1>6. OneOf(s) \in s
  BY <1>5, OneIsIn
<1>7. s \ {OneOf(s)} \in SUBSET S /\ s \ {OneOf(s)} \notin Bad
  BY <1>2, <1>3, <1>6
<1>8. Sums(f, S)[s \ {OneOf(s)}] = Sums(g, T)[s \ {OneOf(s)}] /\ f[OneOf(s)] = g[OneOf(s)]
  BY <1>3, <1>6, <1>7
<1> QED
  BY <1>4, <1>5, <1>8 DEF Layer

LEMMA SumSame ==
  ASSUME NEW S, IsFiniteSet(S), NEW f, NEW g, \A x \in S : f[x] = g[x]
  PROVE  SumFunctionOnSet(f, S) = SumFunctionOnSet(g, S)
BY SumIsLast, SumsAgree

LEMMA SumOfNothing == \A f : SumFunctionOnSet(f, {}) = 0
<1> SUFFICES ASSUME NEW f PROVE SumFunctionOnSet(f, {}) = 0
  OBVIOUS
<1>1. Sums(f, {})[{}] = Layer(f, Sums(f, {}), {})
  BY SumsUnfold, FS_EmptySet
<1> QED
  BY <1>1, SumIsLast DEF Layer

LEMMA SumStep ==
  ASSUME NEW S, IsFiniteSet(S), S # {}, NEW f
  PROVE  /\ OneOf(S) \in S
         /\ SumFunctionOnSet(f, S) = f[OneOf(S)] + SumFunctionOnSet(f, S \ {OneOf(S)})
<1> DEFINE R == S \ {OneOf(S)}
<1>1. OneOf(S) \in S /\ IsFiniteSet(R)
  BY OneIsIn, FS_RemoveElement
<1>2. Sums(f, S)[S] = f[OneOf(S)] + Sums(f, S)[R]
  BY SumsUnfold DEF Layer
<1>3. Sums(f, R)[R] = Sums(f, S)[R]
  BY <1>1, SumsAgree
<1> QED
  BY <1>1, <1>2, <1>3, SumIsLast

LEMMA SumIsInt ==
  ASSUME NEW S, IsFiniteSet(S), NEW f, \A x \in S : f[x] \in Int
  PROVE  SumFunctionOnSet(f, S) \in Int
<1> DEFINE Bad == {s \in SUBSET S : SumFunctionOnSet(f, s) \notin Int}
<1> SUFFICES ASSUME Bad # {} PROVE FALSE
  OBVIOUS
<1>1. Bad \in SUBSET (SUBSET S)
  OBVIOUS
<1>2. PICK s \in Bad : \A x \in s : s \ {x} \notin Bad
  BY <1>1, SmallestBad
<1>3. s \in SUBSET S /\ IsFiniteSet(s)
  BY FS_Subset
<1>4. s # {}
  BY SumOfNothing
<1>5. /\ OneOf(s) \in s
      /\ SumFunctionOnSet(f, s) = f[OneOf(s)] + SumFunctionOnSet(f, s \ {OneOf(s)})
  BY <1>3, <1>4, SumStep
<1>6. SumFunctionOnSet(f, s \ {OneOf(s)}) \in Int
  BY <1>2, <1>3, <1>5
<1> QED
  BY <1>3, <1>5, <1>6

(* Any element may be taken out of the sum.                                *)
LEMMA SumOfOne ==
  ASSUME NEW S, IsFiniteSet(S), NEW f, \A y \in S : f[y] \in Int, NEW x \in S
  PROVE  SumFunctionOnSet(f, S) = f[x] + SumFunctionOnSet(f, S \ {x})
<1> DEFINE Sum(s) == SumFunctionOnSet(f, s)
           Bad == {s \in SUBSET S : \E y \in s : Sum(s) # f[y] + Sum(s \ {y})}
<1>0. \A s \in SUBSET S : IsFiniteSet(s) /\ Sum(s) \in Int
  BY FS_Subset, SumIsInt
<1>1. Bad \in SUBSET (SUBSET S)
  OBVIOUS
<1>2. ASSUME NEW s \in Bad, \A y \in s : s \ {y} \notin Bad
      PROVE  FALSE
  <2>1. PICK y \in s : Sum(s) # f[y] + Sum(s \ {y})
    OBVIOUS
  <2> DEFINE z == OneOf(s)
  <2>2. z \in s /\ Sum(s) = f[z] + Sum(s \ {z}) /\ s \in SUBSET S
    BY <1>0, <2>1, SumStep
  <2>3. y # z
    BY <2>1, <2>2
  <2>4. s \ {z} \in SUBSET S /\ s \ {y} \in SUBSET S
        /\ (s \ {z}) \ {y} \in SUBSET S /\ (s \ {z}) \ {y} = (s \ {y}) \ {z}
    BY <2>2
  <2> HIDE DEF Sum, z
  <2>5. Sum(s \ {z}) = f[y] + Sum((s \ {z}) \ {y})
    BY <1>2, <2>2, <2>3, <2>4
  <2>6. Sum(s \ {y}) = f[z] + Sum((s \ {y}) \ {z})
    BY <1>2, <2>2, <2>3, <2>4
  <2>7. f[y] \in Int /\ f[z] \in Int /\ Sum((s \ {z}) \ {y}) \in Int
    BY <1>0, <2>2, <2>4
  <2> QED
    BY <2>1, <2>2, <2>4, <2>5, <2>6, <2>7
<1>3. Bad = {}
  BY <1>1, <1>2, SmallestBad
<1> QED
  BY <1>3

(* A sum follows a change of one of its terms.                             *)
LEMMA SumChanges ==
  ASSUME NEW S, IsFiniteSet(S), NEW f, NEW g, NEW x \in S,
         \A y \in S : f[y] \in Int /\ g[y] \in Int, \A y \in S \ {x} : g[y] = f[y]
  PROVE  SumFunctionOnSet(g, S) = SumFunctionOnSet(f, S) + (g[x] - f[x])
<1> DEFINE R == S \ {x}
<1>1. IsFiniteSet(R) /\ \A y \in R : f[y] \in Int /\ g[y] = f[y]
  BY FS_RemoveElement
<1>2. SumFunctionOnSet(f, R) = SumFunctionOnSet(g, R) /\ SumFunctionOnSet(f, R) \in Int
  BY <1>1, SumSame, SumIsInt
<1>3. /\ SumFunctionOnSet(f, S) = f[x] + SumFunctionOnSet(f, R)
      /\ SumFunctionOnSet(g, S) = g[x] + SumFunctionOnSet(g, R)
  BY SumOfOne
<1>4. f[x] \in Int /\ g[x] \in Int
  OBVIOUS
<1> QED
  BY <1>2, <1>3, <1>4

(* The sum of equal terms.                                                 *)
LEMMA SumOfEquals ==
  ASSUME NEW S, IsFiniteSet(S), NEW f, NEW c \in Int, \A x \in S : f[x] = c
  PROVE  SumFunctionOnSet(f, S) = Cardinality(S) * c
<1> DEFINE Bad == {s \in SUBSET S : SumFunctionOnSet(f, s) # Cardinality(s) * c}
<1>1. Bad \in SUBSET (SUBSET S)
  OBVIOUS
<1>2. ASSUME NEW s \in Bad, \A y \in s : s \ {y} \notin Bad
      PROVE  FALSE
  <2>1. s \in SUBSET S /\ IsFiniteSet(s) /\ Cardinality(s) \in Nat
    BY FS_Subset, FS_CardinalityType
  <2>2. s # {}
    BY SumOfNothing, FS_EmptySet
  <2>3. /\ OneOf(s) \in s /\ f[OneOf(s)] = c
        /\ SumFunctionOnSet(f, s) = f[OneOf(s)] + SumFunctionOnSet(f, s \ {OneOf(s)})
    BY <2>1, <2>2, SumStep
  <2>4. SumFunctionOnSet(f, s \ {OneOf(s)}) = Cardinality(s \ {OneOf(s)}) * c
    BY <1>2, <2>1, <2>3
  <2>5. Cardinality(s \ {OneOf(s)}) = Cardinality(s) - 1
    BY <2>1, <2>3, FS_RemoveElement
  <2>6. ASSUME NEW n \in Nat
        PROVE  c + (n - 1) * c = n * c
    OBVIOUS
  <2> QED
    BY <2>1, <2>3, <2>4, <2>5, <2>6
<1>3. Bad = {}
  BY <1>1, <1>2, SmallestBad
<1> QED
  BY <1>3

-----------------------------------------------------------------------------
(* Money.                                                                  *)

Waits == {t \in staked : Uses(t) = 0}

Funded == Spendable + Waiting + InGames

(* The terms of the three sums are numbers.                                *)
LEMMA SumsAre ==
  /\ Spendable = SumFunctionOnSet([u \in User |-> RawAvailable(acc[u])], User)
  /\ Waiting = SumFunctionOnSet(stake, Waits)
  /\ InGames = SumFunctionOnSet([j \in Ticket |-> InPlay(j)], Ticket)
BY DEF Spendable, Waiting, Waits, InGames, SumFunction

LEMMA AvailableIsInt ==
  ASSUME NEW a \in Account
  PROVE  RawAvailable(a) \in Int
<1>1. \A t \in TransactionType : a[t] \in Nat
  BY DEF Account
<1> QED
  BY <1>1 DEF RawAvailable, Credited, Validated, Unchecked, TransactionType, CreditType,
              ValidatedType, UncheckedType

(* What a row adds to what its user can spend.                             *)
LEMMA RowCounts ==
  ASSUME NEW a \in Account, NEW n \in Nat
  PROVE  /\ \A type \in CreditType : RawAvailable(AddRow(a, type, n)) = RawAvailable(a) + n
         /\ RawAvailable(AddRow(a, "BET_LOCK", n)) = RawAvailable(a) - n
<1>1. \A t \in TransactionType : a[t] \in Nat
  BY DEF Account
<1>2. /\ DOMAIN a = TransactionType
      /\ \A t, type \in TransactionType :
           AddRow(a, type, n)[t] = IF t = type THEN a[t] + n ELSE a[t]
  BY DEF Account, AddRow
<1> USE DEF RawAvailable, Credited, Validated, Unchecked, TransactionType, CreditType,
            ValidatedType, UncheckedType
<1>3. RawAvailable(AddRow(a, "DEPOSIT", n)) = RawAvailable(a) + n
  BY <1>1, <1>2
<1>4. RawAvailable(AddRow(a, "WIN_CREDIT", n)) = RawAvailable(a) + n
  BY <1>1, <1>2
<1>5. RawAvailable(AddRow(a, "BET_RELEASE", n)) = RawAvailable(a) + n
  BY <1>1, <1>2
<1>6. RawAvailable(AddRow(a, "BET_LOCK", n)) = RawAvailable(a) - n
  BY <1>1, <1>2
<1> QED
  BY <1>3, <1>4, <1>5, <1>6

LEMMA RowChangesSum ==
  ASSUME NEW a \in [User -> Account], NEW u \in User, NEW n \in Nat, NEW type,
         type \in CreditType \/ type = "BET_LOCK",
         NEW b, b = [a EXCEPT ![u] = AddRow(@, type, n)]
  PROVE  /\ SumFunction([v \in User |-> RawAvailable(a[v])]) \in Int
         /\ SumFunction([v \in User |-> RawAvailable(b[v])])
              = SumFunction([v \in User |-> RawAvailable(a[v])])
                  + (IF type = "BET_LOCK" THEN -n ELSE n)
<1> DEFINE f == [v \in User |-> RawAvailable(a[v])]
           g == [v \in User |-> RawAvailable(b[v])]
<1>1. a[u] \in Account /\ AddRow(a[u], type, n) \in Account
  BY RowsAdded DEF TransactionType, ValidatedType
<1>2. b \in [User -> Account] /\ b[u] = AddRow(a[u], type, n)
      /\ \A v \in User \ {u} : b[v] = a[v]
  BY <1>1
<1>3. \A v \in User : f[v] \in Int /\ g[v] \in Int
  BY <1>2, AvailableIsInt
<1>4. \A v \in User \ {u} : g[v] = f[v]
  BY <1>2
<1>5. g[u] - f[u] = IF type = "BET_LOCK" THEN -n ELSE n
  <2>1. "BET_LOCK" \notin CreditType
    BY DEF CreditType
  <2>2. g[u] = RawAvailable(AddRow(a[u], type, n)) /\ f[u] = RawAvailable(a[u])
    BY <1>2
  <2>3. f[u] \in Int
    BY <1>3
  <2> HIDE DEF f, g
  <2> QED
    BY <1>1, <2>1, <2>2, <2>3, RowCounts
<1>6. SumFunction(f) = SumFunctionOnSet(f, User) /\ SumFunction(g) = SumFunctionOnSet(g, User)
  BY DEF SumFunction
<1> HIDE DEF f, g
<1>7. SumFunctionOnSet(g, User) = SumFunctionOnSet(f, User) + (g[u] - f[u])
  BY <1>3, <1>4, UserAssumption, SumChanges
<1>8. SumFunctionOnSet(f, User) \in Int
  BY <1>3, UserAssumption, SumIsInt
<1>9. SumFunction(f) \in Int
      /\ SumFunction(g) = SumFunction(f) + (IF type = "BET_LOCK" THEN -n ELSE n)
  BY <1>5, <1>6, <1>7, <1>8
<1> QED
  BY <1>9 DEF f, g

LEMMA RowChangesSpendable ==
  ASSUME acc \in [User -> Account], NEW u \in User, NEW n \in Nat, NEW type,
         type \in CreditType \/ type = "BET_LOCK",
         acc' = [acc EXCEPT ![u] = AddRow(@, type, n)]
  PROVE  /\ Spendable \in Int
         /\ Spendable' = Spendable + (IF type = "BET_LOCK" THEN -n ELSE n)
<1> DEFINE b == acc'
<1>1. b = [acc EXCEPT ![u] = AddRow(@, type, n)]
  OBVIOUS
<1>2. Spendable' = SumFunction([v \in User |-> RawAvailable(b[v])])
  BY DEF Spendable
<1> HIDE DEF b
<1>3. /\ SumFunction([v \in User |-> RawAvailable(acc[v])]) \in Int
      /\ SumFunction([v \in User |-> RawAvailable(b[v])])
           = SumFunction([v \in User |-> RawAvailable(acc[v])])
               + (IF type = "BET_LOCK" THEN -n ELSE n)
  BY <1>1, RowChangesSum
<1>4. Spendable = SumFunction([v \in User |-> RawAvailable(acc[v])])
  BY DEF Spendable
<1> QED
  BY <1>2, <1>3, <1>4

(* What a game keeps.                                                      *)
LEMMA InPlayIs ==
  ASSUME NEW j \in Ticket
  PROVE  /\ game[j] = <<>> => InPlay(j) = 0
         /\ game[j] # <<>> /\ j # table => InPlay(j) = 2 * stake[j]
         /\ game[j] # <<>> /\ j = table /\ Play!TimesPaid > 0 =>
              InPlay(j) = Commission[stake[j]]
         /\ game[j] # <<>> /\ j = table /\ ~(Play!TimesPaid > 0) =>
              InPlay(j) = (2 - released[First] - released[Second]) * stake[j]
BY DEF InPlay

LEMMA InPlayAfter ==
  ASSUME NEW j \in Ticket
  PROVE  /\ game'[j] = <<>> => InPlay(j)' = 0
         /\ game'[j] # <<>> /\ j # table' => InPlay(j)' = 2 * stake'[j]
         /\ game'[j] # <<>> /\ j = table' /\ Play!TimesPaid' > 0 =>
              InPlay(j)' = Commission[stake'[j]]
         /\ game'[j] # <<>> /\ j = table' /\ ~(Play!TimesPaid' > 0) =>
              InPlay(j)' = (2 - released'[First] - released'[Second]) * stake'[j]
BY DEF InPlay

PlaysAreInts == \A j \in Ticket : InPlay(j) \in Int

LEMMA PlaysAreIntsNow == PlatformInv => PlaysAreInts
<1> SUFFICES ASSUME PlatformInv, NEW j \in Ticket
             PROVE  InPlay(j) \in Int
  BY DEF PlaysAreInts
<1>1. released[First] \in Nat /\ released[Second] \in Nat
  BY DEF PlatformInv, PlayInv, PlayTyped, Seats
<1>2. game[j] # <<>> => stake[j] \in Nat /\ Commission[stake[j]] \in Nat
  BY SeatsAreTaken DEF PlatformInv
<1>3. \A a, b, s \in Nat : (2 - a - b) * s \in Int
  OBVIOUS
<1> QED
  BY <1>1, <1>2, <1>3, InPlayIs

LEMMA PlaysAreIntsAfter == PlatformInv' => PlaysAreInts'
BY PlaysAreIntsNow, PTL

(* A term less.                                                            *)
LEMMA SumOfLess ==
  ASSUME NEW S, IsFiniteSet(S), NEW f, \A y \in S : f[y] \in Int, NEW x \in S,
         NEW g, \A y \in S : g[y] = f[y]
  PROVE  /\ SumFunctionOnSet(f, S) \in Int
         /\ SumFunctionOnSet(g, S \ {x}) = SumFunctionOnSet(f, S) - f[x]
<1> DEFINE R == S \ {x}
<1>1. IsFiniteSet(R) /\ \A y \in R : g[y] = f[y] /\ f[y] \in Int /\ g[y] \in Int
  BY FS_RemoveElement
<1>2. SumFunctionOnSet(f, S) = f[x] + SumFunctionOnSet(f, R)
  BY SumOfOne
<1>3. SumFunctionOnSet(f, R) = SumFunctionOnSet(g, R) /\ SumFunctionOnSet(f, R) \in Int
  BY <1>1, SumSame, SumIsInt
<1>4. SumFunctionOnSet(f, S) \in Int /\ f[x] \in Int
  BY SumIsInt
<1> HIDE DEF R
<1>5. SumFunctionOnSet(g, R) = SumFunctionOnSet(f, S) - f[x]
  BY <1>2, <1>3, <1>4
<1> QED
  BY <1>4, <1>5 DEF R

(* What games keep follows what one of them keeps.                         *)
LEMMA InGamesSame ==
  ASSUME \A j \in Ticket : InPlay(j)' = InPlay(j)
  PROVE  InGames' = InGames
<1>1. [j \in Ticket |-> InPlay(j)]' = [j \in Ticket |-> InPlay(j)]
  OBVIOUS
<1> QED
  BY <1>1 DEF InGames

LEMMA InGamesChanges ==
  ASSUME PlaysAreInts, PlaysAreInts', NEW x \in Ticket,
         \A j \in Ticket \ {x} : InPlay(j)' = InPlay(j)
  PROVE  InGames \in Int /\ InGames' = InGames + (InPlay(x)' - InPlay(x))
<1> DEFINE f == [j \in Ticket |-> InPlay(j)]
           g == [j \in Ticket |-> InPlay(j)']
<1>1. /\ \A j \in Ticket : f[j] \in Int /\ g[j] \in Int
      /\ \A j \in Ticket \ {x} : g[j] = f[j]
      /\ f[x] = InPlay(x) /\ g[x] = InPlay(x)'
  BY DEF PlaysAreInts
<1>2. InGames = SumFunctionOnSet(f, Ticket) /\ InGames' = SumFunctionOnSet(g, Ticket)
  BY DEF InGames, SumFunction
<1> HIDE DEF f, g
<1>3. \A a, b : (\A j \in Ticket : a[j] \in Int /\ b[j] \in Int)
                  /\ (\A j \in Ticket \ {x} : b[j] = a[j]) =>
        SumFunctionOnSet(b, Ticket) = SumFunctionOnSet(a, Ticket) + (b[x] - a[x])
  BY TicketAssumption, SumChanges
<1>5. SumFunctionOnSet(g, Ticket) = SumFunctionOnSet(f, Ticket) + (g[x] - f[x])
  BY <1>1, <1>3
<1>4. SumFunctionOnSet(f, Ticket) \in Int
  BY <1>1, TicketAssumption, SumIsInt
<1> QED
  BY <1>1, <1>2, <1>4, <1>5

(* What waits follows the entries that wait.                               *)
LEMMA WaitsAre ==
  ASSUME TypeOK
  PROVE  IsFiniteSet(Waits) /\ Waits \subseteq staked /\ \A t \in Waits : stake[t] \in Int
<1>1. Waits \subseteq Ticket
  BY DEF Waits, TypeOK
<1> QED
  BY <1>1, TicketAssumption, FS_Subset, StakesAreAmounts DEF Waits

LEMMA WaitingSame ==
  ASSUME TypeOK, Waits' = Waits, \A t \in Waits : stake'[t] = stake[t]
  PROVE  Waiting' = Waiting
<1>1. Waiting = SumFunctionOnSet(stake, Waits) /\ Waiting' = SumFunctionOnSet(stake', Waits)
  BY DEF Waiting, Waits
<1>2. IsFiniteSet(Waits)
  BY WaitsAre
<1>3. \A f, g : (\A t \in Waits : f[t] = g[t]) =>
        SumFunctionOnSet(f, Waits) = SumFunctionOnSet(g, Waits)
  BY <1>2, SumSame
<1> QED
  BY <1>1, <1>3

LEMMA WaitingMore ==
  ASSUME TypeOK, NEW x, x \notin Waits, stake'[x] \in Int, Waits' = Waits \cup {x},
         \A t \in Waits : stake'[t] = stake[t]
  PROVE  Waiting \in Int /\ Waiting' = Waiting + stake'[x]
<1> DEFINE T == Waits \cup {x}
<1>1. Waiting = SumFunctionOnSet(stake, T \ {x}) /\ Waiting' = SumFunctionOnSet(stake', T)
  <2>1. T \ {x} = Waits
    OBVIOUS
  <2> QED
    BY <2>1 DEF Waiting, Waits
<1>2. x \in T /\ IsFiniteSet(T) /\ \A t \in T : stake'[t] \in Int
  <2>1. IsFiniteSet(Waits) /\ \A t \in Waits : stake[t] \in Int
    BY WaitsAre
  <2> QED
    BY <2>1, FS_AddElement
<1>3. \A t \in T \ {x} : stake[t] = stake'[t]
  OBVIOUS
<1>4. Waiting \in Int
  BY <1>1, <1>2, <1>3, WaitsAre, SumIsInt DEF Waiting, Waits
<1> HIDE DEF T
<1>5. \A f, g : (\A t \in T : f[t] \in Int) /\ (\A t \in T \ {x} : g[t] = f[t]) =>
        /\ SumFunctionOnSet(f, T) \in Int /\ f[x] \in Int
        /\ SumFunctionOnSet(g, T \ {x}) = SumFunctionOnSet(f, T) - f[x]
  <2> SUFFICES ASSUME NEW f, NEW g, \A t \in T : f[t] \in Int, \A t \in T \ {x} : g[t] = f[t]
               PROVE  /\ SumFunctionOnSet(f, T) \in Int /\ f[x] \in Int
                      /\ SumFunctionOnSet(g, T \ {x}) = SumFunctionOnSet(f, T) - f[x]
    OBVIOUS
  <2>1. /\ SumFunctionOnSet(f, T) = f[x] + SumFunctionOnSet(f, T \ {x})
        /\ SumFunctionOnSet(f, T) \in Int
    BY <1>2, SumOfOne, SumIsInt
  <2>2. IsFiniteSet(T \ {x}) /\ \A t \in T \ {x} : f[t] \in Int
    BY <1>2, FS_RemoveElement
  <2>3. /\ SumFunctionOnSet(f, T \ {x}) = SumFunctionOnSet(g, T \ {x})
        /\ SumFunctionOnSet(f, T \ {x}) \in Int
    BY <2>2, SumSame, SumIsInt
  <2> QED
    BY <1>2, <2>1, <2>3
<1>6. /\ SumFunctionOnSet(stake', T) \in Int
      /\ SumFunctionOnSet(stake, T \ {x}) = SumFunctionOnSet(stake', T) - stake'[x]
  BY <1>2, <1>3, <1>5
<1> QED
  BY <1>1, <1>4, <1>6

LEMMA WaitingLess ==
  ASSUME TypeOK, NEW x \in Waits, Waits' = Waits \ {x},
         \A t \in Waits : stake'[t] = stake[t]
  PROVE  Waiting \in Int /\ Waiting' = Waiting - stake[x]
<1>1. /\ Waiting = SumFunctionOnSet(stake, Waits)
      /\ Waiting' = SumFunctionOnSet(stake', Waits \ {x})
  BY DEF Waiting, Waits
<1>2. \A g : (\A t \in Waits : g[t] = stake[t]) =>
        /\ SumFunctionOnSet(stake, Waits) \in Int
        /\ SumFunctionOnSet(g, Waits \ {x}) = SumFunctionOnSet(stake, Waits) - stake[x]
  BY WaitsAre, SumOfLess
<1> QED
  BY <1>1, <1>2

LEMMA WaitingTwoLess ==
  ASSUME TypeOK, NEW x \in Waits, NEW y \in Waits, x # y, Waits' = Waits \ {x, y},
         \A t \in Waits : stake'[t] = stake[t]
  PROVE  Waiting \in Int /\ Waiting' = Waiting - stake[x] - stake[y]
<1> DEFINE R == Waits \ {x}
<1>1. /\ Waiting = SumFunctionOnSet(stake, Waits)
      /\ Waiting' = SumFunctionOnSet(stake', R \ {y})
  <2>1. Waits \ {x, y} = R \ {y}
    OBVIOUS
  <2> QED
    BY <2>1 DEF Waiting, Waits
<1>2. IsFiniteSet(Waits) /\ \A t \in Waits : stake[t] \in Int
  BY WaitsAre
<1>3. /\ SumFunctionOnSet(stake, Waits) \in Int
      /\ SumFunctionOnSet(stake, R) = SumFunctionOnSet(stake, Waits) - stake[x]
  BY <1>2, SumOfLess
<1>4. IsFiniteSet(R) /\ y \in R /\ \A t \in R : stake[t] \in Int
  BY <1>2, FS_RemoveElement
<1> HIDE DEF R
<1>5. \A g : (\A t \in R : g[t] = stake[t]) =>
        SumFunctionOnSet(g, R \ {y}) = SumFunctionOnSet(stake, R) - stake[y]
  BY <1>4, SumOfLess
<1>6. SumFunctionOnSet(stake', R \ {y}) = SumFunctionOnSet(stake, R) - stake[y]
  BY <1>5 DEF R
<1> QED
  BY <1>1, <1>3, <1>6

(* What a step of matchmaking does to the ledger, the games and the stakes *)
(* that wait.                                                              *)
LEMMA StakesStay ==
  ASSUME TypeOK, Shape, Next
  PROVE  /\ \A t \in staked : t \in staked' /\ stake'[t] = stake[t]
         /\ \A j \in Ticket : game[j] # <<>> => stake'[j] = stake[j]
<1>1. Steady
  BY TicketShapeKept
<1>2. \A t \in staked : t \in Ticket /\ Started(t)
  BY DEF TypeOK, Shape, HandShape, TicketShape
<1>3. \A j \in Ticket : game[j] # <<>> => Started(j)
  BY DEF Shape, GameShape, Started
<1> QED
  BY <1>1, <1>2, <1>3 DEF Steady

LEMMA LedgerSteps ==
  ASSUME TypeOK, Shape, Next
  PROVE  \/ \E t \in Ticket : LockInsert(t)
         \/ \E c \in Cancel : CancelRelease(c)
         \/ \E w \in Sweep : SweepRelease(w)
         \/ acc' = acc
<1>1. ASSUME NEW t \in Ticket, ~LockInsert(t),
             JoinStep(t) \/ JoinFail(t) \/ Age(t)
             \/ \E u \in User, s \in Stake : JoinCheck(t, u, s)
      PROVE  acc' = acc
  BY <1>1 DEF JoinStep, JoinFail, Age, JoinCheck, LockRefused, Push, SetKey, Range01, Rem,
              Rem1, Rem2, SaveGame, Del1, Del2
<1>2. ASSUME NEW c \in Cancel, ~CancelRelease(c),
             CancelStep(c) \/ CancelFail(c) \/ \E u \in User : CancelGet(c, u)
      PROVE  acc' = acc
  BY <1>2 DEF CancelStep, CancelFail, CancelGet, CancelRange, CancelRem, CancelDel
<1>3. ASSUME NEW w \in Sweep, ~SweepRelease(w), SweepStep(w)
      PROVE  acc' = acc
  BY <1>3 DEF SweepStep, SweepTick, SweepRange, SweepRem, SweepDel
<1>4. ASSUME (\E u \in User : Expire(u)) \/ Crash
      PROVE  acc' = acc
  BY <1>4 DEF Expire, Crash
<1> QED
  BY <1>1, <1>2, <1>3, <1>4 DEF Next

(* A game that is not saved in this step keeps what it kept.               *)
LEMMA InPlayStays ==
  ASSUME TypeOK, Shape, Next, UNCHANGED tableVars, NEW j \in Ticket, game'[j] = game[j]
  PROVE  InPlay(j)' = InPlay(j)
<1>1. table' = table /\ released' = released /\ Play!TimesPaid' = Play!TimesPaid
  BY DEF tableVars, playVars, Play!TimesPaid
<1>2. game[j] # <<>> => stake'[j] = stake[j]
  BY StakesStay
<1> QED
  BY <1>1, <1>2 DEF InPlay

LEMMA SpendableIsInt ==
  ASSUME acc \in [User -> Account]
  PROVE  Spendable \in Int
<1> DEFINE f == [u \in User |-> RawAvailable(acc[u])]
<1>1. Spendable = SumFunctionOnSet(f, User)
  BY DEF Spendable, SumFunction
<1>2. \A u \in User : f[u] \in Int
  BY AvailableIsInt
<1> HIDE DEF f
<1> QED
  BY <1>1, <1>2, UserAssumption, SumIsInt

(* A stake is locked: it leaves what its user can spend, and waits.        *)
LEMMA LockMoney ==
  ASSUME PlatformInv, Next, UNCHANGED tableVars, disturbed = {}, NEW t \in Ticket,
         LockInsert(t)
  PROVE  Funded' = Funded
<1> USE DEF PlatformInv
<1>1. /\ who[t] \in User /\ stake[t] \in Nat /\ t \notin staked /\ Uses(t) = 0
      /\ UNCHANGED <<stake, game, refunds>> /\ staked' = staked \cup {t}
      /\ acc' = [acc EXCEPT ![who[t]] = AddRow(@, "BET_LOCK", stake[t])]
  <2>1. who[t] \in User /\ t \notin staked /\ jpc[t] = "funded"
    BY DEF LockInsert, Shape, HandShape, TicketShape, Started
  <2>2. Uses(t) = 0
    BY <2>1 DEF EscrowInv, Once
  <2> QED
    BY <2>1, <2>2, StakesAreAmounts DEF LockInsert
<1>2. \A x \in Ticket : Uses(x)' = Uses(x)
  BY <1>1 DEF Uses, GamesOf, ToSet
<1>3. t \notin Waits /\ Waits' = Waits \cup {t}
  <2>1. staked \subseteq Ticket
    BY DEF TypeOK
  <2>2. \A x \in staked' : Uses(x)' = Uses(x)
    BY <1>1, <1>2, <2>1
  <2> QED
    BY <1>1, <2>2 DEF Waits
<1>4. Waiting \in Int /\ Waiting' = Waiting + stake[t]
  BY <1>1, <1>3, WaitingMore
<1>5. Spendable \in Int /\ Spendable' = Spendable - stake[t]
  <2>1. acc \in [User -> Account]
    BY DEF TypeOK
  <2>2. Spendable \in Int /\ Spendable' = Spendable + (-stake[t])
    BY <1>1, <2>1, RowChangesSpendable
  <2> QED
    BY <1>1, <2>2
<1>6. InGames' = InGames
  BY <1>1, InPlayStays, InGamesSame
<1> QED
  BY <1>1, <1>4, <1>5, <1>6 DEF Funded

(* A game is saved: two stakes no longer wait, the game keeps them.        *)
LEMMA SaveMoney ==
  ASSUME PlatformInv, PlatformInv', Next, UNCHANGED tableVars, disturbed = {},
         NEW j \in Ticket, SaveGame(j)
  PROVE  Funded' = Funded
<1> USE DEF PlatformInv
<1> DEFINE x == pair[j][1]
           y == pair[j][2]
           k == <<"join", j>>
<1>1. /\ game[j] = <<>> /\ game' = [game EXCEPT ![j] = pair[j]] /\ x # y
      /\ pair[j] \in Ticket \X Ticket /\ x \in Ticket /\ y \in Ticket
      /\ UNCHANGED <<acc, stake, staked>> /\ jpc[j] = "save"
  BY GamesAreSaved DEF SaveGame
<1>2. /\ x \in staked /\ y \in staked /\ stake[x] = stake[j] /\ stake[y] = stake[j]
  BY <1>1 DEF Shape, HandShape, PairShape, Matching, Pushed
<1>3. Uses(x) = 0 /\ Uses(y) = 0
  <2>1. k \in Call /\ x \in Holds(k) /\ y \in Holds(k) /\ Used(k) = {}
    BY <1>1, InHandWhileMatching DEF Call, MatchesInHand, Matching, Used
  <2>2. Once(x) /\ Once(y)
    BY <1>1 DEF EscrowInv
  <2> HIDE DEF k, x, y
  <2> QED
    BY <2>1, <2>2 DEF Once
<1> HIDE DEF k
<1>4. \A t \in Ticket : Uses(t)' = IF t \in {x, y} THEN Uses(t) + 1 ELSE Uses(t)
  BY UsesAfter
<1>5. x \in Waits /\ y \in Waits /\ Waits' = Waits \ {x, y}
  <2>1. staked \subseteq Ticket
    BY DEF TypeOK
  <2>2. \A t \in staked : Uses(t)' = IF t \in {x, y} THEN 1 ELSE Uses(t)
    BY <1>3, <1>4, <2>1
  <2> HIDE DEF x, y
  <2> QED
    BY <1>1, <1>2, <1>3, <2>2 DEF Waits
<1>6. Waiting \in Int /\ Waiting' = Waiting - stake[x] - stake[y]
  <2> HIDE DEF x, y
  <2> QED
    BY <1>1, <1>5, WaitingTwoLess
<1>7. InPlay(j) = 0 /\ InPlay(j)' = 2 * stake[j]
  <2>1. game'[j] # <<>> /\ stake' = stake
    <3>1. \A p \in Ticket \X Ticket : p # <<>>
      OBVIOUS
    <3>2. game'[j] = pair[j]
      BY <1>1 DEF TypeOK
    <3> QED
      BY <1>1, <3>1, <3>2
  <2>2. j # table'
    <3>1. table' = table /\ j # None
      BY NoneAssumption DEF tableVars
    <3> QED
      BY <1>1, <3>1 DEF TableInv
  <2> QED
    BY <1>1, <2>1, <2>2, InPlayIs, InPlayAfter
<1>8. \A h \in Ticket \ {j} : InPlay(h)' = InPlay(h)
  BY <1>1, InPlayStays DEF TypeOK
<1>9. InGames \in Int /\ InGames' = InGames + (InPlay(j)' - InPlay(j))
  BY <1>8, PlaysAreIntsNow, PlaysAreIntsAfter, InGamesChanges
<1>10. Spendable' = Spendable /\ Spendable \in Int /\ stake[j] \in Nat
  <2>1. acc \in [User -> Account]
    BY DEF TypeOK
  <2> QED
    BY <1>1, <2>1, SpendableIsInt, StakesAreAmounts DEF Spendable
<1> HIDE DEF x, y
<1> QED
  BY <1>2, <1>6, <1>7, <1>9, <1>10 DEF Funded

(* A stake is refunded: it no longer waits, its user can spend it.         *)
LEMMA RefundMoney ==
  ASSUME PlatformInv, Next, UNCHANGED tableVars, NEW e \in staked, Uses(e) = 0,
         Release(e), UNCHANGED <<stake, game, staked>>,
         \A t \in Ticket : Uses(t)' = IF t = e THEN Uses(t) + 1 ELSE Uses(t)
  PROVE  Funded' = Funded
<1> USE DEF PlatformInv
<1>1. e \in Ticket /\ who[e] \in User /\ stake[e] \in Nat
  BY StakesAreAmounts DEF TypeOK, Shape, HandShape, TicketShape, Started
<1>2. e \in Waits /\ Waits' = Waits \ {e}
  <2>1. staked \subseteq Ticket
    BY DEF TypeOK
  <2>2. \A t \in staked : Uses(t)' = IF t = e THEN 1 ELSE Uses(t)
    BY <2>1
  <2> QED
    BY <2>2 DEF Waits
<1>3. Waiting \in Int /\ Waiting' = Waiting - stake[e]
  BY <1>2, WaitingLess
<1>4. Spendable \in Int /\ Spendable' = Spendable + stake[e]
  <2>1. acc \in [User -> Account] /\ "BET_RELEASE" \in CreditType
    BY DEF TypeOK, CreditType
  <2>2. /\ Spendable \in Int
        /\ Spendable' = Spendable + (IF "BET_RELEASE" = "BET_LOCK" THEN -stake[e] ELSE stake[e])
    BY <1>1, <2>1, RowChangesSpendable DEF Release
  <2> QED
    BY <2>2
<1>5. InGames' = InGames
  BY InPlayStays, InGamesSame
<1> QED
  BY <1>1, <1>3, <1>4, <1>5 DEF Funded

LEMMA LobbyMoney ==
  ASSUME PlatformInv, PlatformInv', Lobby, disturbed = {}
  PROVE  Funded' = Funded
<1> USE DEF PlatformInv
<1>1. Next /\ UNCHANGED tableVars
  BY DEF Lobby
<1>2. ASSUME NEW t \in Ticket, LockInsert(t)
      PROVE  Funded' = Funded
  BY <1>1, <1>2, LockMoney
<1>3. ASSUME NEW j \in Ticket, SaveGame(j)
      PROVE  Funded' = Funded
  BY <1>1, <1>3, SaveMoney
<1>4. ASSUME NEW c \in Cancel, CancelRelease(c)
      PROVE  Funded' = Funded
  <2> DEFINE k == <<"cancel", c>>
             e == Target(c)
  <2>1. cpc[c] = "release" /\ Release(e) /\ UNCHANGED <<stake, game, staked>>
    BY <1>4 DEF CancelRelease, Target, joinVars
  <2>2. k \in Call /\ Out(k) = {e} /\ Used(k) = {}
    BY <2>1 DEF Call, Out, Used
  <2> HIDE DEF k, e
  <2>3. e \in Holds(k) /\ e \in staked
    BY <2>2, OutInHand, HandsArePushed DEF InHandArePushed, Pushed, Shape
  <2>4. Uses(e) = 0
    BY <2>2, <2>3 DEF EscrowInv, Once, TypeOK
  <2>5. \A t \in Ticket : Uses(t)' = IF t = e THEN Uses(t) + 1 ELSE Uses(t)
    BY <1>1, <1>4, UsesAfter DEF e
  <2> QED
    BY <1>1, <2>1, <2>3, <2>4, <2>5, RefundMoney
<1>5. ASSUME NEW w \in Sweep, SweepRelease(w)
      PROVE  Funded' = Funded
  <2> DEFINE k == <<"sweep", w>>
             e == Expiring(w)
  <2>1. wpc[w] = "release" /\ Release(e) /\ UNCHANGED <<stake, game, staked>>
    BY <1>5 DEF SweepRelease, joinVars
  <2>2. k \in Call /\ Out(k) = {e} /\ Used(k) = {}
    BY <2>1 DEF Call, Out, Used
  <2> HIDE DEF k, e
  <2>3. e \in Holds(k) /\ e \in staked
    BY <2>2, OutInHand, HandsArePushed DEF InHandArePushed, Pushed, Shape
  <2>4. Uses(e) = 0
    BY <2>2, <2>3 DEF EscrowInv, Once, TypeOK
  <2>5. \A t \in Ticket : Uses(t)' = IF t = e THEN Uses(t) + 1 ELSE Uses(t)
    BY <1>1, <1>5, UsesAfter DEF e
  <2> QED
    BY <1>1, <2>1, <2>3, <2>4, <2>5, RefundMoney
<1>6. CASE /\ \A t \in Ticket : ~LockInsert(t) /\ ~SaveGame(t)
           /\ \A c \in Cancel : ~CancelRelease(c)
           /\ \A w \in Sweep : ~SweepRelease(w)
  <2>1. acc' = acc /\ game' = game
    BY <1>1, <1>6, LedgerSteps, GamesAreSaved
  <2>2. staked' = staked
    <3>1. \A t \in Ticket : t \notin staked' \ staked
      BY <1>1, <1>6, StakedByLockInsert
    <3>2. staked \subseteq staked' /\ staked' \subseteq Ticket
      BY <1>1, StakesStay DEF TypeOK
    <3> QED
      BY <3>1, <3>2
  <2>3. \A t \in Ticket : Uses(t)' = Uses(t)
    BY <1>1, <1>6, UsesAfter
  <2>4. Waits' = Waits /\ \A t \in Waits : stake'[t] = stake[t]
    <3>1. \A t \in staked : Uses(t)' = Uses(t) /\ stake'[t] = stake[t]
      BY <1>1, <2>3, StakesStay DEF TypeOK
    <3> QED
      BY <2>2, <3>1 DEF Waits
  <2>5. Waiting' = Waiting
    BY <2>4, WaitingSame
  <2>6. InGames' = InGames
    BY <1>1, <2>1, InPlayStays, InGamesSame
  <2>7. Spendable' = Spendable
    BY <2>1 DEF Spendable
  <2> QED
    BY <2>5, <2>6, <2>7 DEF Funded
<1> QED
  BY <1>2, <1>3, <1>4, <1>5, <1>6

(* A game that begins to be played keeps its two stakes.                   *)
LEMMA OpenMoney ==
  ASSUME PlatformInv, NEW h \in Ticket, Open(h)
  PROVE  Funded' = Funded
<1> USE DEF PlatformInv
<1>1. UNCHANGED <<acc, game, stake, staked, refunds>> /\ UNCHANGED <<paid, released>>
  BY DEF Open, vars, joinVars, playVars
<1>2. table = None /\ table' = h /\ game[h] # <<>>
  BY DEF Open
<1>3. /\ NoneReleased /\ Play!TimesPaid = 0 /\ Play!TimesPaid' = 0
  BY <1>1, <1>2 DEF TableInv, Play!TimesPaid
<1>4. ASSUME NEW j \in Ticket
      PROVE  InPlay(j)' = InPlay(j)
  <2>1. j # table
    BY <1>2, NoneAssumption
  <2>2. CASE game[j] = <<>>
    BY <1>1, <2>2, InPlayIs, InPlayAfter
  <2>3. CASE game[j] # <<>> /\ j # h
    BY <1>1, <1>2, <2>1, <2>3, InPlayIs, InPlayAfter
  <2>4. CASE j = h
    <3>1. InPlay(j) = 2 * stake[j]
      BY <1>2, <2>1, <2>4, InPlayIs
    <3>2. InPlay(j)' = (2 - released'[First] - released'[Second]) * stake'[j]
      BY <1>1, <1>2, <1>3, <2>4, InPlayAfter
    <3>3. released'[First] = 0 /\ released'[Second] = 0 /\ stake'[j] = stake[j]
      BY <1>1, <1>3 DEF NoneReleased
    <3> QED
      BY <3>1, <3>2, <3>3
  <2> QED
    BY <2>2, <2>3, <2>4
<1>5. InGames' = InGames
  BY <1>4, InGamesSame
<1>6. Spendable' = Spendable /\ Waiting' = Waiting
  BY <1>1 DEF Spendable, Waiting, Uses, GamesOf, ToSet
<1> QED
  BY <1>5, <1>6 DEF Funded

(* A step about the game pays once, refunds one seat once, or neither.     *)
LEMMA PlayBooks ==
  ASSUME PlayTyped, Play!Next
  PROVE  \/ UNCHANGED <<paid, released>>
         \/ /\ released' = released
            /\ \E seat \in Seats : paid' = [paid EXCEPT ![seat] = @ + 1]
         \/ /\ paid' = paid
            /\ \E seat \in Seats : released' = [released EXCEPT ![seat] = @ + 1]
<1>1. ASSUME NEW h \in Handler,
             \/ Play!PlayerMessage(h) \/ \E w \in Play!Player : Play!ValidateLoad(h, w)
             \/ Play!CancelLoad(h) \/ Play!CancelFails(h)
      PROVE  UNCHANGED <<paid, released>>
  BY <1>1 DEF Play!PlayerMessage, Play!ValidateLoad, Play!CancelLoad, Play!CancelFails,
              Play!settleVars, Play!moneyVars
<1>2. ASSUME NEW h \in Handler,
             Play!SettleCheck(h) \/ Play!SettleRead(h) \/ Play!Commit(h) \/ Play!SettleFails(h)
      PROVE  UNCHANGED <<paid, released>>
  BY <1>2 DEF Play!SettleCheck, Play!SettleRead, Play!Commit, Play!SettleFails,
              Play!settleVars, Play!moneyVars
<1>3. CASE Play!Crash
  BY <1>3 DEF Play!Crash, Play!moneyVars
<1>4. ASSUME NEW h \in Handler, Play!Credit(h)
      PROVE  released' = released /\ \E seat \in Seats : paid' = [paid EXCEPT ![seat] = @ + 1]
  BY <1>4 DEF Play!Credit, PlayTyped
<1>5. ASSUME NEW h \in Handler, Play!Release1(h) \/ Play!Release2(h)
      PROVE  paid' = paid /\ \E seat \in Seats : released' = [released EXCEPT ![seat] = @ + 1]
  BY <1>5 DEF Play!Release1, Play!Release2, Play!ReleaseTo, Seats
<1> QED
  BY <1>1, <1>2, <1>3, <1>4, <1>5 DEF Play!Next

ComesBack ==
  PlayInv /\ ~spoiled /\ ~overlapped =>
    \A seat \in Seats :
      /\ released[seat] \in {0, 1} /\ Play!TimesPaid \in {0, 1}
      /\ Play!TimesPaid + released[seat] <= 1
      /\ Play!TimesPaid > 0 => NoneReleased

LEMMA ComesBackNow == ComesBack
BY ComesBackOnce DEF ComesBack

LEMMA ComesBackAfter == ComesBack'
BY ComesBackNow, PTL

(* What a payout or a refund takes from the game, its user can spend.      *)
LEMMA RoundMoney ==
  ASSUME PlatformInv, PlatformInv', Round, ~overlapped', ~spoiled'
  PROVE  Funded' = Funded
<1> USE DEF PlatformInv
<1> DEFINE s == stake[table]
<1>1. /\ table \in Ticket /\ game[table] # <<>> /\ table' = table
      /\ UNCHANGED <<game, stake, staked, refunds>> /\ Booked /\ Play!Next
  BY DEF Round, TableInv, lobbyVars, joinVars
<1>2. /\ s \in Nat /\ Commission[s] \in Nat /\ Prize \in Nat
      /\ Prize = 2 * s - Commission[s]
      /\ \A seat \in Seats : Seated(seat) \in User
  BY <1>1, SeatsAreTaken DEF Prize, Seated
<1>3. Waiting' = Waiting /\ Waiting \in Int
  <2>1. Waiting = SumFunctionOnSet(stake, Waits)
    BY DEF Waiting, Waits
  <2>2. Waiting \in Int
    BY <2>1, WaitsAre, SumIsInt
  <2> QED
    BY <1>1, <2>2 DEF Waiting, Uses, GamesOf, ToSet
<1>4. \A j \in Ticket \ {table} : InPlay(j)' = InPlay(j)
  BY <1>1 DEF InPlay
<1>5. InGames \in Int /\ InGames' = InGames + (InPlay(table)' - InPlay(table))
  BY <1>1, <1>4, PlaysAreIntsNow, PlaysAreIntsAfter, InGamesChanges
<1>6. /\ acc \in [User -> Account] /\ Spendable \in Int
      /\ released \in [Seats -> Nat] /\ paid \in [Seats -> Nat]
  BY SpendableIsInt DEF TypeOK, PlayInv, PlayTyped
<1>7. \A seat \in Seats :
        /\ released'[seat] \in {0, 1} /\ Play!TimesPaid' \in {0, 1}
        /\ Play!TimesPaid' + released'[seat] <= 1
        /\ Play!TimesPaid' > 0 => NoneReleased'
  BY ComesBackAfter DEF ComesBack
<1>8. /\ Play!TimesPaid = paid[First] + paid[Second]
      /\ Play!TimesPaid' = paid'[First] + paid'[Second]
      /\ First \in Seats /\ Second \in Seats /\ First # Second
      /\ \A seat \in Seats : seat = First \/ seat = Second
  BY SeatAssumption DEF Play!TimesPaid, Seats
<1>9. PlayTyped
  BY DEF PlayInv
<1>10. CASE UNCHANGED <<paid, released, acc>>
  <2>1. InPlay(table)' = InPlay(table)
    BY <1>1, <1>8, <1>10 DEF InPlay
  <2>2. InPlay(table) \in Int
    BY <1>1, PlaysAreIntsNow DEF PlaysAreInts
  <2>3. Spendable' = Spendable /\ InGames' = InGames
    BY <1>5, <1>10, <2>1, <2>2 DEF Spendable
  <2> QED
    BY <1>3, <2>3 DEF Funded
<1>11. ASSUME NEW seat \in Seats, paid'[seat] # paid[seat],
              acc' = [acc EXCEPT ![Seated(seat)] = AddRow(@, "WIN_CREDIT", Prize)]
       PROVE  Funded' = Funded
  <2>1. /\ released' = released
        /\ \E x \in Seats : paid' = [paid EXCEPT ![x] = @ + 1]
    BY <1>1, <1>9, <1>11, PlayBooks
  <2>2. Play!TimesPaid' = Play!TimesPaid + 1 /\ Play!TimesPaid \in Nat
    BY <1>6, <1>8, <2>1
  <2>3. Play!TimesPaid' = 1 /\ Play!TimesPaid = 0 /\ released[First] = 0 /\ released[Second] = 0
    BY <1>7, <1>11, <2>1, <2>2 DEF NoneReleased
  <2>4. InPlay(table) = 2 * s
    BY <1>1, <1>2, <2>3, InPlayIs
  <2>5. InPlay(table)' = Commission[s]
    BY <1>1, <2>3, InPlayAfter
  <2>6. Spendable' = Spendable + Prize
    <3>1. "WIN_CREDIT" \in CreditType
      BY DEF CreditType
    <3>2. Spendable' = Spendable + (IF "WIN_CREDIT" = "BET_LOCK" THEN -Prize ELSE Prize)
      BY <1>2, <1>6, <1>11, <3>1, RowChangesSpendable
    <3> QED
      BY <3>2
  <2> HIDE DEF s
  <2> QED
    BY <1>2, <1>3, <1>5, <1>6, <2>4, <2>5, <2>6 DEF Funded
<1>12. ASSUME NEW seat \in Seats, released'[seat] # released[seat],
              acc' = [acc EXCEPT ![Seated(seat)] = AddRow(@, "BET_RELEASE", stake[table])]
       PROVE  Funded' = Funded
  <2>1. paid' = paid
    BY <1>1, <1>9, <1>12, PlayBooks
  <2>2. PICK x \in Seats : released' = [released EXCEPT ![x] = @ + 1]
    BY <1>1, <1>9, <1>12, PlayBooks
  <2>3. x = seat /\ released'[seat] = released[seat] + 1
    BY <1>6, <1>12, <2>2
  <2>4. Play!TimesPaid' = 0 /\ Play!TimesPaid = 0
    BY <1>6, <1>7, <1>8, <2>1, <2>3
  <2>5. /\ InPlay(table) = (2 - released[First] - released[Second]) * s
        /\ InPlay(table)' = (2 - released'[First] - released'[Second]) * s
    BY <1>1, <2>4, InPlayIs, InPlayAfter
  <2>6. 2 - released'[First] - released'[Second] = (2 - released[First] - released[Second]) - 1
    BY <1>6, <1>8, <2>2
  <2>7. InPlay(table)' - InPlay(table) = -s
    <3> DEFINE n == 2 - released[First] - released[Second]
    <3>1. n \in Int
      BY <1>6, <1>8
    <3>2. \A m \in Int, a \in Nat : (m - 1) * a - m * a = -a
      OBVIOUS
    <3> HIDE DEF s, n
    <3> QED
      BY <1>2, <2>5, <2>6, <3>1, <3>2 DEF n
  <2>8. Spendable' = Spendable + s
    <3>1. "BET_RELEASE" \in CreditType
      BY DEF CreditType
    <3>2. Spendable' = Spendable + (IF "BET_RELEASE" = "BET_LOCK" THEN -s ELSE s)
      BY <1>2, <1>6, <1>12, <3>1, RowChangesSpendable
    <3> QED
      BY <3>2
  <2>9. InGames' = InGames + (-s)
    BY <1>5, <2>7
  <2> HIDE DEF s
  <2> QED
    BY <1>2, <1>3, <1>5, <1>6, <2>8, <2>9 DEF Funded
<1> QED
  BY <1>1, <1>10, <1>11, <1>12 DEF Booked, Seats

(* At first each user can spend what he deposited.                         *)
LEMMA MoneyAtFirst == PlatformInit => Funded = Cardinality(User) * Funds
<1> SUFFICES ASSUME PlatformInit PROVE Funded = Cardinality(User) * Funds
  OBVIOUS
<1>1. /\ acc = [u \in User |-> AddRow(EmptyAccount, "DEPOSIT", Funds)]
      /\ staked = {} /\ game = [t \in Ticket |-> <<>>]
  BY DEF PlatformInit, Init
<1>2. Spendable = Cardinality(User) * Funds
  <2> DEFINE f == [u \in User |-> RawAvailable(acc[u])]
             e == AddRow(EmptyAccount, "DEPOSIT", Funds)
  <2>1. Spendable = SumFunctionOnSet(f, User)
    BY DEF Spendable, SumFunction
  <2>2. EmptyAccount \in Account /\ RawAvailable(EmptyAccount) = 0
    BY DEF EmptyAccount, Account, RawAvailable, Credited, Validated, Unchecked,
           TransactionType, CreditType, ValidatedType, UncheckedType
  <2>3. RawAvailable(e) = Funds
    <3>1. RawAvailable(e) = RawAvailable(EmptyAccount) + Funds
      BY <2>2, RowCounts, FundsAssumption DEF CreditType
    <3> QED
      BY <2>2, <3>1, FundsAssumption
  <2>4. \A u \in User : f[u] = Funds
    BY <1>1, <2>3
  <2> HIDE DEF f, e
  <2> QED
    BY <2>1, <2>4, UserAssumption, FundsAssumption, SumOfEquals
<1>3. Waiting = 0
  <2>1. Waits = {}
    BY <1>1 DEF Waits
  <2> QED
    BY <2>1, SumOfNothing DEF Waiting, Waits
<1>4. InGames = 0
  <2> DEFINE f == [j \in Ticket |-> InPlay(j)]
  <2>1. InGames = SumFunctionOnSet(f, Ticket)
    BY DEF InGames, SumFunction
  <2>2. \A j \in Ticket : f[j] = 0
    BY <1>1, InPlayIs
  <2> HIDE DEF f
  <2>3. InGames = Cardinality(Ticket) * 0 /\ Cardinality(Ticket) \in Nat
    BY <2>1, <2>2, TicketAssumption, SumOfEquals, FS_CardinalityType
  <2> QED
    BY <2>3
<1>5. Cardinality(User) * Funds \in Int
  BY UserAssumption, FundsAssumption, FS_CardinalityType
<1> QED
  BY <1>2, <1>3, <1>4, <1>5 DEF Funded

LEMMA MoneyKept ==
  ASSUME PlatformInv, PlatformInv', MoneyConserved, [PlatformNext]_platformVars
  PROVE  MoneyConserved'
<1> SUFFICES ASSUME disturbed' = {}, ~overlapped', ~spoiled'
             PROVE  Funded' = Cardinality(User) * Funds
  BY DEF MoneyConserved, Funded
<1>1. CASE Lobby
  <2>1. disturbed = {} /\ ~overlapped /\ ~spoiled
    BY <1>1, DisturbedForGood DEF Lobby, PlatformInv, tableVars, playVars
  <2> QED
    BY <1>1, <2>1, LobbyMoney DEF MoneyConserved, Funded
<1>2. ASSUME NEW j \in Ticket, Open(j)
      PROVE  Funded' = Cardinality(User) * Funds
  <2>1. disturbed = {} /\ ~overlapped /\ ~spoiled
    BY <1>2 DEF Open, vars, playVars
  <2> QED
    BY <1>2, <2>1, OpenMoney DEF MoneyConserved, Funded
<1>3. CASE Round
  <2>1. disturbed = {} /\ ~overlapped /\ ~spoiled
    BY <1>3, OverlapsAreKept DEF Round, lobbyVars
  <2> QED
    BY <1>3, <2>1, RoundMoney DEF MoneyConserved, Funded
<1>4. CASE UNCHANGED platformVars
  <2>1. /\ disturbed = {} /\ ~overlapped /\ ~spoiled
        /\ UNCHANGED <<acc, staked, stake, refunds, game, table, paid, released>>
    BY <1>4 DEF platformVars, vars, joinVars, tableVars, playVars
  <2>2. Spendable' = Spendable /\ Waiting' = Waiting
    BY <2>1 DEF Spendable, Waiting, Uses, GamesOf, ToSet
  <2>3. InGames' = InGames
    BY <2>1, InGamesSame DEF InPlay, Play!TimesPaid
  <2> QED
    BY <2>1, <2>2, <2>3 DEF MoneyConserved, Funded
<1> QED
  BY <1>1, <1>2, <1>3, <1>4 DEF PlatformNext

(* MoneyConserved: what users can spend, what waits, what games keep and   *)
(* the commissions taken are what was deposited, whatever the stakes and   *)
(* the commissions are, as long as no two handlers had an entry in hand,   *)
(* no handler failed with one, requests about the game did not overlap and *)
(* none of them left its payment or refund half done.                      *)
THEOREM MoneyIsConserved == PlatformSpec => []MoneyConserved
<1>1. PlatformInit => PlatformInv /\ MoneyConserved
  BY PlatformInvInit, MoneyAtFirst DEF MoneyConserved, Funded
<1>2. PlatformInv /\ MoneyConserved /\ [PlatformNext]_platformVars
        => PlatformInv' /\ MoneyConserved'
  BY PlatformInvKept, MoneyKept
<1> QED
  BY <1>1, <1>2, PTL DEF PlatformSpec

=============================================================================
