-------------------------- MODULE SettlementProofs --------------------------
(***************************************************************************)
(* What settleGame keeps, for any number of handlers: a game remembered as *)
(* settled was paid; and a game no two handlers finish at once, and whose  *)
(* settlement no failure makes forget, is paid once at most.               *)
(***************************************************************************)
EXTENDS Settlement, GameProofs, FiniteSetTheorems

HandlerState == {"idle", "select", "update", "settle", "read", "credit",
                 "commit", "release1", "release2"}

(* The types the arguments below need, and whom a credit goes to.          *)
MoneyTyped ==
  /\ hpc \in [Handler -> HandlerState]
  /\ to \in [Handler -> Player \cup {None}]
  /\ \A h \in Handler : hpc[h] = "credit" => to[h] \in Player
  /\ paid \in [Player -> Nat]
  /\ settled \in BOOLEAN

(* The payment comes before the memory of it.                              *)
PaidFirst ==
  /\ settled => TimesPaid >= 1
  /\ \A h \in Handler : hpc[h] = "commit" => TimesPaid >= 1

PInv == MoneyTyped /\ PaidFirst

(* A message moves its own handler only, and never into settleGame's       *)
(* transaction.                                                            *)
LEMMA MessageFrame ==
  ASSUME NEW h \in Handler, hpc \in [Handler -> HandlerState],
         Message(h) \/ \E w \in Player : ValidateLoad(h, w)
  PROVE  /\ hpc[h] \in {"idle", "select", "update"}
         /\ \E s \in {"idle", "select", "update", "settle"} : hpc' = [hpc EXCEPT ![h] = s]
BY DEF Message, ValidateLoad, LoadStart, LoadRoll, LoadMove, LoadDisconnect,
       LoadReconnect, Load, Select, Save, SaveFails

(* One more credit raises the number of payments by one.                   *)
LEMMA CreditPays ==
  ASSUME MoneyTyped, NEW h \in Handler, Credit(h)
  PROVE  TimesPaid \in Nat /\ TimesPaid' = TimesPaid + 1
<1>1. to[h] \in Player /\ Player1 \in Player /\ Player2 \in Player
  BY DEF Credit, MoneyTyped, Player
<1>2. paid[Player1] \in Nat /\ paid[Player2] \in Nat
  BY <1>1 DEF MoneyTyped
<1>3. CASE to[h] = Player1
  <2>1. paid'[Player1] = paid[Player1] + 1 /\ paid'[Player2] = paid[Player2]
    BY <1>1, <1>3, PlayerAssumption DEF Credit, MoneyTyped
  <2> QED
    BY <1>2, <2>1 DEF TimesPaid
<1>4. CASE to[h] = Player2
  <2>1. paid'[Player2] = paid[Player2] + 1 /\ paid'[Player1] = paid[Player1]
    BY <1>1, <1>4, PlayerAssumption DEF Credit, MoneyTyped
  <2> QED
    BY <1>2, <2>1 DEF TimesPaid
<1> QED
  BY <1>1, <1>3, <1>4 DEF Player

(* The number of payments is a number.                                     *)
LEMMA TimesPaidNat == ASSUME MoneyTyped PROVE TimesPaid \in Nat
BY DEF MoneyTyped, TimesPaid, Player

(* No game is settled before the first message.                            *)
LEMMA PInvInit == Init => PInv
<1> SUFFICES ASSUME Init PROVE PInv
  OBVIOUS
<1>1. hpc \in [Handler -> HandlerState] /\ \A h \in Handler : hpc[h] = "idle"
  BY DEF Init, GameInit, HandlerState
<1>2. to \in [Handler -> Player \cup {None}]
  BY DEF Init
<1>3. paid \in [Player -> Nat] /\ settled = FALSE
  BY DEF Init
<1> QED
  BY <1>1, <1>2, <1>3 DEF PInv, MoneyTyped, PaidFirst

(* settled => paid, and commit => paid, are kept by every step.            *)
LEMMA PInvStep ==
  ASSUME PInv, [Next]_vars
  PROVE  PInv'
<1> USE DEF PInv
<1>1. ASSUME NEW h \in Handler,
             PlayerMessage(h) \/ \E w \in Player : ValidateLoad(h, w)
      PROVE  PInv'
  <2>1. PICK s \in {"idle", "select", "update", "settle"} : hpc' = [hpc EXCEPT ![h] = s]
    BY <1>1, MessageFrame DEF MoneyTyped, PlayerMessage
  <2>2. UNCHANGED <<settled, to, paid>>
    BY <1>1 DEF PlayerMessage, ValidateLoad, moneyVars
  <2> QED
    BY <2>1, <2>2 DEF MoneyTyped, PaidFirst, TimesPaid, HandlerState
<1>2. ASSUME NEW h \in Handler, Credit(h)
      PROVE  PInv'
  <2>1. TimesPaid \in Nat /\ TimesPaid' = TimesPaid + 1
    BY <1>2, CreditPays
  <2>2. PaidFirst'
    BY <2>1 DEF PaidFirst
  <2>3. MoneyTyped'
    BY <1>2 DEF Credit, Goto, MoneyTyped, HandlerState
  <2> QED
    BY <2>2, <2>3
<1>3. ASSUME NEW h \in Handler,
             SettleCheck(h) \/ SettleRead(h) \/ Commit(h) \/ SettleFails(h)
      PROVE  PInv'
  <2>1. UNCHANGED paid /\ TimesPaid' = TimesPaid /\ TimesPaid \in Nat
    BY <1>3, TimesPaidNat DEF SettleCheck, SettleRead, Commit, SettleFails,
                              settleVars, moneyVars, TimesPaid
  <2>2. CASE SettleCheck(h)
    BY <2>1, <2>2 DEF SettleCheck, Goto, settleVars, MoneyTyped, PaidFirst,
                      HandlerState
  <2>3. CASE SettleRead(h)
    <3>1. CASE row.status = "COMPLETED" /\ row.winner \in Player
      BY <2>1, <2>3, <3>1 DEF SettleRead, Goto, MoneyTyped, PaidFirst,
                              HandlerState
    <3>2. CASE ~(row.status = "COMPLETED" /\ row.winner \in Player)
      BY <2>1, <2>3, <3>2 DEF SettleRead, Goto, MoneyTyped, PaidFirst,
                              HandlerState
    <3> QED
      BY <3>1, <3>2
  <2>4. CASE Commit(h)
    BY <2>1, <2>4 DEF Commit, Goto, MoneyTyped, PaidFirst, HandlerState
  <2>5. CASE SettleFails(h)
    BY <2>1, <2>5 DEF SettleFails, Goto, MoneyTyped, PaidFirst, HandlerState
  <2> QED
    BY <1>3, <2>2, <2>3, <2>4, <2>5
<1>4. ASSUME NEW h \in Handler,
             CancelLoad(h) \/ Release1(h) \/ Release2(h) \/ CancelFails(h)
      PROVE  PInv'
  BY <1>4 DEF CancelLoad, Release1, Release2, ReleaseTo,
              CancelFails, Goto, settleVars, moneyVars, MoneyTyped, PaidFirst,
              TimesPaid, HandlerState
<1>5. ASSUME Crash
      PROVE  PInv'
  BY <1>5 DEF Crash, moneyVars, MoneyTyped, PaidFirst, TimesPaid, HandlerState
<1>6. CASE UNCHANGED vars
  BY <1>6 DEF vars, gameVars, handlerVars, settleVars, moneyVars, MoneyTyped,
              PaidFirst, TimesPaid
<1> QED
  BY <1>1, <1>2, <1>3, <1>4, <1>5, <1>6 DEF Next

(* A game in the set of settled games has been paid, in every state of     *)
(* every behaviour.                                                        *)
THEOREM SettledGamesArePaid == Spec => []SettledIsPaid
<1>1. PInv => SettledIsPaid
  BY DEF PInv, PaidFirst, SettledIsPaid
<1> QED
  BY <1>1, PInvInit, PInvStep, PTL DEF Spec

-----------------------------------------------------------------------------
(* At most one handler finishes the game at a time; it pays only what was  *)
(* not paid yet; and what was paid is remembered, or about to be.          *)
OneFinisher ==
  /\ \A g, h \in Handler : Finishing(g) /\ Finishing(h) => g = h
  /\ \A h \in Handler : hpc[h] \in {"read", "credit"} => TimesPaid = 0
  /\ TimesPaid <= 1
  /\ TimesPaid > 0 => settled \/ \E h \in Handler : hpc[h] = "commit"

(* A handler serves a player only from the load to the save of a message;  *)
(* so a cancellation that goes on to its save does not finish the game.    *)
Served ==
  /\ by \in [Handler -> Player \cup {None}]
  /\ DOMAIN mem = Handler
  /\ \A h \in Handler : hpc[h] \notin {"select", "update"} => by[h] = None

OnceInv == MoneyTyped /\ Served /\ (~disturbed => OneFinisher)

(* Loads set the player, saves and failures forget him.                    *)
LEMMA ServedStep ==
  ASSUME MoneyTyped, Served, [Next]_vars
  PROVE  Served'
<1> USE DEF Served, HandlerState
<1>1. ASSUME NEW h \in Handler,
             PlayerMessage(h) \/ \E w \in Player : ValidateLoad(h, w)
      PROVE  Served'
  <2>1. CASE \E n : \E op \in Op, u \in Player \cup {None} : Load(h, op, u, n)
    BY <2>1 DEF Load, MoneyTyped
  <2>2. CASE Select(h)
    BY <2>2 DEF Select, MoneyTyped
  <2>3. CASE Save(h) \/ SaveFails(h)
    BY <2>3 DEF Save, SaveFails, Write, Forget, MoneyTyped
  <2>4. \/ \E n : \E op \in Op, u \in Player \cup {None} : Load(h, op, u, n)
        \/ Select(h) \/ Save(h) \/ SaveFails(h)
    BY <1>1 DEF PlayerMessage, Message, ValidateLoad, LoadStart, LoadRoll, LoadMove,
                LoadDisconnect, LoadReconnect, Load
  <2> QED
    BY <2>1, <2>2, <2>3, <2>4
<1>2. ASSUME NEW h \in Handler,
             \/ SettleCheck(h) \/ SettleRead(h) \/ Credit(h) \/ Commit(h)
             \/ SettleFails(h) \/ CancelLoad(h) \/ Release1(h) \/ Release2(h)
      PROVE  Served'
  <2>1. /\ UNCHANGED by /\ DOMAIN mem' = Handler
        /\ hpc[h] \notin {"select", "update"}
    BY <1>2 DEF SettleCheck, SettleRead, Credit, Commit, SettleFails, CancelLoad,
                Release1, Release2, ReleaseTo, rowVars, settleVars
  <2>2. \E s \in HandlerState : hpc' = [hpc EXCEPT ![h] = s]
    BY <1>2 DEF SettleCheck, SettleRead, Credit, Commit, SettleFails, CancelLoad,
                Release1, Release2, ReleaseTo, Goto
  <2> QED
    BY <2>1, <2>2 DEF MoneyTyped
<1>3. ASSUME NEW h \in Handler, CancelFails(h)
      PROVE  Served'
  BY <1>3 DEF CancelFails, Goto, Forget, MoneyTyped
<1>4. CASE Crash
  BY <1>4 DEF Crash
<1>5. CASE UNCHANGED vars
  BY <1>5 DEF vars, gameVars, handlerVars
<1> QED
  BY <1>1, <1>2, <1>3, <1>4, <1>5 DEF Next

(* A step of settleGame but the credit: who finishes now finished before,  *)
(* and nothing is paid.                                                    *)
LEMMA SettleFrame ==
  ASSUME MoneyTyped, NEW h \in Handler,
         SettleCheck(h) \/ SettleRead(h) \/ Commit(h) \/ SettleFails(h)
  PROVE  /\ \A g \in Handler : Finishing(g)' => Finishing(g)
         /\ TimesPaid' = TimesPaid /\ UNCHANGED released
         /\ \E s \in {"idle", "read", "credit"} : hpc' = [hpc EXCEPT ![h] = s]
<1>1. UNCHANGED <<by, mem, paid, released>>
  BY DEF SettleCheck, SettleRead, Commit, SettleFails, rowVars, settleVars, moneyVars
<1>2. Finishing(h)
  BY DEF SettleCheck, SettleRead, Commit, SettleFails, Finishing
<1>3. \E s \in {"idle", "read", "credit"} : hpc' = [hpc EXCEPT ![h] = s]
  BY DEF SettleCheck, SettleRead, Commit, SettleFails, Goto
<1>4. \A g \in Handler : g # h => hpc'[g] = hpc[g]
  BY <1>3 DEF MoneyTyped
<1>5. \A g \in Handler : Finishing(g)' => Finishing(g)
  BY <1>1, <1>2, <1>4 DEF Finishing
<1> QED
  BY <1>1, <1>3, <1>5 DEF TimesPaid

(* Every step keeps the invariant.                                         *)
LEMMA OnceInvStep ==
  ASSUME PInv, PInv', OnceInv, [Next]_vars
  PROVE  OnceInv'
<1> USE DEF OnceInv
<1>0. MoneyTyped' /\ TimesPaid \in Nat /\ Served'
  BY TimesPaidNat, ServedStep DEF PInv
<1>1. ASSUME NEW h \in Handler,
             PlayerMessage(h) \/ \E w \in Player : ValidateLoad(h, w)
      PROVE  OnceInv'
  <2>1. hpc[h] \in {"idle", "select", "update"}
    BY <1>1, MessageFrame DEF MoneyTyped, PlayerMessage
  <2>2. PICK s \in {"idle", "select", "update", "settle"} : hpc' = [hpc EXCEPT ![h] = s]
    BY <1>1, MessageFrame DEF MoneyTyped, PlayerMessage
  <2>3. UNCHANGED <<settled, paid, released>> /\ Track
    BY <1>1 DEF PlayerMessage, ValidateLoad, moneyVars
  <2>4. TimesPaid' = TimesPaid
    BY <2>3 DEF TimesPaid
  <2>5. ASSUME ~disturbed'
        PROVE  OneFinisher'
    <3>1. OneFinisher /\ \A g, k \in Handler : Finishing(g)' /\ Finishing(k)' => g = k
      BY <2>3, <2>5 DEF Track
    <3>2. \A g \in Handler : hpc'[g] \in {"read", "credit"} => hpc[g] \in {"read", "credit"}
      BY <2>2 DEF MoneyTyped
    <3>3. \A g \in Handler : hpc[g] = "commit" => hpc'[g] = "commit"
      BY <2>1, <2>2 DEF MoneyTyped
    <3> QED
      BY <2>3, <2>4, <3>1, <3>2, <3>3 DEF OneFinisher
  <2> QED
    BY <1>0, <2>4, <2>5
<1>2. ASSUME NEW h \in Handler, Credit(h)
      PROVE  OnceInv'
  <2>1. TimesPaid' = TimesPaid + 1
    BY <1>2, CreditPays
  <2>2. /\ hpc[h] = "credit" /\ hpc' = [hpc EXCEPT ![h] = "commit"]
        /\ UNCHANGED <<by, mem, released, disturbed>>
    BY <1>2 DEF Credit, Goto, rowVars
  <2>4. ASSUME ~disturbed
        PROVE  OneFinisher'
    <3>1. \A g \in Handler : Finishing(g)' => Finishing(g)
      BY <2>2 DEF Finishing, MoneyTyped
    <3>2. TimesPaid = 0 /\ \A g \in Handler \ {h} : ~Finishing(g)
      BY <2>2, <2>4 DEF OneFinisher, Finishing
    <3>3. \A g \in Handler : hpc'[g] \notin {"read", "credit"}
      BY <2>2, <3>2 DEF Finishing, MoneyTyped
    <3>4. hpc'[h] = "commit"
      BY <2>2 DEF MoneyTyped
    <3> QED
      BY <2>1, <2>4, <3>1, <3>2, <3>3, <3>4 DEF OneFinisher
  <2> QED
    BY <1>0, <2>2, <2>4
<1>3. ASSUME NEW h \in Handler,
             SettleCheck(h) \/ SettleRead(h) \/ Commit(h) \/ SettleFails(h)
      PROVE  OnceInv'
  <2>1. /\ \A g \in Handler : Finishing(g)' => Finishing(g)
        /\ TimesPaid' = TimesPaid /\ UNCHANGED released
    BY <1>3, SettleFrame
  <2>2. PICK s \in {"idle", "read", "credit"} : hpc' = [hpc EXCEPT ![h] = s]
    BY <1>3, SettleFrame
  <2>4. ASSUME ~disturbed'
        PROVE  OneFinisher'
    <3>1. OneFinisher
      BY <1>3, <2>4 DEF SettleCheck, SettleRead, Commit, SettleFails, settleVars
    <3>2. \A g \in Handler : g # h => hpc'[g] = hpc[g]
      BY <2>2 DEF MoneyTyped
    <3>3. hpc'[h] \in {"read", "credit"} => TimesPaid = 0
      <4>1. CASE SettleCheck(h)
        <5>1. CASE settled
          BY <4>1, <5>1 DEF SettleCheck, Goto, MoneyTyped
        <5>2. CASE ~settled
          <6>1. \A g \in Handler : hpc[g] # "commit"
            BY <4>1, <3>1 DEF SettleCheck, OneFinisher, Finishing
          <6> QED
            BY <1>0, <3>1, <5>2, <6>1 DEF OneFinisher
        <5> QED
          BY <5>1, <5>2
      <4>2. CASE SettleRead(h)
        BY <3>1, <4>2 DEF SettleRead, OneFinisher
      <4>3. CASE Commit(h) \/ SettleFails(h)
        BY <4>3 DEF Commit, SettleFails, Goto, MoneyTyped
      <4> QED
        BY <1>3, <4>1, <4>2, <4>3
    <3>4. TimesPaid > 0 => settled' \/ \E g \in Handler : hpc'[g] = "commit"
      <4>1. CASE Commit(h)
        BY <4>1 DEF Commit
      <4>2. CASE SettleCheck(h) \/ SettleRead(h) \/ SettleFails(h)
        <5>1. settled' = settled /\ hpc[h] # "commit"
          BY <2>4, <4>2 DEF SettleCheck, SettleRead, SettleFails, settleVars
        <5> QED
          BY <3>1, <3>2, <5>1 DEF OneFinisher
      <4> QED
        BY <1>3, <4>1, <4>2
    <3> QED
      BY <2>1, <3>1, <3>2, <3>3, <3>4 DEF OneFinisher
  <2> QED
    BY <1>0, <2>4
<1>4. ASSUME NEW h \in Handler,
             CancelLoad(h) \/ Release1(h) \/ Release2(h) \/ CancelFails(h)
      PROVE  OnceInv'
  <2>1. UNCHANGED <<settled, paid, disturbed>> /\ TimesPaid' = TimesPaid
    BY <1>4 DEF CancelLoad, Release1, Release2, ReleaseTo, CancelFails, settleVars,
                moneyVars, TimesPaid
  <2>2. PICK s \in {"idle", "release1", "release2", "select"} : hpc' = [hpc EXCEPT ![h] = s]
    BY <1>4 DEF CancelLoad, Release1, Release2, ReleaseTo, CancelFails, Goto
  <2>3. hpc[h] \in {"idle", "release1", "release2"}
    BY <1>4 DEF CancelLoad, Release1, Release2, CancelFails
  <2>4. ~Finishing(h)'
    <3>1. by'[h] = None
      BY <1>4, <2>3 DEF CancelLoad, Release1, Release2, ReleaseTo, CancelFails, Forget,
                        rowVars, Served
    <3> QED
      BY <2>2, <3>1 DEF Finishing, MoneyTyped
  <2>5. \A g \in Handler \ {h} : Finishing(g)' => Finishing(g)
    <3>1. \A g \in Handler \ {h} : by'[g] = by[g] /\ mem'[g] = mem[g]
      BY <1>4 DEF CancelLoad, Release1, Release2, ReleaseTo, CancelFails, Forget,
                  rowVars, Served
    <3> QED
      BY <2>2, <3>1 DEF Finishing, MoneyTyped, Served
  <2>6. \A g \in Handler :
           /\ hpc'[g] \in {"read", "credit"} => hpc[g] \in {"read", "credit"}
           /\ hpc[g] = "commit" => hpc'[g] = "commit"
    BY <2>2, <2>3 DEF MoneyTyped
  <2>7. ASSUME ~disturbed'
        PROVE  OneFinisher'
    <3>1. OneFinisher
      BY <2>1, <2>7
    <3>2. \A g, k \in Handler : Finishing(g)' /\ Finishing(k)' => g = k
      BY <2>4, <2>5, <3>1 DEF OneFinisher
    <3> QED
      BY <2>1, <2>6, <3>1, <3>2 DEF OneFinisher
  <2> QED
    BY <1>0, <2>7
<1>5. ASSUME Crash
      PROVE  OnceInv'
  <2>1. \A h \in Handler : hpc'[h] = "idle"
    BY <1>5 DEF Crash
  <2>2. UNCHANGED <<paid, released>> /\ TimesPaid' = TimesPaid
    BY <1>5 DEF Crash, moneyVars, TimesPaid
  <2>3. ASSUME ~disturbed'
        PROVE  OneFinisher'
    <3>1. OneFinisher /\ ~settled /\ \A h \in Handler : hpc[h] # "commit"
      BY <1>5, <2>3 DEF Crash
    <3>2. TimesPaid = 0
      BY <1>0, <3>1 DEF OneFinisher
    <3>3. \A h \in Handler : ~Finishing(h)'
      BY <2>1 DEF Finishing
    <3> QED
      BY <2>1, <2>2, <3>2, <3>3 DEF OneFinisher
  <2> QED
    BY <1>0, <2>3
<1>6. CASE UNCHANGED vars
  BY <1>0, <1>6 DEF vars, gameVars, handlerVars, settleVars, moneyVars, OneFinisher,
                    Finishing, TimesPaid
<1> QED
  BY <1>1, <1>2, <1>3, <1>4, <1>5, <1>6 DEF Next

(* Nobody finishes the game, and nobody was paid, before the first         *)
(* message.                                                                *)
LEMMA OnceInvInit == Init => OnceInv
<1> SUFFICES ASSUME Init PROVE OnceInv
  OBVIOUS
<1>1. MoneyTyped
  BY PInvInit DEF PInv
<1>2. \A h \in Handler : hpc[h] = "idle"
  BY DEF Init, GameInit
<1>3. TimesPaid = 0 /\ Served
  BY DEF Init, GameInit, TimesPaid, Player, Served
<1>4. \A h \in Handler : ~Finishing(h)
  BY <1>2 DEF Finishing
<1> QED
  BY <1>1, <1>2, <1>3, <1>4 DEF OnceInv, OneFinisher

(* A game is paid once at most as long as no two handlers finish it at     *)
(* once and no failure and no restart makes settleGame forget.             *)
THEOREM UndisturbedGamesPayOnce == Spec => []UndisturbedPaysOnce
<1>1. OnceInv => UndisturbedPaysOnce
  BY DEF OnceInv, OneFinisher, UndisturbedPaysOnce
<1>2. Init => PInv /\ OnceInv
  BY PInvInit, OnceInvInit
<1>3. PInv /\ OnceInv /\ [Next]_vars => (PInv /\ OnceInv)'
  BY PInvStep, OnceInvStep
<1> QED
  BY <1>1, <1>2, <1>3, PTL DEF Spec

-----------------------------------------------------------------------------
(* Every step keeps the variables in their types.                          *)
LEMMA SettlementTypeStep ==
  ASSUME TypeOK, [Next]_vars
  PROVE  TypeOK'
<1> USE BoundAssumption
<1>1. RowsTyped /\ hpc \in [Handler -> HandlerState] /\ WaitingRow \in Row
  BY WaitingRowFacts DEF TypeOK, RowsTyped, HandlerState
<1>2. ASSUME NEW h \in Handler, PlayerMessage(h)
      PROVE  TypeOK'
  <2>1. RowsTyped' /\ hpc' \in [Handler -> HandlerState]
    BY <1>1, <1>2, MessageTyped, MessageFrame DEF PlayerMessage, HandlerState
  <2>2. disturbed' \in BOOLEAN /\ UNCHANGED <<settled, to, paid, released, faults>>
    BY <1>2 DEF PlayerMessage, Track, TypeOK, moneyVars
  <2> QED
    BY <2>1, <2>2 DEF TypeOK, RowsTyped, HandlerState
<1>3. ASSUME NEW h \in Handler, NEW w \in Player, ValidateLoad(h, w)
      PROVE  TypeOK'
  <2>1. [row EXCEPT !.status = "COMPLETED", !.winner = w] \in Row
    BY <1>1 DEF RowsTyped, Row
  <2> QED
    BY <1>3, <2>1 DEF ValidateLoad, Load, Track, TypeOK, moneyVars
<1>4. ASSUME NEW h \in Handler, SettleCheck(h) \/ SettleRead(h) \/ Commit(h) \/ SettleFails(h)
      PROVE  TypeOK'
  <2>1. CASE SettleCheck(h)
    BY <2>1 DEF SettleCheck, Goto, rowVars, settleVars, moneyVars, TypeOK
  <2>2. CASE SettleRead(h)
    BY <2>2 DEF SettleRead, Goto, rowVars, moneyVars, TypeOK
  <2>3. CASE Commit(h)
    BY <2>3 DEF Commit, Goto, rowVars, moneyVars, TypeOK
  <2>4. CASE SettleFails(h)
    BY <2>4 DEF SettleFails, Fault, Goto, rowVars, moneyVars, TypeOK
  <2> QED
    BY <1>4, <2>1, <2>2, <2>3, <2>4
<1>5. ASSUME NEW h \in Handler, Credit(h)
      PROVE  TypeOK'
  <2>1. paid' = [paid EXCEPT ![to[h]] = paid[to[h]] + 1] /\ paid \in [Player -> Nat]
    BY <1>5 DEF Credit, TypeOK
  <2>2. paid' \in [Player -> Nat]
    <3>1. CASE to[h] \in Player
      <4>1. paid[to[h]] + 1 \in Nat
        BY <2>1, <3>1
      <4> QED
        BY <2>1, <4>1
    <3>2. CASE to[h] \notin Player
      BY <2>1, <3>2
    <3> QED
      BY <3>1, <3>2
  <2> QED
    BY <1>5, <2>2 DEF Credit, Goto, rowVars, TypeOK
<1>6. ASSUME NEW h \in Handler, CancelLoad(h)
      PROVE  TypeOK'
  <2>1. [row EXCEPT !.status = "CANCELLED"] \in Row
    BY <1>1 DEF RowsTyped, Row
  <2> QED
    BY <1>6, <2>1 DEF CancelLoad, Goto, settleVars, moneyVars, TypeOK
<1>7. ASSUME NEW h \in Handler, Release1(h) \/ Release2(h)
      PROVE  TypeOK'
  BY <1>7, PlayerAssumption DEF Release1, Release2, ReleaseTo, Goto, rowVars, TypeOK, Player
<1>8. ASSUME NEW h \in Handler, CancelFails(h)
      PROVE  TypeOK'
  BY <1>1, <1>8 DEF CancelFails, Fault, Goto, Forget, moneyVars, TypeOK
<1>9. ASSUME Crash
      PROVE  TypeOK'
  <2>1. disturbed' \in BOOLEAN /\ settled' \in BOOLEAN
    BY <1>9 DEF Crash
  <2>2. faults' \in 0 .. FaultLimit
    BY <1>9 DEF Crash, Fault, TypeOK
  <2>3. UNCHANGED <<row, mixed, paid, released>>
    BY <1>9 DEF Crash, moneyVars
  <2>4. /\ hpc' = [h \in Handler |-> "idle"] /\ mem' = [h \in Handler |-> WaitingRow]
        /\ base' = [h \in Handler |-> WaitingRow] /\ by' = [h \in Handler |-> None]
        /\ fresh' = [h \in Handler |-> FALSE] /\ to' = [h \in Handler |-> None]
    BY <1>9 DEF Crash
  <2> QED
    BY <1>1, <2>1, <2>2, <2>3, <2>4 DEF TypeOK
<1>10. CASE UNCHANGED vars
  BY <1>10 DEF vars, gameVars, handlerVars, settleVars, moneyVars, TypeOK
<1> QED
  BY <1>2, <1>3, <1>4, <1>5, <1>6, <1>7, <1>8, <1>9, <1>10 DEF Next

(* Settlement keeps its variables in their types.                          *)
THEOREM SettlementTyped == Spec => []TypeOK
<1>1. Init => TypeOK
  <2> SUFFICES ASSUME Init PROVE TypeOK
    OBVIOUS
  <2>1. /\ row \in Row /\ mem \in [Handler -> Row] /\ base \in [Handler -> Row]
        /\ hpc = [h \in Handler |-> "idle"] /\ fresh = [h \in Handler |-> FALSE]
        /\ by = [h \in Handler |-> None] /\ mixed = FALSE
    BY WaitingRowFacts DEF Init, GameInit
  <2>2. faults \in 0 .. FaultLimit /\ paid \in [Player -> Nat] /\ released \in [Player -> Nat]
    BY BoundAssumption DEF Init
  <2> QED
    BY <2>1, <2>2 DEF Init, TypeOK
<1> QED
  BY <1>1, SettlementTypeStep, PTL DEF Spec

-----------------------------------------------------------------------------
(* The cancellations that are between their two releases.                  *)
Between == {h \in Handler : hpc[h] = "release2"}

LEMMA BetweenCounts ==
  /\ IsFiniteSet(Between) /\ Cardinality(Between) \in Nat
  /\ Cardinality(Handler) \in Nat /\ Cardinality(Between) <= Cardinality(Handler)
BY HandlerAssumption, FS_Subset, FS_CardinalityType DEF Between

(* A step that leaves the refunds and the handlers at that point, or moves *)
(* one of them on with its refund, keeps the balance.                      *)
LEMMA BetweenMoves ==
  ASSUME TypeOK, NEW h \in Handler, NEW s, hpc' = [hpc EXCEPT ![h] = s]
  PROVE  /\ hpc[h] # "release2" /\ s # "release2" => Between' = Between
         /\ hpc[h] # "release2" /\ s = "release2"
              => Cardinality(Between') = Cardinality(Between) + 1
         /\ hpc[h] = "release2" /\ s # "release2"
              => Cardinality(Between') = Cardinality(Between) - 1
<1>1. hpc[h] # "release2" /\ s # "release2" => Between' = Between
  BY DEF Between, TypeOK
<1>2. ASSUME hpc[h] # "release2", s = "release2"
      PROVE  Cardinality(Between') = Cardinality(Between) + 1
  <2>1. Between' = Between \cup {h} /\ h \notin Between
    BY <1>2 DEF Between, TypeOK
  <2> QED
    BY <2>1, BetweenCounts, FS_AddElement
<1>3. ASSUME hpc[h] = "release2", s # "release2"
      PROVE  Cardinality(Between') = Cardinality(Between) - 1
  <2>1. Between' = Between \ {h} /\ h \in Between
    BY <1>3 DEF Between, TypeOK
  <2> QED
    BY <2>1, BetweenCounts, FS_RemoveElement
<1> QED
  BY <1>1, <1>2, <1>3

(* RefundsPaired, with its bounds as two inequalities.                     *)
Paired ==
  LET extra == released[Player1] - released[Player2]
  IN  /\ Cardinality(Between) <= extra
      /\ extra <= Cardinality(Between) + faults * Cardinality(Handler)

(* One failure more allows for one more unmatched refund of each handler.  *)
LEMMA OneMoreFault ==
  ASSUME TypeOK
  PROVE  /\ faults \in Nat
         /\ faults * Cardinality(Handler) \in Nat
         /\ (faults + 1) * Cardinality(Handler)
              = faults * Cardinality(Handler) + Cardinality(Handler)
<1>1. \A m, n \in Nat : m * n \in Nat /\ (m + 1) * n = m * n + n
  OBVIOUS
<1>2. faults \in Nat
  BY BoundAssumption DEF TypeOK
<1> QED
  BY <1>1, <1>2, BetweenCounts

LEMMA PairedStep ==
  ASSUME TypeOK, Paired, [Next]_vars
  PROVE  Paired'
<1> DEFINE N == Cardinality(Handler)
           P == faults * N
           b == Cardinality(Between)
<1>1. /\ b \in Nat /\ N \in Nat /\ b <= N /\ P \in Nat /\ faults \in Nat
      /\ released[Player1] \in Nat /\ released[Player2] \in Nat
  BY BetweenCounts, OneMoreFault DEF TypeOK, Player
<1>2. ASSUME Between' = Between, UNCHANGED <<released, faults>>
      PROVE  Paired'
  BY <1>2 DEF Paired
<1>3. ASSUME NEW h \in Handler, PlayerMessage(h) \/ \E w \in Player : ValidateLoad(h, w)
      PROVE  Paired'
  <2>1. hpc \in [Handler -> HandlerState]
    BY DEF TypeOK, HandlerState
  <2>2. /\ hpc[h] # "release2"
        /\ \E s \in {"idle", "select", "update", "settle"} : hpc' = [hpc EXCEPT ![h] = s]
    BY <1>3, <2>1, MessageFrame DEF PlayerMessage
  <2>3. Between' = Between
    BY <2>2, BetweenMoves
  <2> QED
    BY <1>2, <1>3, <2>3 DEF PlayerMessage, ValidateLoad, moneyVars
<1>4. ASSUME NEW h \in Handler,
             \/ SettleCheck(h) \/ SettleRead(h) \/ Credit(h) \/ Commit(h) \/ CancelLoad(h)
      PROVE  Paired'
  <2>1. /\ hpc[h] # "release2"
        /\ \E s \in {"idle", "read", "credit", "commit", "release1"} :
             hpc' = [hpc EXCEPT ![h] = s]
    BY <1>4 DEF SettleCheck, SettleRead, Credit, Commit, CancelLoad, Goto
  <2>2. Between' = Between
    BY <2>1, BetweenMoves
  <2>3. UNCHANGED <<released, faults>>
    BY <1>4 DEF SettleCheck, SettleRead, Credit, Commit, CancelLoad, settleVars, moneyVars
  <2> QED
    BY <1>2, <2>2, <2>3
<1>5. ASSUME NEW h \in Handler, Release1(h)
      PROVE  Paired'
  <2>1. Cardinality(Between') = b + 1
    BY <1>5, BetweenMoves DEF Release1, ReleaseTo, Goto
  <2>2. /\ released'[Player1] = released[Player1] + 1 /\ released'[Player2] = released[Player2]
        /\ faults' = faults
    BY <1>5, PlayerAssumption DEF Release1, ReleaseTo, TypeOK, Player
  <2> HIDE DEF P, b
  <2> QED
    BY <1>1, <2>1, <2>2 DEF Paired, P, b
<1>6. ASSUME NEW h \in Handler, Release2(h)
      PROVE  Paired'
  <2>1. Cardinality(Between') = b - 1
    <3>1. hpc[h] = "release2" /\ hpc' = [hpc EXCEPT ![h] = "select"]
      BY <1>6 DEF Release2, ReleaseTo, Goto
    <3>2. "select" # "release2"
      OBVIOUS
    <3> QED
      BY <3>1, <3>2, BetweenMoves
  <2>2. /\ released'[Player2] = released[Player2] + 1 /\ released'[Player1] = released[Player1]
        /\ faults' = faults
    BY <1>6, PlayerAssumption DEF Release2, ReleaseTo, TypeOK, Player
  <2> QED
    BY <1>1, <2>1, <2>2 DEF Paired
<1>7. ASSUME UNCHANGED released, faults' = faults + 1,
             Cardinality(Between') \in Nat, Cardinality(Between') <= b,
             b <= Cardinality(Between') + N
      PROVE  Paired'
  <2>1. faults' * N = P + N
    BY <1>7, OneMoreFault
  <2> HIDE DEF P
  <2>2. P = faults * N
    BY DEF P
  <2> QED
    BY <1>1, <1>7, <2>1, <2>2 DEF Paired
<1>8. ASSUME NEW h \in Handler, SettleFails(h) \/ CancelFails(h)
      PROVE  Paired'
  <2>1. hpc' = [hpc EXCEPT ![h] = "idle"] /\ UNCHANGED released /\ faults' = faults + 1
    BY <1>8 DEF SettleFails, CancelFails, Goto, Fault, moneyVars
  <2>2. Cardinality(Between') = b \/ Cardinality(Between') = b - 1
    <3>1. "idle" # "release2"
      OBVIOUS
    <3>2. CASE hpc[h] = "release2"
      <4>1. Cardinality(Between') = Cardinality(Between) - 1
        BY <2>1, <3>1, <3>2, BetweenMoves
      <4> QED
        BY <4>1
    <3>3. CASE hpc[h] # "release2"
      <4>1. Between' = Between
        BY <2>1, <3>1, <3>3, BetweenMoves
      <4> QED
        BY <4>1
    <3> QED
      BY <3>2, <3>3
  <2>3. Cardinality(Between') \in Nat /\ 1 <= N
    <3>1. h \in Handler /\ IsFiniteSet(Handler)
      BY HandlerAssumption
    <3>2. N # 0
      BY <3>1, FS_EmptySet
    <3> QED
      BY <1>1, <3>2, BetweenCounts, <2>2, FS_CardinalityType, FS_Subset, HandlerAssumption
         DEF Between
  <2> QED
    BY <1>1, <1>7, <2>1, <2>2, <2>3
<1>9. ASSUME Crash
      PROVE  Paired'
  <2>1. Between' = {}
    BY <1>9 DEF Crash, Between
  <2>2. Cardinality(Between') = 0
    BY <2>1, FS_EmptySet
  <2> QED
    BY <1>1, <1>7, <1>9, <2>2 DEF Crash, Fault, moneyVars
<1>10. CASE UNCHANGED vars
  BY <1>2, <1>10 DEF vars, gameVars, handlerVars, settleVars, moneyVars, Between
<1> QED
  BY <1>3, <1>4, <1>5, <1>6, <1>8, <1>9, <1>10 DEF Next

(* Of the two refunds of a cancellation none is ever alone, but for those  *)
(* of calls that are between them or failed there.                         *)
THEOREM RefundsComeInPairs == Spec => []RefundsPaired
<1>1. Init => Paired
  <2> SUFFICES ASSUME Init PROVE Paired
    OBVIOUS
  <2>1. Between = {}
    BY DEF Init, GameInit, Between
  <2>2. Cardinality(Between) = 0
    BY <2>1, FS_EmptySet
  <2>3. released[Player1] = 0 /\ released[Player2] = 0 /\ faults = 0
    BY DEF Init, Player
  <2>4. 0 * Cardinality(Handler) = 0
    BY BetweenCounts
  <2> QED
    BY <2>2, <2>3, <2>4 DEF Paired
<1>2. TypeOK /\ Paired /\ [Next]_vars => Paired'
  BY PairedStep
<1>3. TypeOK /\ Paired => RefundsPaired
  <2> SUFFICES ASSUME TypeOK, Paired PROVE RefundsPaired
    OBVIOUS
  <2> DEFINE P == faults * Cardinality(Handler)
  <2>1. /\ Cardinality(Between) \in Nat /\ P \in Nat
        /\ released[Player1] \in Nat /\ released[Player2] \in Nat
    BY BetweenCounts, OneMoreFault DEF TypeOK, Player
  <2>2. /\ Cardinality(Between) <= released[Player1] - released[Player2]
        /\ released[Player1] - released[Player2] <= Cardinality(Between) + P
    BY DEF Paired
  <2> HIDE DEF P
  <2>3. released[Player1] - released[Player2]
          \in Cardinality(Between) .. (Cardinality(Between) + P)
    BY <2>1, <2>2
  <2> QED
    BY <2>3 DEF RefundsPaired, Between, P
<1> QED
  BY <1>1, <1>2, <1>3, SettlementTyped, PTL DEF Spec

=============================================================================
