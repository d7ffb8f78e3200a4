------------------------- MODULE MatchmakingProofs -------------------------
(***************************************************************************)
(* What Matchmaking promises about locked stakes, for every number of      *)
(* users, joins, cancellations and overlapping timeout runs: the types, no *)
(* stake is forgotten, none is used twice that two calls did not have in   *)
(* hand, and the calls implement StakeEscrow.                              *)
(***************************************************************************)
EXTENDS Matchmaking, FiniteSetTheorems, SequenceTheorems, WellFoundedInduction, TLAPS

-----------------------------------------------------------------------------
(* The shape of the states that are reached.                               *)

(* The step of a join tells what is known of its entry.                    *)
Started(t) == jpc[t] \notin {"new", "funded"}

TicketShape ==
  /\ \A t \in Ticket : jpc[t] # "new" => who[t] \in User /\ stake[t] \in Stake
  /\ \A t \in staked : Started(t)
  /\ \A t \in Ticket : Started(t) /\ jpc[t] # "failed" => t \in staked

(* Entry t was pushed.                                                     *)
Pushed(t) == t \in staked /\ jpc[t] # "locked"

QueueShape ==
  \A s \in Stake :
    /\ \A i \in 1 .. Len(queue[s]) : Pushed(queue[s][i]) /\ stake[queue[s][i]] = s
    /\ \A i, j \in 1 .. Len(queue[s]) : queue[s][i] = queue[s][j] => i = j

KeyShape ==
  \A u \in User : userKey[u] # None =>
    Pushed(userKey[u]) /\ who[userKey[u]] = u /\ jpc[userKey[u]] # "pushed"

Matching == {"rem1", "rem2", "save", "del1", "del2"}

PairShape ==
  \A j \in Ticket :
    IF jpc[j] \in Matching
      THEN /\ pair[j] \in Ticket \X Ticket /\ pair[j][1] # pair[j][2]
           /\ \A i \in {1, 2} : Pushed(pair[j][i]) /\ stake[pair[j][i]] = stake[j]
      ELSE pair[j] = <<>>

GameShape ==
  \A j \in Ticket : game[j] # <<>> =>
    /\ jpc[j] \in {"del1", "del2", "done", "failed"}
    /\ game[j][1] # game[j][2]
    /\ \A i \in {1, 2} : Pushed(game[j][i]) /\ stake[game[j][i]] = stake[j]

CancelFits(c) ==
  /\ cpc[c] = "idle" <=> cent[c] = None
  /\ cent[c] # None => Pushed(cent[c]) /\ jpc[cent[c]] # "pushed"
  /\ chit[c] # None => /\ cpc[c] \in {"remove", "release", "del"}
                       /\ Pushed(chit[c])
                       /\ stake[chit[c]] = stake[cent[c]] /\ who[chit[c]] = who[cent[c]]
  /\ cpc[c] = "remove" => chit[c] # None

CancelShape == \A c \in Cancel : CancelFits(c)

SweepFits(w) ==
  /\ \A i \in 1 .. Len(wlist[w]) : Pushed(wlist[w][i])
  /\ wdue[w] = {} <=> wpc[w] \in {"idle", "range"}
  /\ wpc[w] = "range" => wleft[w] # {}

SweepShape == \A w \in Sweep : SweepFits(w)

HistoryShape ==
  /\ overdue \subseteq staked
  /\ disturbed \subseteq staked
  /\ \A t \in Ticket : refunds[t] > 0 => Pushed(t)

(* What is known of the entries the calls have in hand, and the whole.     *)
HandShape == TicketShape /\ PairShape /\ CancelShape /\ SweepShape

Shape == HandShape /\ QueueShape /\ KeyShape /\ GameShape /\ HistoryShape

-----------------------------------------------------------------------------
(* The entry a call refunds.                                               *)
Target(c) == IF chit[c] = None THEN cent[c] ELSE chit[c]

(* Of the entries call k has in hand: those that are out of the queue,     *)
(* those it has put into a game or refunded, and of these the ones whose   *)
(* user's key it has yet to delete.                                        *)
Out(k) ==
  CASE k[1] = "join" ->
         (CASE jpc[k[2]] = "rem2" -> {pair[k[2]][1]}
            [] jpc[k[2]] \in {"save", "del1", "del2"} -> {pair[k[2]][1], pair[k[2]][2]}
            [] OTHER -> {})
    [] k[1] = "cancel" -> IF cpc[k[2]] \in {"release", "del"} THEN {Target(k[2])} ELSE {}
    [] k[1] = "sweep" -> IF wpc[k[2]] \in {"release", "del"} THEN {Expiring(k[2])} ELSE {}

Used(k) ==
  CASE k[1] = "join" ->
         IF jpc[k[2]] \in {"del1", "del2"} THEN {pair[k[2]][1], pair[k[2]][2]} ELSE {}
    [] k[1] = "cancel" -> IF cpc[k[2]] = "del" THEN {Target(k[2])} ELSE {}
    [] k[1] = "sweep" -> IF wpc[k[2]] = "del" THEN {Expiring(k[2])} ELSE {}

Linked(k) ==
  CASE k[1] = "join" ->
         (CASE jpc[k[2]] = "del1" -> {pair[k[2]][1], pair[k[2]][2]}
            [] jpc[k[2]] = "del2" -> {pair[k[2]][2]}
            [] OTHER -> {})
    [] OTHER -> Used(k)

(* One call at most has t in hand.                                         *)
Sole(t) == \A g, h \in Call : t \in Holds(g) /\ t \in Holds(h) => g = h

(* Entry t is used once at most, by the call that has it in hand, which    *)
(* takes it out of the queue before and deletes its user's key after.      *)
Once(t) ==
  /\ Uses(t) \in {0, 1}
  /\ Queued(t) => Uses(t) = 0
  /\ jpc[t] \in {"new", "funded", "locked", "pushed"} => Uses(t) = 0
  /\ \A u \in User : userKey[u] = t => Uses(t) = 0 \/ \E k \in Call : t \in Linked(k)
  /\ \A k \in Call :
       /\ t \in Holds(k) => (t \in Used(k) <=> Uses(t) = 1)
       /\ t \in Out(k) => ~Queued(t)

EscrowInv == \A t \in Ticket \ disturbed : Sole(t) /\ Once(t)

-----------------------------------------------------------------------------
(* Operators on sequences.                                                 *)

LEMMA LeastIsIn ==
  ASSUME NEW I \in SUBSET Nat, I # {}
  PROVE  Min(I) \in I
<1> DEFINE Less == {p \in Nat \X Nat : p[1] < p[2]}
<1>1. IsWellFoundedOn(Less, Nat)
  BY NatLessThanWellFounded DEF OpToRel
<1> HIDE DEF Less
<1>2. PICK x \in I : \A y \in I : ~ (<<y, x>> \in Less)
  BY <1>1, WFMin
<1>3. ASSUME NEW y \in I
      PROVE  x <= y
  <2>1. x \in Nat /\ y \in Nat
    OBVIOUS
  <2>2. <<y, x>> \in Less <=> y < x
    BY <2>1 DEF Less
  <2> QED
    BY <1>2, <2>1, <2>2
<1> QED
  BY <1>3 DEF Min

LEMMA FirstOf ==
  ASSUME NEW S, NEW s \in Seq(S), NEW D
  PROVE  LET i == SelectInSeq(s, LAMBDA t : t \in D)
         IN  /\ i \in 0 .. Len(s)
             /\ i # 0 => s[i] \in D
             /\ i = 0 => \A n \in 1 .. Len(s) : s[n] \notin D
<1> DEFINE I == {n \in 1 .. Len(s) : s[n] \in D}
<1>1. I \in SUBSET Nat /\ Len(s) \in Nat
  OBVIOUS
<1>2. SelectInSeq(s, LAMBDA t : t \in D) = IF I # {} THEN Min(I) ELSE 0
  BY DEF SelectInSeq
<1>3. I # {} => Min(I) \in I
  BY <1>1, LeastIsIn
<1> QED
  BY <1>1, <1>2, <1>3

LEMMA FirstOfOwner ==
  ASSUME NEW S, NEW s \in Seq(S), NEW u
  PROVE  LET i == SelectInSeq(s, LAMBDA t : who[t] = u)
         IN  /\ i \in 0 .. Len(s)
             /\ i # 0 => who[s[i]] = u
             /\ i = 0 => \A n \in 1 .. Len(s) : who[s[n]] # u
<1> DEFINE I == {n \in 1 .. Len(s) : who[s[n]] = u}
<1>1. I \in SUBSET Nat /\ Len(s) \in Nat
  OBVIOUS
<1>2. SelectInSeq(s, LAMBDA t : who[t] = u) = IF I # {} THEN Min(I) ELSE 0
  BY DEF SelectInSeq
<1>3. I # {} => Min(I) \in I
  BY <1>1, LeastIsIn
<1> QED
  BY <1>1, <1>2, <1>3

(* LREM takes out one occurrence, and of a list without repetitions the    *)
(* value itself.                                                           *)
LEMMA RemoveFirstFacts ==
  ASSUME NEW S, NEW s \in Seq(S), NEW e
  PROVE  /\ RemoveFirst(s, e) \in Seq(S)
         /\ \A x : Contains(RemoveFirst(s, e), x) => Contains(s, x)
         /\ \A x : x # e /\ Contains(s, x) => Contains(RemoveFirst(s, e), x)
         /\ (\A i, j \in 1 .. Len(s) : s[i] = s[j] => i = j)
              => /\ ~Contains(RemoveFirst(s, e), e)
                 /\ \A i, j \in 1 .. Len(RemoveFirst(s, e)) :
                      RemoveFirst(s, e)[i] = RemoveFirst(s, e)[j] => i = j
<1> DEFINE I == {n \in 1 .. Len(s) : s[n] = e}
           k == Min(I)
           r == RemoveFirst(s, e)
<1>1. CASE I = {}
  <2>1. r = s /\ ~Contains(s, e)
    BY <1>1 DEF RemoveFirst, Contains
  <2> QED
    BY <2>1
<1>2. CASE I # {}
  <2>1. k \in 1 .. Len(s) /\ s[k] = e /\ Len(s) \in Nat
    BY <1>2, LeastIsIn
  <2>2. SelectInSeq(s, LAMBDA v : v = e) = k
    BY <1>2 DEF SelectInSeq
  <2> HIDE DEF k
  <2>3. r = SubSeq(s, 1, k - 1) \o SubSeq(s, k + 1, Len(s))
    BY <1>2, <2>2 DEF RemoveFirst, RemoveAt
  <2> HIDE DEF r
  <2>4. /\ r \in Seq(S) /\ Len(r) = Len(s) - 1
        /\ \A i \in 1 .. Len(r) : r[i] = IF i < k THEN s[i] ELSE s[i + 1]
    <3> DEFINE a == SubSeq(s, 1, k - 1)
               b == SubSeq(s, k + 1, Len(s))
    <3>1. /\ a \in Seq(S) /\ Len(a) = k - 1
          /\ \A i \in 1 .. k - 1 : a[i] = s[i]
      BY <2>1
    <3>2. /\ b \in Seq(S) /\ Len(b) = Len(s) - k
          /\ \A i \in 1 .. Len(s) - k : b[i] = s[i + k]
      BY <2>1
    <3> HIDE DEF a, b
    <3>3. /\ a \o b \in Seq(S) /\ Len(a \o b) = Len(a) + Len(b)
          /\ \A i \in 1 .. Len(a) + Len(b) :
               (a \o b)[i] = IF i <= Len(a) THEN a[i] ELSE b[i - Len(a)]
      BY <3>1, <3>2, ConcatProperties
    <3>4. r = a \o b
      BY <2>3 DEF a, b
    <3>5. ASSUME NEW i \in 1 .. Len(r)
          PROVE  r[i] = IF i < k THEN s[i] ELSE s[i + 1]
      <4>1. CASE i < k
        BY <2>1, <3>1, <3>2, <3>3, <3>4, <4>1
      <4>2. CASE i >= k
        <5>1. i - Len(a) \in 1 .. Len(s) - k /\ (i - Len(a)) + k = i + 1
          <6>1. Len(a) = k - 1 /\ Len(b) = Len(s) - k /\ Len(r) = Len(a) + Len(b)
            BY <3>1, <3>2, <3>3, <3>4
          <6>2. Len(r) = Len(s) - 1 /\ k \in Int /\ Len(s) \in Int
            BY <2>1, <6>1
          <6>3. i \in Int /\ i <= Len(s) - 1
            BY <6>2
          <6> QED
            BY <4>2, <6>1, <6>2, <6>3
        <5>2. b[i - Len(a)] = s[i + 1]
          BY <3>2, <5>1
        <5>3. (a \o b)[i] = b[i - Len(a)]
          BY <2>1, <3>1, <3>2, <3>3, <3>4, <4>2
        <5> QED
          BY <2>1, <3>4, <4>2, <5>2, <5>3
      <4> QED
        BY <2>1, <3>1, <3>2, <3>3, <3>4, <4>1, <4>2
    <3>6. r \in Seq(S)
      BY <3>3, <3>4
    <3>7. Len(r) = Len(s) - 1
      <4>1. Len(r) = Len(a) + Len(b)
        BY <3>3, <3>4
      <4> QED
        BY <2>1, <3>1, <3>2, <4>1
    <3> QED
      BY <3>5, <3>6, <3>7
  <2>5. \A x : Contains(r, x) => Contains(s, x)
    BY <2>1, <2>4 DEF Contains
  <2>6. ASSUME NEW x, x # e, Contains(s, x)
        PROVE  Contains(r, x)
    <3>1. PICK i \in 1 .. Len(s) : s[i] = x
      BY <2>6 DEF Contains
    <3>2. IF i < k THEN i \in 1 .. Len(r) /\ r[i] = x
                   ELSE i - 1 \in 1 .. Len(r) /\ r[i - 1] = x
      BY <2>1, <2>4, <2>6, <3>1
    <3> QED
      BY <3>2 DEF Contains
  <2>7. ASSUME \A i, j \in 1 .. Len(s) : s[i] = s[j] => i = j
        PROVE  /\ ~Contains(r, e)
               /\ \A i, j \in 1 .. Len(r) : r[i] = r[j] => i = j
    BY <2>1, <2>4, <2>7 DEF Contains
  <2> QED
    BY <2>4, <2>5, <2>6, <2>7 DEF r
<1> QED
  BY <1>1, <1>2

-----------------------------------------------------------------------------
(* Types.                                                                  *)

LEMMA RowsAdded ==
  ASSUME NEW a \in Account, NEW type \in TransactionType, NEW n \in Nat
  PROVE  AddRow(a, type, n) \in Account
BY DEF AddRow, Account

LEMMA PairIsPair ==
  ASSUME NEW S, NEW s \in Seq(S), Len(s) >= 2
  PROVE  SubSeq(s, 1, 2) = <<s[1], s[2]>> /\ s[1] \in S /\ s[2] \in S
<1>1. Len(s) \in Nat /\ s[1] \in S /\ s[2] \in S
  OBVIOUS
<1>2. /\ SubSeq(s, 1, 2) \in Seq(S) /\ Len(SubSeq(s, 1, 2)) = 2
      /\ SubSeq(s, 1, 2)[1] = s[1] /\ SubSeq(s, 1, 2)[2] = s[2]
  BY <1>1
<1> DEFINE p == SubSeq(s, 1, 2)
           q == <<s[1], s[2]>>
<1>3. q \in Seq(S) /\ Len(q) = 2 /\ q[1] = s[1] /\ q[2] = s[2]
  BY <1>1
<1> HIDE DEF p, q
<1>4. p = q
  <2>1. /\ p \in Seq(S) /\ Len(p) = 2
        /\ p[1] = s[1] /\ p[2] = s[2]
    BY <1>2 DEF p
  <2>2. \A i \in 1 .. Len(p) : p[i] = q[i]
    BY <2>1, <1>3
  <2> QED
    BY <2>1, <2>2, <1>3, SeqEqual
<1> QED
  BY <1>1, <1>4 DEF p, q

(* What the next run of the timeout checker's loop acts upon.              *)
LEMMA ExpiringIsDue ==
  ASSUME TypeOK, NEW w \in Sweep, wdue[w] # {}
  PROVE  /\ Expiring(w) \in wdue[w] /\ Expiring(w) \in Ticket
         /\ \E i \in 1 .. Len(wlist[w]) : Expiring(w) = wlist[w][i]
<1> DEFINE D == wdue[w]
           i == SelectInSeq(wlist[w], LAMBDA t : t \in wdue[w])
<1>1. /\ wlist[w] \in Seq(Ticket) /\ wdue[w] \subseteq ToSet(wlist[w])
      /\ wdue[w] \subseteq Ticket
  BY DEF TypeOK
<1>2. \E n \in 1 .. Len(wlist[w]) : wlist[w][n] \in wdue[w]
  BY <1>1 DEF ToSet
<1>3. /\ i \in 0 .. Len(wlist[w])
      /\ i # 0 => wlist[w][i] \in wdue[w]
      /\ i = 0 => \A n \in 1 .. Len(wlist[w]) : wlist[w][n] \notin wdue[w]
  BY <1>1, FirstOf
<1>4. Expiring(w) = wlist[w][i]
  BY DEF Expiring
<1> HIDE DEF i
<1>5. Len(wlist[w]) \in Nat
  BY <1>1
<1> QED
  BY <1>1, <1>2, <1>3, <1>4, <1>5

LEMMA InitTyped == Init => TypeOK
<1> SUFFICES ASSUME Init PROVE TypeOK
  OBVIOUS
<1>1. EmptyAccount \in Account
  BY DEF EmptyAccount, Account
<1>2. AddRow(EmptyAccount, "DEPOSIT", Funds) \in Account
  BY <1>1, RowsAdded, FundsAssumption
     DEF TransactionType, CreditType, ValidatedType, UncheckedType
<1> QED
  BY <1>2, FundsAssumption, FaultAssumption DEF Init, TypeOK

LEMMA StakesAreAmounts ==
  ASSUME TypeOK, NEW t \in Ticket
  PROVE  stake[t] \in Nat
<1>1. stake[t] \in Stake \/ stake[t] = 0
  BY DEF TypeOK
<1>2. CASE stake[t] = 0
  BY <1>2
<1>3. CASE stake[t] \in Stake
  BY <1>3, StakeAssumption
<1> QED
  BY <1>1, <1>2, <1>3

LEMMA HandsAreTickets ==
  ASSUME TypeOK
  PROVE  /\ \A t \in Ticket : JoinHolds(t) \subseteq Ticket
         /\ \A c \in Cancel : CancelHolds(c) \subseteq Ticket
         /\ \A w \in Sweep : SweepHolds(w) \subseteq Ticket
<1>1. ASSUME NEW t \in Ticket
      PROVE  JoinHolds(t) \subseteq Ticket
  <2>1. ToSet(pair[t]) \subseteq Ticket
    <3>1. CASE pair[t] = <<>>
      BY <3>1 DEF ToSet
    <3>2. CASE pair[t] \in Ticket \X Ticket
      BY <3>2 DEF ToSet
    <3> QED
      BY <3>1, <3>2 DEF TypeOK
  <2> QED
    BY <2>1 DEF JoinHolds
<1>2. ASSUME NEW c \in Cancel
      PROVE  CancelHolds(c) \subseteq Ticket
  BY DEF TypeOK, CancelHolds
<1>3. ASSUME NEW w \in Sweep
      PROVE  SweepHolds(w) \subseteq Ticket
  BY DEF TypeOK, SweepHolds
<1> QED
  BY <1>1, <1>2, <1>3

(* Taking an entry out of a list of the queue keeps the types.             *)
LEMMA RemovalTyped ==
  ASSUME TypeOK, NEW s, NEW e, queue' = [queue EXCEPT ![s] = RemoveFirst(@, e)]
  PROVE  queue' \in [Stake -> Seq(Ticket)]
<1>1. queue \in [Stake -> Seq(Ticket)]
  BY DEF TypeOK
<1>2. \A r \in Stake : RemoveFirst(queue[r], e) \in Seq(Ticket)
  BY <1>1, RemoveFirstFacts
<1>3. ASSUME NEW r \in Stake
      PROVE  queue'[r] \in Seq(Ticket)
  <2>1. CASE r = s
    <3>1. queue'[r] = RemoveFirst(queue[r], e)
      BY <1>1, <2>1
    <3> QED
      BY <1>2, <3>1
  <2>2. CASE r # s
    BY <1>1, <2>2
  <2> QED
    BY <2>1, <2>2
<1>4. queue' = [r \in Stake |-> queue'[r]]
  BY <1>1
<1> QED
  BY <1>3, <1>4

LEMMA ReleaseTyped ==
  ASSUME TypeOK, NEW t \in Ticket, who[t] \in User, Release(t)
  PROVE  acc' \in [User -> Account] /\ refunds' \in [Ticket -> Nat]
<1>1. stake[t] \in Nat /\ acc[who[t]] \in Account
  BY StakesAreAmounts DEF TypeOK
<1>2. AddRow(acc[who[t]], "BET_RELEASE", stake[t]) \in Account
  BY <1>1, RowsAdded DEF TransactionType, CreditType, ValidatedType, UncheckedType
<1> QED
  BY <1>2 DEF Release, TypeOK

LEMMA TypedJoin ==
  ASSUME TypeOK, Shape, NEW t \in Ticket, JoinStep(t) \/ JoinFail(t)
  PROVE  TypeOK'
<1> USE DEF sweepVars, cancelVars, redisVars
<1>1. CASE LockInsert(t)
  <2>1. stake[t] \in Nat /\ who[t] \in User
    BY <1>1, StakesAreAmounts DEF LockInsert, Shape, HandShape, TicketShape
  <2>2. AddRow(acc[who[t]], "BET_LOCK", stake[t]) \in Account
    BY <2>1, RowsAdded
       DEF TypeOK, TransactionType, CreditType, ValidatedType, UncheckedType
  <2>3. acc' \in [User -> Account]
    BY <1>1, <2>1, <2>2 DEF LockInsert, TypeOK
  <2> QED
    BY <1>1, <2>3 DEF LockInsert, TypeOK
<1>2. CASE LockRefused(t)
  <2>1. faults' \in 0 .. FaultLimit
    BY <1>2, FaultAssumption DEF LockRefused, FaultUnless, TypeOK
  <2> QED
    BY <1>2, <2>1 DEF LockRefused, TypeOK
<1>3. CASE Push(t)
  <2>1. \A s \in Stake : <<t>> \o queue[s] \in Seq(Ticket)
    BY ConcatProperties DEF TypeOK
  <2>2. queue' \in [Stake -> Seq(Ticket)]
    BY <1>3, <2>1 DEF Push, Cons, TypeOK
  <2> QED
    BY <1>3, <2>2 DEF Push, TypeOK
<1>4. CASE SetKey(t)
  BY <1>4 DEF SetKey, TypeOK
<1>5. CASE Range01(t)
  <2>1. stake[t] \in Stake
    BY <1>5 DEF Range01, Shape, HandShape, TicketShape
  <2>2. queue[stake[t]] \in Seq(Ticket)
    BY <2>1 DEF TypeOK
  <2>3. Len(queue[stake[t]]) >= 2 => SubSeq(queue[stake[t]], 1, 2) \in Ticket \X Ticket
    BY <2>2, PairIsPair
  <2>4. Len(queue[stake[t]]) \in Nat
    BY <2>2
  <2>5. pair' \in [Ticket -> {<<>>} \cup (Ticket \X Ticket)]
    <3>1. \/ pair' = pair
          \/ /\ pair' = [pair EXCEPT ![t] = SubSeq(queue[stake[t]], 1, 2)]
             /\ Len(queue[stake[t]]) >= 2
      <4>1. CASE Len(queue[stake[t]]) < 2
        BY <1>5, <4>1 DEF Range01
      <4>2. CASE ~(Len(queue[stake[t]]) < 2)
        BY <1>5, <4>2, <2>4 DEF Range01
      <4> QED
        BY <4>1, <4>2
    <3> QED
      BY <2>3, <3>1 DEF TypeOK
  <2>6. disturbed' \subseteq Ticket
    BY <1>5 DEF Range01, Track, TypeOK
  <2> QED
    BY <1>5, <2>5, <2>6 DEF Range01, TypeOK
<1>6. CASE Rem1(t)
  <2>1. queue' \in [Stake -> Seq(Ticket)]
    BY <1>6, RemovalTyped DEF Rem1, Rem
  <2> QED
    BY <1>6, <2>1 DEF Rem1, Rem, TypeOK
<1>7. CASE Rem2(t)
  <2>1. queue' \in [Stake -> Seq(Ticket)]
    BY <1>7, RemovalTyped DEF Rem2, Rem
  <2> QED
    BY <1>7, <2>1 DEF Rem2, Rem, TypeOK
<1>8. CASE SaveGame(t)
  BY <1>8 DEF SaveGame, TypeOK
<1>9. CASE Del1(t)
  <2>1. userKey' \in [User -> Ticket \cup {None}]
    BY <1>9 DEF Del1, DelKey, TypeOK
  <2> QED
    BY <1>9, <2>1 DEF Del1, DelKey, TypeOK
<1>10. CASE Del2(t)
  <2>1. userKey' \in [User -> Ticket \cup {None}]
    BY <1>10 DEF Del2, DelKey, TypeOK
  <2>2. pair' \in [Ticket -> {<<>>} \cup (Ticket \X Ticket)]
    BY <1>10 DEF Del2, TypeOK
  <2> QED
    BY <1>10, <2>1, <2>2 DEF Del2, DelKey, TypeOK
<1>11. CASE JoinFail(t)
  <2>1. faults' \in 0 .. FaultLimit
    BY <1>11, FaultAssumption DEF JoinFail, FaultUnless, TypeOK
  <2>2. disturbed' \subseteq Ticket
    BY <1>11, HandsAreTickets DEF JoinFail, TypeOK
  <2> QED
    BY <1>11, <2>1, <2>2 DEF JoinFail, TypeOK
<1> QED
  BY <1>1, <1>2, <1>3, <1>4, <1>5, <1>6, <1>7, <1>8, <1>9,
     <1>10, <1>11 DEF JoinStep

LEMMA TypedCancel ==
  ASSUME TypeOK, Shape, NEW c \in Cancel, CancelStep(c) \/ CancelFail(c)
  PROVE  TypeOK'
<1> USE DEF sweepVars, joinVars, redisVars
<1>1. CASE CancelRange(c)
  <2>1. cpc[c] = "got" /\ cent[c] # None
    BY <1>1 DEF CancelRange, Shape, HandShape, CancelShape, CancelFits
  <2>2. cent[c] \in Ticket /\ Pushed(cent[c])
    BY <2>1 DEF TypeOK, Shape, HandShape, CancelShape, CancelFits
  <2>3. stake[cent[c]] \in Stake
    BY <2>2 DEF Pushed, Shape, HandShape, TicketShape, Started
  <2> DEFINE entries == queue[stake[cent[c]]]
             first == SelectInSeq(entries, LAMBDA t : who[t] = who[cent[c]])
  <2>4. entries \in Seq(Ticket)
    BY <2>3 DEF TypeOK
  <2>5. /\ first \in 0 .. Len(entries)
        /\ first # 0 => who[entries[first]] = who[cent[c]]
        /\ first = 0 => \A n \in 1 .. Len(entries) : who[entries[n]] # who[cent[c]]
    BY <2>4, FirstOfOwner
  <2>6. \/ chit' = chit
        \/ first # 0 /\ chit' = [chit EXCEPT ![c] = entries[first]]
    <3>1. CASE first = 0
      BY <1>1, <3>1 DEF CancelRange
    <3>2. CASE first # 0
      BY <1>1, <3>2 DEF CancelRange
    <3> QED
      BY <3>1, <3>2
  <2>7. cpc' \in [Cancel -> {"idle", "got", "remove", "release", "del"}]
    <3>1. CASE first = 0
      BY <1>1, <3>1 DEF CancelRange, TypeOK
    <3>2. CASE first # 0
      <4>1. cpc' = [cpc EXCEPT ![c] = "remove"]
        BY <1>1, <3>2 DEF CancelRange
      <4> QED
        BY <4>1 DEF TypeOK
    <3> QED
      BY <3>1, <3>2
  <2>8. first # 0 => entries[first] \in Ticket
    <3> HIDE DEF first, entries
    <3>1. Len(entries) \in Nat
      BY <2>4
    <3> QED
      BY <2>4, <2>5, <3>1
  <2>9. chit' \in [Cancel -> Ticket \cup {None}]
    BY <2>6, <2>8 DEF TypeOK
  <2>10. disturbed' \subseteq Ticket
    BY <1>1 DEF CancelRange, Track, TypeOK
  <2> QED
    BY <1>1, <2>7, <2>9, <2>10 DEF CancelRange, TypeOK
<1>2. CASE CancelRem(c)
  <2>1. queue' \in [Stake -> Seq(Ticket)]
    BY <1>2, RemovalTyped DEF CancelRem
  <2> QED
    BY <1>2, <2>1 DEF CancelRem, TypeOK
<1>3. CASE CancelRelease(c)
  <2>1. Target(c) \in Ticket /\ who[Target(c)] \in User
    <3>1. cent[c] # None
      BY <1>3 DEF CancelRelease, Shape, HandShape, CancelShape, CancelFits
    <3>2. Target(c) \in Ticket /\ Pushed(Target(c))
      BY <3>1 DEF Target, TypeOK, Shape, HandShape, CancelShape, CancelFits
    <3> QED
      BY <3>2 DEF Pushed, Shape, HandShape, TicketShape, Started
  <2>2. acc' \in [User -> Account] /\ refunds' \in [Ticket -> Nat]
    BY <1>3, <2>1, ReleaseTyped DEF CancelRelease, Target
  <2> QED
    BY <1>3, <2>2 DEF CancelRelease, TypeOK
<1>4. CASE CancelDel(c)
  <2>1. userKey' \in [User -> Ticket \cup {None}]
    BY <1>4 DEF CancelDel, DelKey, TypeOK
  <2> QED
    BY <1>4, <2>1 DEF CancelDel, EndCancel, DelKey, TypeOK
<1>5. CASE CancelFail(c)
  <2>1. faults' \in 0 .. FaultLimit
    BY <1>5, FaultAssumption DEF CancelFail, FaultUnless, TypeOK
  <2>2. disturbed' \subseteq Ticket
    BY <1>5, HandsAreTickets DEF CancelFail, TypeOK
  <2> QED
    BY <1>5, <2>1, <2>2 DEF CancelFail, EndCancel, TypeOK
<1> QED
  BY <1>1, <1>2, <1>3, <1>4, <1>5 DEF CancelStep

(* Where the loops of the timeout checker go next.                         *)
LEMMA SweepToTyped ==
  ASSUME TypeOK, NEW w \in Sweep, NEW list \in Seq(Ticket),
         NEW due \in SUBSET ToSet(list), NEW left \in SUBSET SweptStake,
         SweepTo(w, list, due, left)
  PROVE  /\ wlist' \in [Sweep -> Seq(Ticket)]
         /\ wdue' \in [Sweep -> SUBSET Ticket]
         /\ wleft' \in [Sweep -> SUBSET SweptStake]
         /\ wpc' \in [Sweep -> {"idle", "range", "remove", "release", "del"}]
         /\ \A v \in Sweep : wdue'[v] \subseteq ToSet(wlist'[v])
<1>1. ToSet(list) \subseteq Ticket
  BY DEF ToSet
<1>2. <<>> \in Seq(Ticket)
  OBVIOUS
<1>3. wlist' \in [Sweep -> Seq(Ticket)]
  BY <1>2 DEF SweepTo, TypeOK
<1>4. wdue' \in [Sweep -> SUBSET Ticket]
  BY <1>1 DEF SweepTo, TypeOK
<1>5. wleft' \in [Sweep -> SUBSET SweptStake]
  BY DEF SweepTo, TypeOK
<1>6. wpc' \in [Sweep -> {"idle", "range", "remove", "release", "del"}]
  BY DEF SweepTo, TypeOK
<1>7. ASSUME NEW v \in Sweep
      PROVE  wdue'[v] \subseteq ToSet(wlist'[v])
  <2>1. CASE v = w
    <3>1. wdue'[v] = due /\ (due # {} => wlist'[v] = list)
      BY <2>1 DEF SweepTo, TypeOK
    <3> QED
      BY <3>1
  <2>2. CASE v # w
    <3>1. wdue'[v] = wdue[v] /\ wlist'[v] = wlist[v]
      BY <2>2 DEF SweepTo, TypeOK
    <3> QED
      BY <3>1 DEF TypeOK
  <2> QED
    BY <2>1, <2>2
<1> QED
  BY <1>3, <1>4, <1>5, <1>6, <1>7

LEMMA TypedSweep ==
  ASSUME TypeOK, Shape, NEW w \in Sweep, SweepStep(w)
  PROVE  TypeOK'
<1> USE DEF cancelVars, joinVars, redisVars
<1>1. CASE SweepTick(w)
  BY <1>1 DEF SweepTick, TypeOK
<1>2. CASE SweepRange(w)
  <2> DEFINE s == CHOOSE x \in wleft[w] : \A y \in wleft[w] : x <= y
             entries == IF s \in Stake THEN queue[s] ELSE <<>>
  <2>1. SweepTo(w, entries, ToSet(entries) \cap overdue, wleft[w] \ {s})
    BY <1>2 DEF SweepRange
  <2>2. entries \in Seq(Ticket)
    BY DEF TypeOK
  <2>3. wleft[w] \ {s} \in SUBSET SweptStake
    BY DEF TypeOK
  <2>4. disturbed' \subseteq Ticket
    BY <1>2 DEF SweepRange, Track, TypeOK
  <2> HIDE DEF s, entries
  <2>5. /\ wlist' \in [Sweep -> Seq(Ticket)]
        /\ wdue' \in [Sweep -> SUBSET Ticket]
        /\ wleft' \in [Sweep -> SUBSET SweptStake]
        /\ wpc' \in [Sweep -> {"idle", "range", "remove", "release", "del"}]
        /\ \A v \in Sweep : wdue'[v] \subseteq ToSet(wlist'[v])
    BY <2>1, <2>2, <2>3, SweepToTyped
  <2> QED
    BY <1>2, <2>4, <2>5 DEF SweepRange, TypeOK
<1>3. CASE SweepRem(w)
  <2>1. queue' \in [Stake -> Seq(Ticket)]
    BY <1>3, RemovalTyped DEF SweepRem
  <2> QED
    BY <1>3, <2>1 DEF SweepRem, TypeOK
<1>4. CASE SweepRelease(w)
  <2>1. Expiring(w) \in Ticket /\ who[Expiring(w)] \in User
    <3>1. wdue[w] # {}
      BY <1>4 DEF SweepRelease, Shape, HandShape, SweepShape, SweepFits
    <3>2. Expiring(w) \in Ticket /\ Pushed(Expiring(w))
      BY <3>1, ExpiringIsDue DEF Shape, HandShape, SweepShape, SweepFits
    <3> QED
      BY <3>2 DEF Pushed, Shape, HandShape, TicketShape, Started
  <2>2. acc' \in [User -> Account] /\ refunds' \in [Ticket -> Nat]
    BY <1>4, <2>1, ReleaseTyped DEF SweepRelease
  <2> QED
    BY <1>4, <2>2 DEF SweepRelease, TypeOK
<1>5. CASE SweepDel(w)
  <2>1. userKey' \in [User -> Ticket \cup {None}]
    BY <1>5 DEF SweepDel, DelKey, TypeOK
  <2>2. /\ wlist[w] \in Seq(Ticket) /\ wleft[w] \in SUBSET SweptStake
        /\ wdue[w] \ {Expiring(w)} \in SUBSET ToSet(wlist[w])
    BY DEF TypeOK
  <2>3. /\ wlist' \in [Sweep -> Seq(Ticket)]
        /\ wdue' \in [Sweep -> SUBSET Ticket]
        /\ wleft' \in [Sweep -> SUBSET SweptStake]
        /\ wpc' \in [Sweep -> {"idle", "range", "remove", "release", "del"}]
        /\ \A v \in Sweep : wdue'[v] \subseteq ToSet(wlist'[v])
    BY <1>5, <2>2, SweepToTyped DEF SweepDel
  <2> QED
    BY <1>5, <2>1, <2>3 DEF SweepDel, DelKey, TypeOK
<1> QED
  BY <1>1, <1>2, <1>3, <1>4, <1>5 DEF SweepStep

LEMMA TypedElse ==
  ASSUME TypeOK, Shape,
         \/ \E t \in Ticket, u \in User, s \in Stake : JoinCheck(t, u, s)
         \/ \E c \in Cancel, u \in User : CancelGet(c, u)
         \/ \E t \in Ticket : Age(t)
         \/ \E u \in User : Expire(u)
         \/ Crash
  PROVE  TypeOK'
<1> USE DEF cancelVars, sweepVars, joinVars, redisVars
<1>1. ASSUME NEW t \in Ticket, NEW u \in User, NEW s \in Stake, JoinCheck(t, u, s)
      PROVE  TypeOK'
  BY <1>1 DEF JoinCheck, TypeOK
<1>2. ASSUME NEW c \in Cancel, NEW u \in User, CancelGet(c, u)
      PROVE  TypeOK'
  <2>1. cent' \in [Cancel -> Ticket \cup {None}]
    BY <1>2 DEF CancelGet, TypeOK
  <2>2. disturbed' \subseteq Ticket
    BY <1>2 DEF CancelGet, Track, TypeOK
  <2> QED
    BY <1>2, <2>1, <2>2 DEF CancelGet, TypeOK
<1>3. ASSUME NEW t \in Ticket, Age(t)
      PROVE  TypeOK'
  BY <1>3 DEF Age, TypeOK
<1>4. ASSUME NEW u \in User, Expire(u)
      PROVE  TypeOK'
  <2>1. userKey' \in [User -> Ticket \cup {None}]
    BY <1>4 DEF Expire, DelKey, TypeOK
  <2> QED
    BY <1>4, <2>1 DEF Expire, DelKey, TypeOK
<1>5. CASE Crash
  <2>1. faults' \in 0 .. FaultLimit
    BY <1>5, FaultAssumption DEF Crash, FaultUnless, TypeOK
  <2>2. disturbed' \subseteq Ticket
    BY <1>5 DEF Crash, TypeOK
  <2>3. /\ wlist' \in [Sweep -> Seq(Ticket)]
        /\ \A v \in Sweep : wdue'[v] \subseteq ToSet(wlist'[v])
    BY <1>5 DEF Crash
  <2>4. jpc' \in [Ticket -> {"new", "funded", "locked", "pushed", "keyed",
                            "rem1", "rem2", "save", "del1", "del2", "done",
                            "failed"}]
    BY <1>5 DEF Crash, TypeOK
  <2> QED
    BY <1>5, <2>1, <2>2, <2>3, <2>4 DEF Crash, TypeOK
<1> QED
  BY <1>1, <1>2, <1>3, <1>4, <1>5

-----------------------------------------------------------------------------
(* The shape of the states is kept.                                        *)

(* What a step may do to an entry.                                         *)
Steady ==
  /\ \A t \in Ticket : Started(t) => who'[t] = who[t] /\ stake'[t] = stake[t]
  /\ \A t \in staked :
       /\ t \in staked'
       /\ jpc[t] # "locked" => jpc'[t] # "locked"
       /\ jpc[t] \notin {"locked", "pushed"} => jpc'[t] # "pushed"

LEMMA TicketShapeKept ==
  ASSUME TypeOK, Shape, Next
  PROVE  TicketShape' /\ Steady
<1> USE DEF TypeOK, Shape, HandShape, TicketShape, Started, Steady
<1>1. ASSUME NEW t \in Ticket, NEW u \in User, NEW s \in Stake, JoinCheck(t, u, s)
      PROVE  TicketShape' /\ Steady
  BY <1>1 DEF JoinCheck
<1>2. ASSUME NEW t \in Ticket, LockInsert(t)
      PROVE  TicketShape' /\ Steady
  BY <1>2 DEF LockInsert
<1>3. ASSUME NEW t \in Ticket, LockRefused(t)
      PROVE  TicketShape' /\ Steady
  BY <1>3 DEF LockRefused
<1>4. ASSUME NEW t \in Ticket, JoinStep(t) \/ JoinFail(t), ~LockInsert(t), ~LockRefused(t)
      PROVE  /\ UNCHANGED <<who, stake, staked>>
             /\ \/ UNCHANGED jpc
                \/ /\ jpc[t] \notin {"new", "funded", "failed"}
                   /\ \E p \in {"pushed", "keyed", "rem1", "rem2", "save", "del1",
                                "del2", "done", "failed"} :
                        jpc' = [jpc EXCEPT ![t] = p] /\ (p = "pushed" => jpc[t] = "locked")
  BY <1>4 DEF JoinStep, JoinFail, Push, SetKey, Range01, Rem, Rem1, Rem2, SaveGame, Del1, Del2
<1>5. ASSUME NEW t \in Ticket, JoinStep(t) \/ JoinFail(t), ~LockInsert(t), ~LockRefused(t)
      PROVE  TicketShape' /\ Steady
  BY <1>4, <1>5
<1>6. CASE Crash
  BY <1>6 DEF Crash
<1>7. CASE UNCHANGED <<jpc, who, stake, staked>>
  BY <1>7
<1>8. ASSUME NEW t \in Ticket, Age(t)
      PROVE  UNCHANGED <<jpc, who, stake, staked>>
  BY <1>8 DEF Age, joinVars
<1>9. ASSUME NEW c \in Cancel, CancelStep(c) \/ CancelFail(c) \/ \E u \in User : CancelGet(c, u)
      PROVE  UNCHANGED <<jpc, who, stake, staked>>
  BY <1>9 DEF CancelStep, CancelFail, CancelGet, CancelRange, CancelRem, CancelRelease,
              CancelDel, joinVars
<1>10. ASSUME NEW w \in Sweep, SweepStep(w)
       PROVE  UNCHANGED <<jpc, who, stake, staked>>
  BY <1>10 DEF SweepStep, SweepTick, SweepRange, SweepRem, SweepRelease, SweepDel, joinVars
<1>11. ASSUME NEW u \in User, Expire(u)
       PROVE  UNCHANGED <<jpc, who, stake, staked>>
  BY <1>11 DEF Expire, joinVars
<1> QED
  BY <1>1, <1>2, <1>3, <1>5, <1>6, <1>7, <1>8, <1>9, <1>10, <1>11 DEF Next

LEMMA PushedStaysPushed ==
  ASSUME TypeOK, Shape, Next
  PROVE  \A t \in Ticket : Pushed(t) =>
           /\ Pushed(t)' /\ who'[t] = who[t] /\ stake'[t] = stake[t]
           /\ jpc[t] # "pushed" => jpc'[t] # "pushed"
BY TicketShapeKept DEF Steady, Pushed, TypeOK, Shape, HandShape, TicketShape

(* What a step may do to the keys, the queue, the matches and the games.   *)
LEMMA KeysOnlyGo ==
  ASSUME TypeOK, Next, \A t \in Ticket : ~SetKey(t)
  PROVE  \A u \in User : userKey'[u] \in {userKey[u], None}
<1> USE DEF TypeOK, redisVars, DelKey
<1>1. ASSUME NEW t \in Ticket, JoinStep(t) \/ JoinFail(t) \/ Age(t)
             \/ \E u \in User, s \in Stake : JoinCheck(t, u, s)
      PROVE  \A u \in User : userKey'[u] \in {userKey[u], None}
  BY <1>1 DEF JoinStep, JoinFail, Age, JoinCheck, LockInsert, LockRefused, Push, Range01,
              Rem, Rem1, Rem2, SaveGame, Del1, Del2
<1>2. ASSUME NEW c \in Cancel, CancelStep(c) \/ CancelFail(c) \/ \E u \in User : CancelGet(c, u)
      PROVE  \A u \in User : userKey'[u] \in {userKey[u], None}
  BY <1>2 DEF CancelStep, CancelFail, CancelGet, CancelRange, CancelRem, CancelRelease,
              CancelDel
<1>3. ASSUME NEW w \in Sweep, SweepStep(w)
      PROVE  \A u \in User : userKey'[u] \in {userKey[u], None}
  BY <1>3 DEF SweepStep, SweepTick, SweepRange, SweepRem, SweepRelease, SweepDel
<1>4. ASSUME NEW u \in User, Expire(u)
      PROVE  \A v \in User : userKey'[v] \in {userKey[v], None}
  BY <1>4 DEF Expire
<1>5. CASE Crash
  BY <1>5 DEF Crash
<1> QED
  BY <1>1, <1>2, <1>3, <1>4, <1>5 DEF Next

LEMMA QueueOnlyShrinks ==
  ASSUME TypeOK, Next, \A t \in Ticket : ~Push(t)
  PROVE  \A s \in Stake : \/ queue'[s] = queue[s]
                          \/ \E e : queue'[s] = RemoveFirst(queue[s], e)
<1> DEFINE Shrinks == \A s \in Stake : \/ queue'[s] = queue[s]
                                       \/ \E e : queue'[s] = RemoveFirst(queue[s], e)
<1>1. ASSUME NEW e, NEW r, queue' = [queue EXCEPT ![r] = RemoveFirst(@, e)]
      PROVE  Shrinks
  BY <1>1 DEF TypeOK
<1>2. ASSUME queue' = queue
      PROVE  Shrinks
  BY <1>2
<1> HIDE DEF Shrinks
<1>3. ASSUME NEW t \in Ticket, JoinStep(t) \/ JoinFail(t) \/ Age(t)
             \/ \E u \in User, s \in Stake : JoinCheck(t, u, s)
      PROVE  Shrinks
  BY <1>1, <1>2, <1>3
     DEF JoinStep, JoinFail, Age, JoinCheck, LockInsert, LockRefused, SetKey, Range01,
         Rem, Rem1, Rem2, SaveGame, Del1, Del2, DelKey, redisVars
<1>4. ASSUME NEW c \in Cancel, CancelStep(c) \/ CancelFail(c) \/ \E u \in User : CancelGet(c, u)
      PROVE  Shrinks
  BY <1>1, <1>2, <1>4
     DEF CancelStep, CancelFail, CancelGet, CancelRange, CancelRem, CancelRelease,
         CancelDel, DelKey, redisVars
<1>5. ASSUME NEW w \in Sweep, SweepStep(w)
      PROVE  Shrinks
  BY <1>1, <1>2, <1>5
     DEF SweepStep, SweepTick, SweepRange, SweepRem, SweepRelease, SweepDel, DelKey, redisVars
<1>6. ASSUME NEW u \in User, Expire(u)
      PROVE  Shrinks
  BY <1>2, <1>6 DEF Expire, DelKey
<1>7. ASSUME Crash
      PROVE  Shrinks
  BY <1>2, <1>7 DEF Crash, redisVars
<1>8. Shrinks
  BY <1>3, <1>4, <1>5, <1>6, <1>7 DEF Next
<1> QED
  BY <1>8 DEF Shrinks

LEMMA KeyShapeKept ==
  ASSUME TypeOK, Shape, Next
  PROVE  KeyShape'
<1>1. CASE \A t \in Ticket : ~SetKey(t)
  BY <1>1, KeysOnlyGo, PushedStaysPushed DEF KeyShape, Shape, TypeOK
<1>2. ASSUME NEW t \in Ticket, SetKey(t)
      PROVE  KeyShape'
  <2>1. who[t] \in User /\ t \in staked
    BY <1>2 DEF SetKey, Shape, HandShape, TicketShape, Started
  <2>2. \A u \in User : userKey'[u] = IF u = who[t] THEN t ELSE userKey[u]
    BY <1>2 DEF SetKey, TypeOK
  <2>3. Pushed(t)' /\ who'[t] = who[t] /\ jpc'[t] = "keyed"
    BY <1>2, <2>1 DEF SetKey, Pushed, TypeOK
  <2>4. ASSUME NEW u \in User, userKey'[u] # None
        PROVE  (Pushed(userKey[u]) /\ who[userKey[u]] = u /\ jpc[userKey[u]] # "pushed")'
    <3>1. CASE u = who[t]
      BY <2>2, <2>3, <3>1 DEF TypeOK, Pushed
    <3>2. CASE u # who[t]
      <4>1. userKey'[u] = userKey[u]
        BY <2>2, <3>2
      <4> QED
        BY <2>4, <4>1, PushedStaysPushed DEF KeyShape, Shape, TypeOK, Pushed
    <3> QED
      BY <3>1, <3>2
  <2> QED
    BY <2>4 DEF KeyShape
<1> QED
  BY <1>1, <1>2

LEMMA QueueShapeKept ==
  ASSUME TypeOK, Shape, Next
  PROVE  QueueShape'
<1> DEFINE Good(s) == {x \in Ticket : Pushed(x)' /\ stake'[x] = s}
           Fit(q, s) == /\ \A i \in 1 .. Len(q) : q[i] \in Good(s)
                        /\ \A i, j \in 1 .. Len(q) : q[i] = q[j] => i = j
<1>1. ASSUME \A s \in Stake : Fit(queue'[s], s)
      PROVE  QueueShape'
  BY <1>1 DEF QueueShape
<1>2. ASSUME NEW s \in Stake
      PROVE  queue[s] \in Seq(Ticket) /\ Fit(queue[s], s)
  <2>1. queue[s] \in Seq(Ticket)
    BY DEF TypeOK
  <2>2. \A i \in 1 .. Len(queue[s]) : queue[s][i] \in Ticket
    BY <2>1
  <2>3. \A i \in 1 .. Len(queue[s]) : queue[s][i] \in Good(s)
    BY <2>2, PushedStaysPushed DEF Shape, HandShape, QueueShape
  <2> QED
    BY <2>1, <2>3 DEF Shape, HandShape, QueueShape
<1>3. ASSUME NEW s \in Stake, NEW e
      PROVE  Fit(RemoveFirst(queue[s], e), s)
  <2>1. /\ RemoveFirst(queue[s], e) \in Seq(Ticket)
        /\ \A x : Contains(RemoveFirst(queue[s], e), x) => Contains(queue[s], x)
        /\ \A i, j \in 1 .. Len(RemoveFirst(queue[s], e)) :
             RemoveFirst(queue[s], e)[i] = RemoveFirst(queue[s], e)[j] => i = j
    BY <1>2, RemoveFirstFacts
  <2> DEFINE r == RemoveFirst(queue[s], e)
  <2> HIDE DEF r
  <2>2. ASSUME NEW i \in 1 .. Len(r)
        PROVE  r[i] \in Good(s)
    <3>1. Contains(r, r[i])
      BY DEF Contains
    <3>2. \E n \in 1 .. Len(queue[s]) : r[i] = queue[s][n]
      BY <2>1, <3>1 DEF Contains, r
    <3> QED
      BY <1>2, <3>2
  <2>3. \A i, j \in 1 .. Len(r) : r[i] = r[j] => i = j
    BY <2>1 DEF r
  <2> QED
    BY <2>2, <2>3 DEF r
<1>4. ASSUME NEW t \in Ticket, Push(t), NEW s \in Stake, stake[t] = s
      PROVE  Fit(<<t>> \o queue[s], s)
  <2> DEFINE q == queue[s]
             r == <<t>> \o queue[s]
  <2>1. /\ q \in Seq(Ticket) /\ Len(q) \in Nat /\ Len(r) = Len(q) + 1
        /\ \A i \in 1 .. Len(r) : r[i] = IF i = 1 THEN t ELSE q[i - 1]
    BY <1>2
  <2>2. t \in staked /\ ~Pushed(t)
    BY <1>4 DEF Push, Pushed, Shape, HandShape, TicketShape, Started
  <2>3. t \in Good(s)
    BY <1>4, <2>2 DEF Push, Pushed, TypeOK
  <2>4. \A i \in 1 .. Len(q) : q[i] # t
    BY <2>2 DEF Shape, HandShape, QueueShape
  <2>5. Fit(q, s)
    BY <1>2
  <2> HIDE DEF r, q, Good
  <2>6. \A i \in 1 .. Len(r) : i = 1 \/ i - 1 \in 1 .. Len(q)
    BY <2>1
  <2>7. \A i \in 1 .. Len(r) : r[i] \in Good(s)
    BY <2>1, <2>3, <2>5, <2>6
  <2>8. ASSUME NEW i \in 1 .. Len(r), NEW j \in 1 .. Len(r), r[i] = r[j]
        PROVE  i = j
    <3>1. CASE i = 1 \/ j = 1
      BY <2>1, <2>4, <2>6, <2>8, <3>1
    <3>2. CASE i # 1 /\ j # 1
      <4>1. i - 1 \in 1 .. Len(q) /\ j - 1 \in 1 .. Len(q) /\ q[i - 1] = q[j - 1]
        BY <2>1, <2>6, <2>8, <3>2
      <4>2. i - 1 = j - 1
        BY <2>5, <4>1
      <4> QED
        BY <2>1, <4>2
    <3> QED
      BY <3>1, <3>2
  <2> QED
    BY <2>7, <2>8 DEF r
<1>5. CASE \A t \in Ticket : ~Push(t)
  <2>1. \A s \in Stake : Fit(queue'[s], s)
    <3> HIDE DEF Fit
    <3> QED
      BY <1>2, <1>3, <1>5, QueueOnlyShrinks
  <2> QED
    BY <1>1, <2>1
<1>6. ASSUME NEW t \in Ticket, Push(t)
      PROVE  QueueShape'
  <2>1. \A s \in Stake : queue'[s] = IF s = stake[t] THEN <<t>> \o queue[s] ELSE queue[s]
    BY <1>6 DEF Push, Cons, TypeOK
  <2>2. \A s \in Stake : Fit(queue'[s], s)
    <3> HIDE DEF Fit
    <3> QED
      BY <1>2, <1>4, <1>6, <2>1
  <2> QED
    BY <1>1, <2>2
<1> QED
  BY <1>5, <1>6

LEMMA PairsFromTheQueue ==
  ASSUME TypeOK, Shape, Next, NEW j \in Ticket
  PROVE  \/ pair'[j] = pair[j] /\ (jpc'[j] \in Matching <=> jpc[j] \in Matching)
         \/ pair'[j] = <<>> /\ jpc'[j] \notin Matching
         \/ /\ jpc[j] = "keyed" /\ jpc'[j] = "rem1" /\ Len(queue[stake[j]]) >= 2
            /\ pair'[j] = SubSeq(queue[stake[j]], 1, 2)
<1> DEFINE Same == pair'[j] = pair[j] /\ (jpc'[j] \in Matching <=> jpc[j] \in Matching)
           Gone == pair'[j] = <<>> /\ jpc'[j] \notin Matching
<1>1. CASE UNCHANGED joinVars
  BY <1>1 DEF joinVars
<1>2. ASSUME NEW t \in Ticket, JoinStep(t) \/ (\E u \in User, s \in Stake : JoinCheck(t, u, s)),
             ~Range01(t), ~Del2(t)
      PROVE  Same
  BY <1>2 DEF JoinStep, JoinCheck, LockInsert, LockRefused, Push, SetKey, Rem, Rem1, Rem2,
              SaveGame, Del1, Matching, TypeOK
<1>3. ASSUME NEW t \in Ticket, Del2(t) \/ JoinFail(t)
      PROVE  Same \/ Gone
  BY <1>3 DEF Del2, JoinFail, Matching, TypeOK
<1>4. ASSUME NEW t \in Ticket, Range01(t)
      PROVE  \/ Same
             \/ /\ jpc[j] = "keyed" /\ jpc'[j] = "rem1" /\ Len(queue[stake[j]]) >= 2
                /\ pair'[j] = SubSeq(queue[stake[j]], 1, 2)
  <2>1. stake[t] \in Stake
    BY <1>4 DEF Range01, Shape, HandShape, TicketShape
  <2>2. Len(queue[stake[t]]) \in Nat
    BY <2>1 DEF TypeOK
  <2>3. CASE Len(queue[stake[t]]) < 2
    BY <1>4, <2>3 DEF Range01, Matching, TypeOK
  <2>4. CASE ~(Len(queue[stake[t]]) < 2) /\ t = j
    BY <1>4, <2>2, <2>4 DEF Range01, TypeOK
  <2>5. CASE ~(Len(queue[stake[t]]) < 2) /\ t # j
    BY <1>4, <2>5 DEF Range01, TypeOK
  <2> QED
    BY <2>3, <2>4, <2>5
<1>5. ASSUME Crash
      PROVE  Gone
  BY <1>5 DEF Crash, Matching
<1>6. ASSUME \/ \E t \in Ticket : Age(t)
             \/ \E c \in Cancel : CancelStep(c) \/ CancelFail(c)
             \/ \E c \in Cancel, u \in User : CancelGet(c, u)
             \/ \E w \in Sweep : SweepStep(w)
             \/ \E u \in User : Expire(u)
      PROVE  UNCHANGED joinVars
  BY <1>6 DEF Age, CancelStep, CancelFail, CancelGet, CancelRange, CancelRem, CancelRelease,
              CancelDel, SweepStep, SweepTick, SweepRange, SweepRem, SweepRelease, SweepDel,
              Expire
<1> QED
  BY <1>1, <1>2, <1>3, <1>4, <1>5, <1>6 DEF Next

LEMMA PairShapeKept ==
  ASSUME TypeOK, Shape, Next
  PROVE  PairShape'
<1> SUFFICES ASSUME NEW j \in Ticket
             PROVE  (IF jpc[j] \in Matching
                       THEN /\ pair[j] \in Ticket \X Ticket /\ pair[j][1] # pair[j][2]
                            /\ \A i \in {1, 2} : /\ Pushed(pair[j][i])
                                                 /\ stake[pair[j][i]] = stake[j]
                       ELSE pair[j] = <<>>)'
  BY DEF PairShape
<1>1. IF jpc[j] \in Matching
        THEN /\ pair[j] \in Ticket \X Ticket /\ pair[j][1] # pair[j][2]
             /\ \A i \in {1, 2} : Pushed(pair[j][i]) /\ stake[pair[j][i]] = stake[j]
        ELSE pair[j] = <<>>
  BY DEF Shape, HandShape, PairShape
<1>2. jpc[j] \in Matching \/ jpc[j] = "keyed" => stake'[j] = stake[j]
  BY PushedStaysPushed DEF Pushed, Matching, Shape, HandShape, TicketShape, Started
<1>3. CASE pair'[j] = pair[j] /\ (jpc'[j] \in Matching <=> jpc[j] \in Matching)
  <2>1. CASE jpc[j] \in Matching
    <3>1. pair[j] \in Ticket \X Ticket /\ pair[j][1] # pair[j][2]
      BY <1>1, <2>1
    <3>2. ASSUME NEW i \in {1, 2}
          PROVE  (Pushed(pair[j][i]) /\ stake[pair[j][i]] = stake[j])'
      <4>1. pair[j][i] \in Ticket /\ Pushed(pair[j][i]) /\ stake[pair[j][i]] = stake[j]
        BY <1>1, <2>1
      <4> QED
        BY <1>2, <1>3, <2>1, <4>1, PushedStaysPushed DEF Pushed
    <3> QED
      BY <1>3, <2>1, <3>1, <3>2
  <2>2. CASE jpc[j] \notin Matching
    BY <1>1, <1>3, <2>2
  <2> QED
    BY <2>1, <2>2
<1>4. CASE pair'[j] = <<>> /\ jpc'[j] \notin Matching
  BY <1>4
<1>5. CASE /\ jpc[j] = "keyed" /\ jpc'[j] = "rem1" /\ Len(queue[stake[j]]) >= 2
           /\ pair'[j] = SubSeq(queue[stake[j]], 1, 2)
  <2> DEFINE q == queue[stake[j]]
  <2>1. stake[j] \in Stake
    BY <1>5 DEF Shape, HandShape, TicketShape
  <2>2. q \in Seq(Ticket) /\ Len(q) \in Nat
    BY <2>1 DEF TypeOK
  <2>3. pair'[j] = <<q[1], q[2]>> /\ q[1] \in Ticket /\ q[2] \in Ticket
    BY <1>5, <2>2, PairIsPair
  <2>4. 1 \in 1 .. Len(q) /\ 2 \in 1 .. Len(q)
    BY <1>5, <2>2
  <2>5. q[1] # q[2] /\ \A i \in {1, 2} : Pushed(q[i]) /\ stake[q[i]] = stake[j]
    BY <2>1, <2>4 DEF Shape, HandShape, QueueShape
  <2> HIDE DEF q
  <2>6. ASSUME NEW i \in {1, 2}
        PROVE  (Pushed(pair[j][i]) /\ stake[pair[j][i]] = stake[j])'
    <3>1. pair'[j][i] = q[i] /\ q[i] \in Ticket
      BY <2>3
    <3> QED
      BY <1>2, <1>5, <2>5, <3>1, PushedStaysPushed DEF Pushed
  <2>7. pair'[j] \in Ticket \X Ticket /\ pair'[j][1] # pair'[j][2]
    BY <2>3, <2>5
  <2>8. jpc'[j] \in Matching
    BY <1>5 DEF Matching
  <2> QED
    BY <2>6, <2>7, <2>8
<1> QED
  BY <1>3, <1>4, <1>5, PairsFromTheQueue

LEMMA GameShapeKept ==
  ASSUME TypeOK, Shape, Next
  PROVE  GameShape'
<1> SUFFICES ASSUME NEW j \in Ticket, game'[j] # <<>>
             PROVE  (/\ jpc[j] \in {"del1", "del2", "done", "failed"}
                     /\ game[j][1] # game[j][2]
                     /\ \A i \in {1, 2} : Pushed(game[j][i]) /\ stake[game[j][i]] = stake[j])'
  BY DEF GameShape
<1>1. CASE SaveGame(j)
  <2>1. /\ pair[j] \in Ticket \X Ticket /\ pair[j][1] # pair[j][2]
        /\ \A i \in {1, 2} : Pushed(pair[j][i]) /\ stake[pair[j][i]] = stake[j]
    BY <1>1 DEF SaveGame, Shape, HandShape, PairShape, Matching
  <2>2. game'[j] = pair[j] /\ jpc'[j] = "del1" /\ stake' = stake
    BY <1>1 DEF SaveGame, TypeOK
  <2>3. ASSUME NEW i \in {1, 2}
        PROVE  (Pushed(game[j][i]) /\ stake[game[j][i]] = stake[j])'
    <3>1. pair[j][i] \in Ticket
      BY <2>1
    <3> QED
      BY <2>1, <2>2, <3>1, PushedStaysPushed DEF Pushed
  <2> QED
    BY <2>1, <2>2, <2>3
<1>2. CASE ~SaveGame(j)
  <2>1. /\ game'[j] = game[j]
        /\ jpc[j] \in {"del1", "del2", "done", "failed"} =>
             jpc'[j] \in {"del1", "del2", "done", "failed"}
    <3>1. ASSUME NEW t \in Ticket,
                 JoinStep(t) \/ JoinFail(t) \/ \E u \in User, s \in Stake : JoinCheck(t, u, s)
          PROVE  /\ game'[j] = game[j]
                 /\ jpc[j] \in {"del1", "del2", "done", "failed"} =>
                      jpc'[j] \in {"del1", "del2", "done", "failed"}
      BY <1>2, <3>1
         DEF JoinStep, JoinFail, JoinCheck, LockInsert, LockRefused, Push, SetKey, Range01,
             Rem, Rem1, Rem2, SaveGame, Del1, Del2, TypeOK
    <3>2. ASSUME \/ \E t \in Ticket : Age(t)
                 \/ \E c \in Cancel : CancelStep(c) \/ CancelFail(c)
                 \/ \E c \in Cancel, u \in User : CancelGet(c, u)
                 \/ \E w \in Sweep : SweepStep(w)
                 \/ \E u \in User : Expire(u)
          PROVE  UNCHANGED <<game, jpc>>
      BY <3>2 DEF Age, CancelStep, CancelFail, CancelGet, CancelRange, CancelRem,
              CancelRelease, CancelDel, SweepStep, SweepTick, SweepRange, SweepRem,
              SweepRelease, SweepDel, Expire, joinVars
    <3>3. CASE Crash
      BY <3>3 DEF Crash
    <3> QED
      BY <3>1, <3>2, <3>3 DEF Next
  <2>2. /\ jpc[j] \in {"del1", "del2", "done", "failed"} /\ game[j] \in Ticket \X Ticket
        /\ game[j][1] # game[j][2]
        /\ \A i \in {1, 2} : Pushed(game[j][i]) /\ stake[game[j][i]] = stake[j]
    BY <2>1 DEF Shape, HandShape, GameShape, TypeOK
  <2>3. stake'[j] = stake[j]
    BY <2>2, TicketShapeKept DEF Steady, Started
  <2>4. ASSUME NEW i \in {1, 2}
        PROVE  (Pushed(game[j][i]) /\ stake[game[j][i]] = stake[j])'
    <3>1. game[j][i] \in Ticket
      BY <2>2
    <3> QED
      BY <2>1, <2>2, <2>3, <3>1, PushedStaysPushed DEF Pushed
  <2> QED
    BY <2>1, <2>2, <2>4
<1> QED
  BY <1>1, <1>2

(* Only the steps of a cancel, and a crash, touch its variables.           *)
LEMMA CancelsAlone ==
  ASSUME TypeOK, Next, ~Crash, NEW c \in Cancel, ~CancelStep(c), ~CancelFail(c),
         \A u \in User : ~CancelGet(c, u)
  PROVE  cpc'[c] = cpc[c] /\ cent'[c] = cent[c] /\ chit'[c] = chit[c]
<1>1. ASSUME NEW d \in Cancel, d # c,
             CancelStep(d) \/ CancelFail(d) \/ \E u \in User : CancelGet(d, u)
      PROVE  cpc'[c] = cpc[c] /\ cent'[c] = cent[c] /\ chit'[c] = chit[c]
  BY <1>1 DEF CancelStep, CancelFail, CancelGet, CancelRange, CancelRem, CancelRelease,
              CancelDel, EndCancel, TypeOK
<1>2. ASSUME \/ \E t \in Ticket : JoinStep(t) \/ JoinFail(t) \/ Age(t)
             \/ \E t \in Ticket, u \in User, s \in Stake : JoinCheck(t, u, s)
             \/ \E w \in Sweep : SweepStep(w)
             \/ \E u \in User : Expire(u)
      PROVE  UNCHANGED cancelVars
  BY <1>2 DEF JoinStep, JoinFail, Age, JoinCheck, LockInsert, LockRefused, Push, SetKey,
              Range01, Rem, Rem1, Rem2, SaveGame, Del1, Del2, SweepStep, SweepTick,
              SweepRange, SweepRem, SweepRelease, SweepDel, Expire
<1> QED
  BY <1>1, <1>2 DEF Next, cancelVars

LEMMA CancelRangeKeeps ==
  ASSUME TypeOK, Shape, Next, NEW c \in Cancel, CancelRange(c)
  PROVE  CancelFits(c)'
<1> DEFINE entries == queue[stake[cent[c]]]
           first == SelectInSeq(entries, LAMBDA t : who[t] = who[cent[c]])
<1>1. /\ cpc[c] = "got" /\ cent[c] \in Ticket /\ Pushed(cent[c]) /\ jpc[cent[c]] # "pushed"
      /\ chit[c] = None
  BY DEF CancelRange, TypeOK, Shape, HandShape, CancelShape, CancelFits
<1>2. stake[cent[c]] \in Stake
  BY <1>1 DEF Pushed, Shape, HandShape, TicketShape, Started
<1>3. entries \in Seq(Ticket) /\ Len(entries) \in Nat
  BY <1>2 DEF TypeOK
<1>4. /\ first \in 0 .. Len(entries)
      /\ first # 0 => who[entries[first]] = who[cent[c]]
      /\ first = 0 => \A n \in 1 .. Len(entries) : who[entries[n]] # who[cent[c]]
  BY <1>3, FirstOfOwner
<1>5. CASE first = 0
  <2>1. cpc'[c] = "release" /\ chit'[c] = None /\ cent'[c] = cent[c]
    BY <1>1, <1>5 DEF CancelRange, TypeOK
  <2> QED
    BY <1>1, <2>1, PushedStaysPushed, NoneAssumption DEF CancelFits, Pushed
<1>6. CASE first # 0
  <2>1. cpc'[c] = "remove" /\ chit'[c] = entries[first] /\ cent'[c] = cent[c]
    BY <1>1, <1>6 DEF CancelRange, TypeOK
  <2> DEFINE n == first
             e == entries[first]
  <2>2. n \in 1 .. Len(entries)
    <3> HIDE DEF entries, first
    <3> QED
      BY <1>3, <1>4, <1>6
  <2>3. e \in Ticket /\ who[e] = who[cent[c]]
    <3> HIDE DEF entries, first
    <3> QED
      BY <1>3, <1>4, <2>2
  <2>4. Pushed(e) /\ stake[e] = stake[cent[c]]
    BY <1>2, <2>2 DEF Shape, HandShape, QueueShape
  <2> HIDE DEF e, n, entries, first
  <2>5. chit'[c] = e
    BY <2>1 DEF e
  <2> QED
    BY <1>1, <2>1, <2>3, <2>4, <2>5, PushedStaysPushed, NoneAssumption DEF CancelFits, Pushed
<1> QED
  BY <1>5, <1>6

LEMMA CancelShapeKept ==
  ASSUME TypeOK, Shape, Next
  PROVE  CancelShape'
<1> SUFFICES ASSUME NEW c \in Cancel
             PROVE  CancelFits(c)'
  BY DEF CancelShape
<1>1. CancelFits(c)
  BY DEF Shape, HandShape, CancelShape
<1>2. CASE CancelRange(c)
  BY <1>2, CancelRangeKeeps
<1>3. ASSUME cent'[c] = cent[c], chit'[c] = chit[c],
             \/ cpc'[c] = cpc[c]
             \/ cpc[c] = "remove" /\ cpc'[c] = "release"
             \/ cpc[c] = "release" /\ cpc'[c] = "del"
      PROVE  CancelFits(c)'
  <2>1. ASSUME cent[c] # None
        PROVE  cent[c] \in Ticket /\ Pushed(cent[c]) /\ jpc[cent[c]] # "pushed"
    BY <1>1, <2>1 DEF CancelFits, TypeOK
  <2>2. ASSUME chit[c] # None
        PROVE  chit[c] \in Ticket /\ Pushed(chit[c])
    BY <1>1, <2>2 DEF CancelFits, TypeOK
  <2>3. chit[c] # None => cent[c] # None
    BY <1>1 DEF CancelFits
  <2> QED
    BY <1>1, <1>3, <2>1, <2>2, <2>3, PushedStaysPushed DEF CancelFits, Pushed
<1>4. ASSUME cpc'[c] = "idle", cent'[c] = None, chit'[c] = None
      PROVE  CancelFits(c)'
  BY <1>4 DEF CancelFits
<1>5. ASSUME NEW u \in User, CancelGet(c, u)
      PROVE  CancelFits(c)'
  <2>1. /\ userKey[u] \in Ticket /\ Pushed(userKey[u]) /\ jpc[userKey[u]] # "pushed"
        /\ cpc'[c] = "got" /\ cent'[c] = userKey[u] /\ chit'[c] = chit[c] /\ chit[c] = None
    BY <1>1, <1>5 DEF CancelGet, TypeOK, Shape, HandShape, KeyShape, CancelFits
  <2> QED
    BY <2>1, PushedStaysPushed, NoneAssumption DEF CancelFits, Pushed
<1>6. CASE CancelRem(c) \/ CancelRelease(c)
  BY <1>3, <1>6 DEF CancelRem, CancelRelease, TypeOK
<1>7. CASE CancelDel(c) \/ CancelFail(c)
  BY <1>4, <1>7 DEF CancelDel, CancelFail, EndCancel, TypeOK
<1>8. CASE Crash
  BY <1>4, <1>8 DEF Crash
<1> QED
  BY <1>2, <1>3, <1>4, <1>5, <1>6, <1>7, <1>8, CancelsAlone DEF CancelStep

LEMMA SweepsAlone ==
  ASSUME TypeOK, Next, ~Crash, NEW w \in Sweep, ~SweepStep(w)
  PROVE  /\ wpc'[w] = wpc[w] /\ wleft'[w] = wleft[w]
         /\ wlist'[w] = wlist[w] /\ wdue'[w] = wdue[w]
<1>1. ASSUME NEW v \in Sweep, v # w, SweepStep(v)
      PROVE  /\ wpc'[w] = wpc[w] /\ wleft'[w] = wleft[w]
             /\ wlist'[w] = wlist[w] /\ wdue'[w] = wdue[w]
  BY <1>1 DEF SweepStep, SweepTick, SweepRange, SweepRem, SweepRelease, SweepDel, SweepTo,
              TypeOK
<1>2. ASSUME \/ \E t \in Ticket : JoinStep(t) \/ JoinFail(t) \/ Age(t)
             \/ \E t \in Ticket, u \in User, s \in Stake : JoinCheck(t, u, s)
             \/ \E c \in Cancel : CancelStep(c) \/ CancelFail(c)
             \/ \E c \in Cancel, u \in User : CancelGet(c, u)
             \/ \E u \in User : Expire(u)
      PROVE  UNCHANGED sweepVars
  BY <1>2 DEF JoinStep, JoinFail, Age, JoinCheck, LockInsert, LockRefused, Push, SetKey,
              Range01, Rem, Rem1, Rem2, SaveGame, Del1, Del2, CancelStep, CancelFail,
              CancelGet, CancelRange, CancelRem, CancelRelease, CancelDel, Expire
<1> QED
  BY <1>1, <1>2 DEF Next, sweepVars

(* The part of SweepShape about one run.                                   *)
LEMMA SweepToFits ==
  ASSUME TypeOK, Shape, Next, NEW w \in Sweep, NEW list \in Seq(Ticket), NEW due, NEW left,
         \A i \in 1 .. Len(list) : Pushed(list[i]), SweepTo(w, list, due, left)
  PROVE  SweepFits(w)'
<1>1. /\ wlist'[w] = (IF due = {} THEN <<>> ELSE list) /\ wdue'[w] = due /\ wleft'[w] = left
      /\ wpc'[w] = IF due # {} THEN "remove" ELSE IF left # {} THEN "range" ELSE "idle"
  BY DEF SweepTo, TypeOK
<1>2. \A i \in 1 .. Len(list) : list[i] \in Ticket /\ Pushed(list[i])
  OBVIOUS
<1>3. \A i \in 1 .. Len(wlist'[w]) : wlist'[w][i] \in Ticket /\ Pushed(wlist'[w][i])
  <2>1. CASE due = {}
    BY <1>1, <2>1
  <2>2. CASE due # {}
    BY <1>1, <1>2, <2>2
  <2> QED
    BY <2>1, <2>2
<1> QED
  BY <1>1, <1>3, PushedStaysPushed DEF SweepFits, Pushed

LEMMA SweepShapeKept ==
  ASSUME TypeOK, Shape, Next
  PROVE  SweepShape'
<1> SUFFICES ASSUME NEW w \in Sweep
             PROVE  SweepFits(w)'
  BY DEF SweepShape
<1>1. SweepFits(w) /\ wlist[w] \in Seq(Ticket)
  BY DEF Shape, HandShape, SweepShape, TypeOK
<1>2. ASSUME wlist'[w] = wlist[w], wdue'[w] = wdue[w],
             \/ wpc'[w] = wpc[w] /\ wleft'[w] = wleft[w]
             \/ wpc[w] = "idle" /\ wpc'[w] = "range" /\ wleft'[w] # {}
             \/ wpc[w] = "remove" /\ wpc'[w] = "release"
             \/ wpc[w] = "release" /\ wpc'[w] = "del"
      PROVE  SweepFits(w)'
  <2>1. \A i \in 1 .. Len(wlist[w]) : wlist[w][i] \in Ticket /\ Pushed(wlist[w][i])
    BY <1>1 DEF SweepFits
  <2>2. (\A i \in 1 .. Len(wlist[w]) : Pushed(wlist[w][i]))'
    BY <1>2, <2>1, PushedStaysPushed DEF Pushed
  <2> QED
    BY <1>1, <1>2, <2>2 DEF SweepFits
<1>3. ASSUME wpc'[w] = "idle", wlist'[w] = <<>>, wdue'[w] = {}
      PROVE  SweepFits(w)'
  BY <1>3 DEF SweepFits
<1>4. CASE SweepTick(w) \/ SweepRem(w) \/ SweepRelease(w)
  BY <1>2, <1>4 DEF SweepTick, SweepRem, SweepRelease, TypeOK
<1>5. CASE SweepRange(w)
  <2> DEFINE s == CHOOSE x \in wleft[w] : \A y \in wleft[w] : x <= y
             entries == IF s \in Stake THEN queue[s] ELSE <<>>
  <2>1. SweepTo(w, entries, ToSet(entries) \cap overdue, wleft[w] \ {s})
    BY <1>5 DEF SweepRange
  <2>2. entries \in Seq(Ticket)
    BY DEF TypeOK
  <2>3. \A i \in 1 .. Len(entries) : Pushed(entries[i])
    BY DEF Shape, HandShape, QueueShape
  <2> HIDE DEF s, entries
  <2> QED
    BY <2>1, <2>2, <2>3, SweepToFits
<1>6. CASE SweepDel(w)
  BY <1>1, <1>6, SweepToFits DEF SweepDel, SweepFits
<1>7. CASE Crash
  BY <1>3, <1>7 DEF Crash
<1> QED
  BY <1>2, <1>3, <1>4, <1>5, <1>6, <1>7, SweepsAlone DEF SweepStep

LEMMA TypesKept ==
  ASSUME TypeOK, Shape, Next
  PROVE  TypeOK'
BY TypedJoin, TypedCancel, TypedSweep, TypedElse DEF Next

(* Only entries that were pushed are ever in hand.                         *)
InHandArePushed == \A k \in Call : \A t \in Holds(k) : t \in Ticket /\ Pushed(t)

LEMMA HandsArePushed == TypeOK /\ HandShape => InHandArePushed
<1> SUFFICES ASSUME TypeOK, HandShape, NEW k \in Call, NEW t \in Holds(k)
             PROVE  t \in Ticket /\ Pushed(t)
  BY DEF InHandArePushed
<1>1. ASSUME NEW j \in Ticket, k = <<"join", j>>
      PROVE  t \in Ticket /\ Pushed(t)
  <2>1. t \in JoinHolds(j)
    BY <1>1 DEF Holds
  <2>2. CASE jpc[j] = "pushed"
    BY <2>1, <2>2 DEF JoinHolds, Pushed, HandShape, TicketShape, Started
  <2>3. CASE jpc[j] \in Matching
    <3>1. pair[j] \in Ticket \X Ticket /\ Pushed(pair[j][1]) /\ Pushed(pair[j][2])
      BY <2>3 DEF HandShape, PairShape
    <3>2. t \in ToSet(pair[j])
      BY <2>1, <2>3 DEF JoinHolds, Matching
    <3>3. t = pair[j][1] \/ t = pair[j][2]
      BY <3>1, <3>2 DEF ToSet
    <3> QED
      BY <3>1, <3>3
  <2> QED
    BY <2>1, <2>2, <2>3 DEF JoinHolds, Matching
<1>2. ASSUME NEW c \in Cancel, k = <<"cancel", c>>
      PROVE  t \in Ticket /\ Pushed(t)
  BY <1>2 DEF Holds, CancelHolds, HandShape, CancelShape, CancelFits, TypeOK
<1>3. ASSUME NEW w \in Sweep, k = <<"sweep", w>>
      PROVE  t \in Ticket /\ Pushed(t)
  <2>1. t \in wdue[w] /\ t \in ToSet(wlist[w]) /\ t \in Ticket
    BY <1>3 DEF Holds, SweepHolds, TypeOK
  <2> QED
    BY <2>1 DEF ToSet, HandShape, SweepShape, SweepFits
<1> QED
  BY <1>1, <1>2, <1>3 DEF Call

LEMMA HistoryShapeKept ==
  ASSUME TypeOK, Shape, Next
  PROVE  HistoryShape'
<1> DEFINE Grows == overdue' \subseteq staked' /\ disturbed' \subseteq staked'
<1>1. TypeOK' /\ HandShape'
  BY TypesKept, TicketShapeKept, PairShapeKept, CancelShapeKept, SweepShapeKept
     DEF HandShape
<1>2. InHandArePushed /\ InHandArePushed'
  <2>1. InHandArePushed
    BY HandsArePushed DEF Shape, HandShape
  <2>2. InHandArePushed'
    BY <1>1, HandsArePushed, PTL
  <2> QED
    BY <2>1, <2>2
<1>3. staked \subseteq staked' /\ overdue \subseteq staked' /\ disturbed \subseteq staked'
  BY TicketShapeKept DEF Steady, Shape, HistoryShape
<1>4. {t \in Ticket : Contested(t)'} \subseteq staked'
  BY <1>2 DEF Contested, InHandArePushed, Pushed
<1>5. Track => disturbed' \subseteq staked'
  BY <1>3, <1>4 DEF Track
<1>6. \A k \in Call : Holds(k) \subseteq staked'
  BY <1>2, <1>3 DEF InHandArePushed, Pushed
<1>7. ASSUME NEW t \in Ticket, Age(t)
      PROVE  Grows /\ UNCHANGED refunds
  <2>1. t \in staked
    BY <1>7 DEF Age, Contains, Shape, QueueShape, Pushed
  <2> QED
    BY <1>3, <1>7, <2>1 DEF Age
<1>8. ASSUME NEW t \in Ticket, JoinStep(t) \/ JoinFail(t) \/ \E u \in User, s \in Stake : JoinCheck(t, u, s)
      PROVE  Grows /\ UNCHANGED refunds
  <2>1. JoinHolds(t) \subseteq staked'
    <3>1. <<"join", t>> \in Call /\ Holds(<<"join", t>>) = JoinHolds(t)
      BY DEF Call, Holds
    <3> QED
      BY <1>6, <3>1
  <2> QED
    BY <1>3, <1>5, <1>8, <2>1
       DEF JoinStep, JoinFail, JoinCheck, LockInsert, LockRefused, Push, SetKey, Range01,
           Rem, Rem1, Rem2, SaveGame, Del1, Del2, DelKey, redisVars
<1>9. ASSUME NEW c \in Cancel, CancelStep(c) \/ CancelFail(c) \/ \E u \in User : CancelGet(c, u)
      PROVE  Grows
  <2>1. CancelHolds(c) \subseteq staked'
    <3>1. <<"cancel", c>> \in Call /\ Holds(<<"cancel", c>>) = CancelHolds(c)
      BY DEF Call, Holds
    <3> QED
      BY <1>6, <3>1
  <2> QED
    BY <1>3, <1>5, <1>9, <2>1
       DEF CancelStep, CancelFail, CancelGet, CancelRange, CancelRem, CancelRelease,
           CancelDel, DelKey, redisVars
<1>10. ASSUME NEW w \in Sweep, SweepStep(w)
       PROVE  Grows
  BY <1>3, <1>5, <1>10
     DEF SweepStep, SweepTick, SweepRange, SweepRem, SweepRelease, SweepDel, DelKey, redisVars
<1>11. ASSUME NEW u \in User, Expire(u)
       PROVE  Grows /\ UNCHANGED refunds
  BY <1>3, <1>11 DEF Expire, DelKey
<1>12. ASSUME Crash
       PROVE  Grows /\ UNCHANGED refunds
  BY <1>3, <1>6, <1>12 DEF Crash, redisVars
<1>13. Grows
  BY <1>7, <1>8, <1>9, <1>10, <1>11, <1>12 DEF Next
<1> HIDE DEF Grows
<1>14. ASSUME NEW e \in Ticket, Pushed(e), refunds' = [refunds EXCEPT ![e] = @ + 1]
       PROVE  \A t \in Ticket : refunds'[t] > 0 => Pushed(t)'
  BY <1>14, PushedStaysPushed DEF Shape, HistoryShape, TypeOK
<1>15. ASSUME UNCHANGED refunds
       PROVE  \A t \in Ticket : refunds'[t] > 0 => Pushed(t)'
  BY <1>15, PushedStaysPushed DEF Shape, HistoryShape, TypeOK
<1>16. ASSUME NEW c \in Cancel, CancelRelease(c)
       PROVE  \A t \in Ticket : refunds'[t] > 0 => Pushed(t)'
  <2>1. Target(c) \in Ticket /\ Pushed(Target(c))
    BY <1>16, NoneAssumption DEF CancelRelease, Target, TypeOK, Shape, HandShape, CancelShape,
       CancelFits
  <2> QED
    BY <1>14, <1>16, <2>1 DEF CancelRelease, Release, Target
<1>17. ASSUME NEW w \in Sweep, SweepRelease(w)
       PROVE  \A t \in Ticket : refunds'[t] > 0 => Pushed(t)'
  <2>1. Expiring(w) \in Ticket /\ Pushed(Expiring(w))
    BY <1>17, ExpiringIsDue DEF SweepRelease, Shape, HandShape, SweepShape, SweepFits
  <2> QED
    BY <1>14, <1>17, <2>1 DEF SweepRelease, Release
<1>18. ASSUME NEW c \in Cancel, ~CancelRelease(c),
              CancelStep(c) \/ CancelFail(c) \/ \E u \in User : CancelGet(c, u)
       PROVE  UNCHANGED refunds
  BY <1>18 DEF CancelStep, CancelFail, CancelGet, CancelRange, CancelRem, CancelDel
<1>19. ASSUME NEW w \in Sweep, ~SweepRelease(w), SweepStep(w)
       PROVE  UNCHANGED refunds
  BY <1>19 DEF SweepStep, SweepTick, SweepRange, SweepRem, SweepDel
<1>20. \A t \in Ticket : refunds'[t] > 0 => Pushed(t)'
  BY <1>7, <1>8, <1>11, <1>12, <1>15, <1>16, <1>17, <1>18, <1>19 DEF Next
<1> QED
  BY <1>13, <1>20 DEF HistoryShape, Grows

LEMMA InitShaped == Init => Shape
BY DEF Init, Shape, HandShape, TicketShape, PairShape, CancelShape, CancelFits, SweepShape,
       SweepFits, QueueShape, KeyShape, GameShape, HistoryShape, Started, Matching

LEMMA ShapeKept ==
  ASSUME TypeOK, Shape, Next
  PROVE  Shape'
BY TicketShapeKept, PairShapeKept, CancelShapeKept, SweepShapeKept, QueueShapeKept,
   KeyShapeKept, GameShapeKept, HistoryShapeKept DEF Shape, HandShape

LEMMA StutterKeeps ==
  ASSUME TypeOK, Shape, UNCHANGED vars
  PROVE  TypeOK' /\ Shape'
<1> USE DEF vars, redisVars, joinVars, cancelVars, sweepVars
<1>1. TypeOK'
  BY DEF TypeOK
<1>2. HandShape'
  BY DEF Shape, HandShape, TicketShape, PairShape, CancelShape, CancelFits, SweepShape,
         SweepFits, Started, Pushed
<1>3. QueueShape' /\ KeyShape' /\ GameShape' /\ HistoryShape'
  BY DEF Shape, QueueShape, KeyShape, GameShape, HistoryShape, Pushed
<1> QED
  BY <1>1, <1>2, <1>3 DEF Shape

(* TypeOK and Shape: every variable of matchmaking has its type, and what  *)
(* the handlers of joins, cancellations and timeout runs have in hand,     *)
(* what the queues, the keys and the games hold, and what the history      *)
(* remembers fit together at every step.                                   *)
THEOREM MatchmakingShaped == Spec => [](TypeOK /\ Shape)
<1>1. Init => TypeOK /\ Shape
  BY InitTyped, InitShaped
<1>2. (TypeOK /\ Shape) /\ [Next]_vars => (TypeOK /\ Shape)'
  BY TypesKept, ShapeKept, StutterKeeps
<1> QED
  BY <1>1, <1>2, PTL DEF Spec

(* TypeOK: the typing alone, as the runs check it.                         *)
THEOREM MatchmakingTyped == Spec => []TypeOK
BY MatchmakingShaped, PTL

-----------------------------------------------------------------------------
(* What steps leave alone, and what they do to the use of a stake.         *)

(* Only the steps of a join, and a crash, touch its variables.             *)
LEMMA JoinsAlone ==
  ASSUME TypeOK, Next, ~Crash, NEW j \in Ticket, ~JoinStep(j), ~JoinFail(j),
         \A u \in User, s \in Stake : ~JoinCheck(j, u, s)
  PROVE  jpc'[j] = jpc[j] /\ pair'[j] = pair[j] /\ game'[j] = game[j]
<1>1. ASSUME NEW t \in Ticket, t # j,
             JoinStep(t) \/ JoinFail(t) \/ \E u \in User, s \in Stake : JoinCheck(t, u, s)
      PROVE  jpc'[j] = jpc[j] /\ pair'[j] = pair[j] /\ game'[j] = game[j]
  BY <1>1 DEF JoinStep, JoinFail, JoinCheck, LockInsert, LockRefused, Push, SetKey, Range01,
              Rem, Rem1, Rem2, SaveGame, Del1, Del2, TypeOK
<1>2. ASSUME \/ \E t \in Ticket : Age(t)
             \/ \E c \in Cancel : CancelStep(c) \/ CancelFail(c)
             \/ \E c \in Cancel, u \in User : CancelGet(c, u)
             \/ \E w \in Sweep : SweepStep(w)
             \/ \E u \in User : Expire(u)
      PROVE  UNCHANGED joinVars
  BY <1>2 DEF Age, CancelStep, CancelFail, CancelGet, CancelRange, CancelRem, CancelRelease,
              CancelDel, SweepStep, SweepTick, SweepRange, SweepRem, SweepRelease, SweepDel,
              Expire
<1> QED
  BY <1>1, <1>2 DEF Next, joinVars

LEMMA CountOfUses ==
  ASSUME NEW G \in SUBSET Ticket, NEW r \in Nat
  PROVE  /\ Cardinality(G) \in Nat /\ Cardinality(G) + r \in Nat
         /\ Cardinality(G) + r > 0 <=> G # {} \/ r > 0
<1>1. IsFiniteSet(G)
  BY TicketAssumption, FS_Subset
<1>2. Cardinality(G) \in Nat /\ (Cardinality(G) = 0 <=> G = {})
  BY <1>1, FS_CardinalityType, FS_EmptySet
<1> QED
  BY <1>2

(* A game is saved by SaveGame only, and only once by a join.              *)
LEMMA GamesAreSaved ==
  ASSUME TypeOK, Shape, Next
  PROVE  /\ \A j \in Ticket : SaveGame(j) =>
              /\ game[j] = <<>> /\ game' = [game EXCEPT ![j] = pair[j]]
              /\ pair[j] \in Ticket \X Ticket /\ pair[j][1] # pair[j][2]
         /\ (\A j \in Ticket : ~SaveGame(j)) => game' = game
<1>1. ASSUME NEW j \in Ticket, SaveGame(j)
      PROVE  /\ game[j] = <<>> /\ game' = [game EXCEPT ![j] = pair[j]]
             /\ pair[j] \in Ticket \X Ticket /\ pair[j][1] # pair[j][2]
  BY <1>1 DEF SaveGame, Shape, GameShape, HandShape, PairShape, Matching
<1>2. ASSUME \A j \in Ticket : ~SaveGame(j)
      PROVE  game' = game
  <2>1. ASSUME NEW t \in Ticket,
               JoinStep(t) \/ JoinFail(t) \/ \E u \in User, s \in Stake : JoinCheck(t, u, s)
        PROVE  game' = game
    BY <1>2, <2>1 DEF JoinStep, JoinFail, JoinCheck, LockInsert, LockRefused, Push, SetKey,
                      Range01, Rem, Rem1, Rem2, Del1, Del2
  <2>2. ASSUME \/ \E t \in Ticket : Age(t)
               \/ \E c \in Cancel : CancelStep(c) \/ CancelFail(c)
               \/ \E c \in Cancel, u \in User : CancelGet(c, u)
               \/ \E w \in Sweep : SweepStep(w)
               \/ \E u \in User : Expire(u)
        PROVE  game' = game
    BY <2>2 DEF Age, CancelStep, CancelFail, CancelGet, CancelRange, CancelRem, CancelRelease,
                CancelDel, SweepStep, SweepTick, SweepRange, SweepRem, SweepRelease, SweepDel,
                Expire, joinVars
  <2>3. CASE Crash
    BY <2>3 DEF Crash
  <2> QED
    BY <2>1, <2>2, <2>3 DEF Next
<1> QED
  BY <1>1, <1>2

LEMMA GamesOfATicket ==
  ASSUME TypeOK, Shape, Next, NEW t \in Ticket
  PROVE  /\ GamesOf(t) \in SUBSET Ticket /\ GamesOf(t)' \in SUBSET Ticket
         /\ \A j \in Ticket : SaveGame(j) =>
              /\ j \notin GamesOf(t)
              /\ GamesOf(t)' = IF t \in {pair[j][1], pair[j][2]} THEN GamesOf(t) \cup {j}
                                                                ELSE GamesOf(t)
         /\ (\A j \in Ticket : ~SaveGame(j)) => GamesOf(t)' = GamesOf(t)
<1>1. ASSUME NEW j \in Ticket, SaveGame(j)
      PROVE  /\ j \notin GamesOf(t)
             /\ GamesOf(t)' = IF t \in {pair[j][1], pair[j][2]} THEN GamesOf(t) \cup {j}
                                                               ELSE GamesOf(t)
  <2>1. ToSet(pair[j]) = {pair[j][1], pair[j][2]}
    BY <1>1, GamesAreSaved DEF ToSet
  <2>2. j \notin GamesOf(t)
    BY <1>1, GamesAreSaved DEF GamesOf, ToSet
  <2>3. \A i \in Ticket : game'[i] = IF i = j THEN pair[j] ELSE game[i]
    BY <1>1, GamesAreSaved DEF TypeOK
  <2>4. j \in GamesOf(t)' <=> t \in {pair[j][1], pair[j][2]}
    BY <2>1, <2>3 DEF GamesOf
  <2>5. \A i \in Ticket \ {j} : i \in GamesOf(t)' <=> i \in GamesOf(t)
    BY <2>3 DEF GamesOf
  <2>6. GamesOf(t) \subseteq Ticket /\ GamesOf(t)' \subseteq Ticket
    BY DEF GamesOf
  <2> QED
    BY <2>2, <2>4, <2>5, <2>6
<1>2. ASSUME \A j \in Ticket : ~SaveGame(j)
      PROVE  GamesOf(t)' = GamesOf(t)
  BY <1>2, GamesAreSaved DEF GamesOf
<1> QED
  BY <1>1, <1>2 DEF GamesOf

(* A refund is booked by a cancel or the timeout checker, for the entry    *)
(* the call is about.                                                      *)
LEMMA RefundsAreReleased ==
  ASSUME TypeOK, Shape, Next
  PROVE  /\ \A c \in Cancel : CancelRelease(c) =>
              /\ Target(c) \in Ticket
              /\ \A t \in Ticket : refunds'[t] = IF t = Target(c) THEN refunds[t] + 1
                                                                 ELSE refunds[t]
         /\ \A w \in Sweep : SweepRelease(w) =>
              /\ Expiring(w) \in Ticket
              /\ \A t \in Ticket : refunds'[t] = IF t = Expiring(w) THEN refunds[t] + 1
                                                                   ELSE refunds[t]
         /\ (\A c \in Cancel : ~CancelRelease(c)) /\ (\A w \in Sweep : ~SweepRelease(w))
              => refunds' = refunds
<1>1. ASSUME NEW c \in Cancel, CancelRelease(c)
      PROVE  /\ Target(c) \in Ticket
             /\ \A t \in Ticket : refunds'[t] = IF t = Target(c) THEN refunds[t] + 1
                                                                ELSE refunds[t]
  <2>1. Target(c) \in Ticket
    BY <1>1, NoneAssumption
       DEF CancelRelease, Target, TypeOK, Shape, HandShape, CancelShape, CancelFits
  <2>2. refunds' = [refunds EXCEPT ![Target(c)] = @ + 1]
    BY <1>1 DEF CancelRelease, Release, Target
  <2> QED
    BY <2>1, <2>2 DEF TypeOK
<1>2. ASSUME NEW w \in Sweep, SweepRelease(w)
      PROVE  /\ Expiring(w) \in Ticket
             /\ \A t \in Ticket : refunds'[t] = IF t = Expiring(w) THEN refunds[t] + 1
                                                                  ELSE refunds[t]
  <2>1. Expiring(w) \in Ticket
    BY <1>2, ExpiringIsDue DEF SweepRelease, Shape, HandShape, SweepShape, SweepFits
  <2> QED
    BY <1>2, <2>1 DEF SweepRelease, Release, TypeOK
<1>3. ASSUME \A c \in Cancel : ~CancelRelease(c), \A w \in Sweep : ~SweepRelease(w)
      PROVE  refunds' = refunds
  <2>1. ASSUME NEW t \in Ticket,
               \/ JoinStep(t) \/ JoinFail(t) \/ Age(t)
               \/ \E u \in User, s \in Stake : JoinCheck(t, u, s)
        PROVE  refunds' = refunds
    BY <2>1 DEF JoinStep, JoinFail, JoinCheck, LockInsert, LockRefused, Push, SetKey,
                Range01, Rem, Rem1, Rem2, SaveGame, Del1, Del2, Age
  <2>2. ASSUME \/ \E c \in Cancel : CancelStep(c) \/ CancelFail(c)
               \/ \E c \in Cancel, u \in User : CancelGet(c, u)
               \/ \E w \in Sweep : SweepStep(w)
               \/ \E u \in User : Expire(u)
        PROVE  refunds' = refunds
    BY <1>3, <2>2 DEF CancelStep, CancelFail, CancelGet, CancelRange, CancelRem, CancelDel,
                SweepStep, SweepTick, SweepRange, SweepRem, SweepDel, Expire
  <2>3. CASE Crash
    BY <2>3 DEF Crash
  <2> QED
    BY <2>1, <2>2, <2>3 DEF Next
<1> QED
  BY <1>1, <1>2, <1>3

(* What steps do to the queue.                                             *)
LEMMA RemovalFromQueue ==
  ASSUME TypeOK, Shape, NEW e \in Ticket, NEW s \in Stake, stake[e] = s,
         queue' = [queue EXCEPT ![s] = RemoveFirst(@, e)]
  PROVE  \A t \in Ticket : Queued(t)' <=> Queued(t) /\ t # e
<1>1. /\ queue[s] \in Seq(Ticket)
      /\ \A i, j \in 1 .. Len(queue[s]) : queue[s][i] = queue[s][j] => i = j
  BY DEF TypeOK, Shape, QueueShape
<1>2. /\ \A x : Contains(RemoveFirst(queue[s], e), x) => Contains(queue[s], x)
      /\ \A x : x # e /\ Contains(queue[s], x) => Contains(RemoveFirst(queue[s], e), x)
      /\ ~Contains(RemoveFirst(queue[s], e), e)
  BY <1>1, RemoveFirstFacts
<1>3. \A r \in Stake : queue'[r] = IF r = s THEN RemoveFirst(queue[s], e) ELSE queue[r]
  BY DEF TypeOK
<1>4. \A r \in Stake : Contains(queue[r], e) => r = s
  BY DEF Contains, Shape, QueueShape
<1> SUFFICES ASSUME NEW t \in Ticket
             PROVE  Queued(t)' <=> Queued(t) /\ t # e
  OBVIOUS
<1>5. ASSUME Queued(t)'
      PROVE  Queued(t) /\ t # e
  <2>1. PICK r \in Stake : Contains(queue'[r], t)
    BY <1>5 DEF Queued, Contains
  <2> QED
    BY <1>2, <1>3, <1>4, <2>1 DEF Queued
<1>6. ASSUME Queued(t), t # e
      PROVE  Queued(t)'
  <2>1. PICK r \in Stake : Contains(queue[r], t)
    BY <1>6 DEF Queued
  <2>2. Contains(queue'[r], t)
    BY <1>2, <1>3, <1>6, <2>1
  <2> QED
    BY <2>2 DEF Queued, Contains
<1> QED
  BY <1>5, <1>6

LEMMA QueueAfter ==
  ASSUME TypeOK, Shape, Next, NEW t \in Ticket
  PROVE  /\ \A j \in Ticket : Push(j) => (Queued(t)' <=> Queued(t) \/ t = j)
         /\ \A j \in Ticket : Rem1(j) => (Queued(t)' <=> Queued(t) /\ t # pair[j][1])
         /\ \A j \in Ticket : Rem2(j) => (Queued(t)' <=> Queued(t) /\ t # pair[j][2])
         /\ \A c \in Cancel : CancelRem(c) => (Queued(t)' <=> Queued(t) /\ t # chit[c])
         /\ \A w \in Sweep : SweepRem(w) => (Queued(t)' <=> Queued(t) /\ t # Expiring(w))
         /\ \/ \E j \in Ticket : Push(j) \/ Rem1(j) \/ Rem2(j)
            \/ \E c \in Cancel : CancelRem(c)
            \/ \E w \in Sweep : SweepRem(w)
            \/ Queued(t)' <=> Queued(t)
<1>1. ASSUME NEW j \in Ticket, Push(j)
      PROVE  Queued(t)' <=> Queued(t) \/ t = j
  <2>1. stake[j] \in Stake
    BY <1>1 DEF Push, Shape, HandShape, TicketShape
  <2>2. \A r \in Stake : queue'[r] = IF r = stake[j] THEN <<j>> \o queue[r] ELSE queue[r]
    BY <1>1, <2>1 DEF Push, Cons, TypeOK
  <2>3. ASSUME NEW r \in Stake
        PROVE  Contains(<<j>> \o queue[r], t) <=> Contains(queue[r], t) \/ t = j
    <3> DEFINE q == queue[r]
               p == <<j>> \o queue[r]
    <3>1. /\ q \in Seq(Ticket) /\ Len(q) \in Nat /\ Len(p) = Len(q) + 1
          /\ \A i \in 1 .. Len(p) : p[i] = IF i = 1 THEN j ELSE q[i - 1]
      BY DEF TypeOK
    <3> HIDE DEF p, q
    <3>2. ASSUME NEW i \in 1 .. Len(p), p[i] = t
          PROVE  t = j \/ \E n \in 1 .. Len(q) : q[n] = t
      <4>1. i = 1 \/ i - 1 \in 1 .. Len(q)
        BY <3>1
      <4> QED
        BY <3>1, <3>2, <4>1
    <3>3. ASSUME NEW n \in 1 .. Len(q), q[n] = t
          PROVE  \E i \in 1 .. Len(p) : p[i] = t
      <4>1. n + 1 \in 1 .. Len(p) /\ n + 1 # 1 /\ (n + 1) - 1 = n
        BY <3>1
      <4>2. p[n + 1] = t
        BY <3>1, <3>3, <4>1
      <4> QED
        BY <4>1, <4>2
    <3>4. 1 \in 1 .. Len(p) /\ p[1] = j
      BY <3>1
    <3>5. Contains(p, t) <=> Contains(q, t) \/ t = j
      BY <3>2, <3>3, <3>4 DEF Contains
    <3> QED
      BY <3>5 DEF p, q
  <2>4. \A r \in Stake :
          Contains(queue'[r], t) <=> Contains(queue[r], t) \/ (t = j /\ r = stake[j])
    BY <2>2, <2>3
  <2>5. Queued(t)' <=> \E r \in Stake : Contains(queue'[r], t)
    BY DEF Queued, Contains
  <2> QED
    BY <2>1, <2>4, <2>5 DEF Queued
<1>2. ASSUME NEW j \in Ticket, jpc[j] \in Matching, NEW i \in {1, 2}, Rem(j, i)
      PROVE  Queued(t)' <=> Queued(t) /\ t # pair[j][i]
  <2>1. pair[j][i] \in Ticket /\ stake[pair[j][i]] = stake[j] /\ stake[j] \in Stake
    BY <1>2 DEF Matching, Shape, HandShape, PairShape, TicketShape
  <2>2. queue' = [queue EXCEPT ![stake[j]] = RemoveFirst(@, pair[j][i])]
    BY <1>2 DEF Rem
  <2> QED
    BY <2>1, <2>2, RemovalFromQueue
<1>3. ASSUME NEW c \in Cancel, CancelRem(c)
      PROVE  Queued(t)' <=> Queued(t) /\ t # chit[c]
  <2>1. chit[c] \in Ticket /\ Pushed(chit[c]) /\ stake[chit[c]] = stake[cent[c]]
    BY <1>3, NoneAssumption
       DEF CancelRem, Shape, HandShape, CancelShape, CancelFits, TypeOK
  <2>2. stake[chit[c]] \in Stake
    BY <2>1 DEF Pushed, Shape, HandShape, TicketShape, Started
  <2>3. queue' = [queue EXCEPT ![stake[chit[c]]] = RemoveFirst(@, chit[c])]
    BY <1>3, <2>1 DEF CancelRem
  <2> QED
    BY <2>1, <2>2, <2>3, RemovalFromQueue
<1>4. ASSUME NEW w \in Sweep, SweepRem(w)
      PROVE  Queued(t)' <=> Queued(t) /\ t # Expiring(w)
  <2>1. Expiring(w) \in Ticket /\ Pushed(Expiring(w))
    BY <1>4, ExpiringIsDue DEF SweepRem, Shape, HandShape, SweepShape, SweepFits
  <2>2. stake[Expiring(w)] \in Stake
    BY <2>1 DEF Pushed, Shape, HandShape, TicketShape, Started
  <2>3. queue' = [queue EXCEPT ![stake[Expiring(w)]] = RemoveFirst(@, Expiring(w))]
    BY <1>4 DEF SweepRem
  <2> QED
    BY <2>1, <2>2, <2>3, RemovalFromQueue
<1>5. ASSUME \A j \in Ticket : ~Push(j) /\ ~Rem1(j) /\ ~Rem2(j),
             \A c \in Cancel : ~CancelRem(c), \A w \in Sweep : ~SweepRem(w)
      PROVE  queue' = queue
  <2>1. ASSUME NEW j \in Ticket,
               \/ JoinStep(j) \/ JoinFail(j) \/ Age(j)
               \/ \E u \in User, s \in Stake : JoinCheck(j, u, s)
        PROVE  queue' = queue
    BY <1>5, <2>1 DEF JoinStep, JoinFail, JoinCheck, LockInsert, LockRefused, SetKey,
                Range01, SaveGame, Del1, Del2, Age, DelKey, redisVars
  <2>2. ASSUME \/ \E c \in Cancel : CancelStep(c) \/ CancelFail(c)
               \/ \E c \in Cancel, u \in User : CancelGet(c, u)
               \/ \E w \in Sweep : SweepStep(w)
               \/ \E u \in User : Expire(u)
        PROVE  queue' = queue
    BY <1>5, <2>2 DEF CancelStep, CancelFail, CancelGet, CancelRange, CancelRelease,
                CancelDel, SweepStep, SweepTick, SweepRange, SweepRelease, SweepDel, Expire,
                DelKey, redisVars
  <2>3. CASE Crash
    BY <2>3 DEF Crash, redisVars
  <2> QED
    BY <2>1, <2>2, <2>3 DEF Next
<1>6. queue' = queue => (Queued(t)' <=> Queued(t))
  BY DEF Queued, Contains
<1>7. \A j \in Ticket : Rem1(j) => jpc[j] \in Matching /\ Rem(j, 1)
  BY DEF Rem1, Matching
<1>8. \A j \in Ticket : Rem2(j) => jpc[j] \in Matching /\ Rem(j, 2)
  BY DEF Rem2, Matching
<1> QED
  BY <1>1, <1>2, <1>3, <1>4, <1>5, <1>6, <1>7, <1>8

LEMMA ExpiringStays ==
  ASSUME NEW w \in Sweep, wlist'[w] = wlist[w], wdue'[w] = wdue[w]
  PROVE  Expiring(w)' = Expiring(w)
BY DEF Expiring, SelectInSeq

-----------------------------------------------------------------------------
(* No stake is forgotten.                                                  *)

(* Where the stake of entry t is.                                          *)
Kept(t) == \/ jpc[t] = "locked" \/ Queued(t) \/ BeingUsed(t)
           \/ GamesOf(t) # {} \/ refunds[t] > 0

LEMMA FaultsAreCounted ==
  ASSUME TypeOK, Next, {"CANCELLED", "TIMEOUT"} \subseteq AcceptedRef, faults' = 0
  PROVE  /\ faults = 0 /\ ~Crash
         /\ \A t \in Ticket : ~JoinFail(t)
         /\ \A c \in Cancel : ~CancelFail(c)
<1>1. faults \in Nat
  BY FaultAssumption DEF TypeOK
<1>2. ~Crash
  BY <1>1 DEF Crash, FaultUnless
<1>3. \A t \in Ticket : ~JoinFail(t)
  BY <1>1 DEF JoinFail, FaultUnless
<1>4. \A c \in Cancel : ~CancelFail(c)
  BY <1>1 DEF CancelFail, FaultUnless
<1>5. ASSUME NEW t \in Ticket,
             JoinStep(t) \/ Age(t) \/ \E u \in User, s \in Stake : JoinCheck(t, u, s)
      PROVE  faults = 0
  BY <1>1, <1>5 DEF JoinStep, JoinCheck, LockInsert, LockRefused, Push, SetKey, Range01,
              Rem, Rem1, Rem2, SaveGame, Del1, Del2, Age, FaultUnless
<1>6. ASSUME \/ \E c \in Cancel : CancelStep(c)
             \/ \E c \in Cancel, u \in User : CancelGet(c, u)
             \/ \E w \in Sweep : SweepStep(w)
             \/ \E u \in User : Expire(u)
      PROVE  faults = 0
  BY <1>6 DEF CancelStep, CancelGet, CancelRange, CancelRem, CancelRelease, CancelDel,
              SweepStep, SweepTick, SweepRange, SweepRem, SweepRelease, SweepDel, Expire
<1> QED
  BY <1>2, <1>3, <1>4, <1>5, <1>6 DEF Next

(* A use of a stake is for good.                                           *)
LEMMA UsedStaysUsed ==
  ASSUME TypeOK, Shape, Next, NEW t \in Ticket, GamesOf(t) # {} \/ refunds[t] > 0
  PROVE  GamesOf(t)' # {} \/ refunds'[t] > 0
<1>1. GamesOf(t) \subseteq GamesOf(t)'
  BY GamesOfATicket
<1>2. refunds[t] \in Nat /\ refunds'[t] \in {refunds[t], refunds[t] + 1}
  BY RefundsAreReleased DEF TypeOK
<1> QED
  BY <1>1, <1>2

(* The handler that takes an entry out of the queue uses its stake.        *)
LEMMA BeingUsedEndsInUse ==
  ASSUME TypeOK, Shape, Next, NEW t \in Ticket, BeingUsed(t),
         ~Crash, \A j \in Ticket : ~JoinFail(j), \A c \in Cancel : ~CancelFail(c)
  PROVE  Kept(t)'
<1>1. ASSUME NEW j \in Ticket, jpc[j] \in {"rem1", "rem2", "save"}, t \in ToSet(pair[j])
      PROVE  Kept(t)'
  <2>1. pair[j] \in Ticket \X Ticket /\ t \in {pair[j][1], pair[j][2]}
    BY <1>1 DEF Shape, HandShape, PairShape, Matching, ToSet
  <2>2. CASE SaveGame(j)
    BY <2>1, <2>2, GamesOfATicket DEF Kept
  <2>3. CASE ~SaveGame(j)
    <3>1. jpc'[j] \in {"rem1", "rem2", "save"} /\ pair'[j] = pair[j]
      <4>1. CASE Rem1(j) \/ Rem2(j)
        BY <4>1 DEF Rem1, Rem2, Rem, TypeOK
      <4>2. CASE ~Rem1(j) /\ ~Rem2(j)
        <5>1. ~JoinStep(j) /\ \A u \in User, s \in Stake : ~JoinCheck(j, u, s)
          BY <1>1, <2>3, <4>2 DEF JoinStep, JoinCheck, LockInsert, LockRefused, Push,
                                  SetKey, Range01, Del1, Del2
        <5> QED
          BY <1>1, <5>1, JoinsAlone
      <4> QED
        BY <4>1, <4>2
    <3>2. BeingUsed(t)'
      BY <1>1, <3>1 DEF BeingUsed, ToSet
    <3> QED
      BY <3>2 DEF Kept
  <2> QED
    BY <2>2, <2>3
<1>2. ASSUME NEW c \in Cancel, cpc[c] \in {"remove", "release"}, chit[c] = t
      PROVE  Kept(t)'
  <2>1. CASE CancelRelease(c)
    <3>1. Target(c) = t /\ refunds[t] \in Nat
      BY <1>2, NoneAssumption DEF Target, TypeOK
    <3>2. refunds'[t] > 0
      BY <2>1, <3>1, RefundsAreReleased
    <3> QED
      BY <3>2 DEF Kept
  <2>2. CASE ~CancelRelease(c)
    <3>1. cpc'[c] \in {"remove", "release"} /\ chit'[c] = t
      <4>1. CASE CancelRem(c)
        BY <1>2, <4>1 DEF CancelRem, TypeOK
      <4>2. CASE ~CancelRem(c)
        <5>1. ~CancelStep(c) /\ \A u \in User : ~CancelGet(c, u)
          BY <1>2, <2>2, <4>2 DEF CancelStep, CancelGet, CancelRange, CancelDel
        <5> QED
          BY <1>2, <5>1, CancelsAlone
      <4> QED
        BY <4>1, <4>2
    <3> QED
      BY <3>1 DEF Kept, BeingUsed
  <2> QED
    BY <2>1, <2>2
<1>3. ASSUME NEW w \in Sweep, wpc[w] \in {"remove", "release"}, t = Expiring(w)
      PROVE  Kept(t)'
  <2>1. CASE SweepRelease(w)
    <3>1. refunds[t] \in Nat /\ refunds'[t] = refunds[t] + 1
      BY <1>3, <2>1, RefundsAreReleased DEF TypeOK
    <3> QED
      BY <3>1 DEF Kept
  <2>2. CASE ~SweepRelease(w)
    <3>1. wpc'[w] \in {"remove", "release"} /\ wlist'[w] = wlist[w] /\ wdue'[w] = wdue[w]
      <4>1. CASE SweepRem(w)
        BY <1>3, <4>1 DEF SweepRem, TypeOK
      <4>2. CASE ~SweepRem(w)
        <5>1. ~SweepStep(w)
          BY <1>3, <2>2, <4>2 DEF SweepStep, SweepTick, SweepRange, SweepDel
        <5> QED
          BY <1>3, <5>1, SweepsAlone
      <4> QED
        BY <4>1, <4>2
    <3>2. Expiring(w)' = t
      BY <1>3, <3>1, ExpiringStays
    <3>3. BeingUsed(t)'
      BY <3>1, <3>2 DEF BeingUsed
    <3> QED
      BY <3>3 DEF Kept
  <2> QED
    BY <2>1, <2>2
<1> QED
  BY <1>1, <1>2, <1>3 DEF BeingUsed

(* Whoever takes an entry out of the queue is going to use its stake.      *)
LEMMA TakenToBeUsed ==
  ASSUME TypeOK, Shape, Next, NEW t \in Ticket, Queued(t)
  PROVE  Kept(t)'
<1>1. ASSUME NEW j \in Ticket, Rem1(j), t = pair[j][1]
      PROVE  Kept(t)'
  <2>1. jpc'[j] = "rem2" /\ pair'[j] = pair[j] /\ pair[j] \in Ticket \X Ticket
    BY <1>1 DEF Rem1, Rem, Shape, HandShape, PairShape, Matching, TypeOK
  <2> QED
    BY <1>1, <2>1 DEF Kept, BeingUsed, ToSet
<1>2. ASSUME NEW j \in Ticket, Rem2(j), t = pair[j][2]
      PROVE  Kept(t)'
  <2>1. jpc'[j] = "save" /\ pair'[j] = pair[j] /\ pair[j] \in Ticket \X Ticket
    BY <1>2 DEF Rem2, Rem, Shape, HandShape, PairShape, Matching, TypeOK
  <2> QED
    BY <1>2, <2>1 DEF Kept, BeingUsed, ToSet
<1>3. ASSUME NEW c \in Cancel, CancelRem(c), t = chit[c]
      PROVE  Kept(t)'
  BY <1>3 DEF CancelRem, Kept, BeingUsed, TypeOK
<1>4. ASSUME NEW w \in Sweep, SweepRem(w), t = Expiring(w)
      PROVE  Kept(t)'
  <2>1. wpc'[w] = "release" /\ wlist'[w] = wlist[w] /\ wdue'[w] = wdue[w]
    BY <1>4 DEF SweepRem, TypeOK
  <2>2. Expiring(w)' = t
    BY <1>4, <2>1, ExpiringStays
  <2> QED
    BY <2>1, <2>2 DEF Kept, BeingUsed
<1>5. CASE Queued(t)'
  BY <1>5 DEF Kept
<1> QED
  BY <1>1, <1>2, <1>3, <1>4, <1>5, QueueAfter

LEMMA StakedByLockInsert ==
  ASSUME TypeOK, Next, NEW t \in Ticket, t \in staked' \ staked
  PROVE  LockInsert(t)
<1>1. ASSUME NEW j \in Ticket, ~LockInsert(j),
             \/ JoinStep(j) \/ JoinFail(j) \/ Age(j)
             \/ \E u \in User, s \in Stake : JoinCheck(j, u, s)
      PROVE  staked' = staked
  BY <1>1 DEF JoinStep, JoinFail, JoinCheck, LockRefused, Push, SetKey, Range01, Rem, Rem1,
              Rem2, SaveGame, Del1, Del2, Age
<1>2. ASSUME \/ \E c \in Cancel : CancelStep(c) \/ CancelFail(c)
             \/ \E c \in Cancel, u \in User : CancelGet(c, u)
             \/ \E w \in Sweep : SweepStep(w)
             \/ \E u \in User : Expire(u)
             \/ Crash
      PROVE  staked' = staked
  BY <1>2 DEF CancelStep, CancelFail, CancelGet, CancelRange, CancelRem, CancelRelease,
              CancelDel, SweepStep, SweepTick, SweepRange, SweepRem, SweepRelease, SweepDel,
              Expire, Crash
<1>3. PICK j \in Ticket : LockInsert(j)
  BY <1>1, <1>2 DEF Next
<1> QED
  BY <1>3 DEF LockInsert

(* A stake is locked by LockInsert, and pushed next.                       *)
LEMMA LockedIsPushed ==
  ASSUME TypeOK, Shape, Next, ~Crash, NEW t \in Ticket, ~JoinFail(t)
  PROVE  /\ t \in staked' \ staked => Kept(t)'
         /\ jpc[t] = "locked" => Kept(t)'
<1>1. CASE LockInsert(t)
  <2>1. jpc[t] = "funded" /\ jpc'[t] = "locked"
    BY <1>1 DEF LockInsert, TypeOK
  <2> QED
    BY <2>1 DEF Kept
<1>2. CASE Push(t)
  <2>1. staked' = staked /\ Queued(t)'
    BY <1>2, QueueAfter DEF Push
  <2> QED
    BY <2>1 DEF Kept
<1>3. CASE ~LockInsert(t) /\ ~Push(t)
  <2>1. ASSUME jpc[t] = "locked"
        PROVE  jpc'[t] = "locked"
    <3>1. ~JoinStep(t) /\ \A u \in User, s \in Stake : ~JoinCheck(t, u, s)
      BY <1>3, <2>1 DEF JoinStep, JoinCheck, LockInsert, LockRefused, SetKey, Range01,
                        Rem1, Rem2, SaveGame, Del1, Del2
    <3> QED
      BY <2>1, <3>1, JoinsAlone
  <2>2. t \notin staked' \ staked
    BY <1>3, StakedByLockInsert
  <2> QED
    BY <2>1, <2>2 DEF Kept
<1> QED
  BY <1>1, <1>2, <1>3

(* Where refunds are accepted, each step keeps the stakes.                 *)
LEMMA StakesAreKept ==
  ASSUME {"CANCELLED", "TIMEOUT"} \subseteq AcceptedRef
  PROVE  Spec => []NoStakeForgotten
<1> DEFINE Inv == TypeOK /\ Shape /\ (faults = 0 => \A t \in staked : Kept(t))
<1>1. Init => Inv
  BY InitTyped, InitShaped DEF Init
<1>2. ASSUME TypeOK, Shape, faults = 0 => \A t \in staked : Kept(t), Next
      PROVE  faults' = 0 => (\A t \in staked : Kept(t))'
  <2> SUFFICES ASSUME faults' = 0, NEW t \in staked'
               PROVE  Kept(t)'
    OBVIOUS
  <2>1. faults = 0 /\ ~Crash /\ t \in Ticket /\ ~JoinFail(t)
    BY <1>2, FaultsAreCounted, TypesKept DEF TypeOK
  <2>2. CASE t \notin staked \/ jpc[t] = "locked"
    BY <1>2, <2>1, <2>2, LockedIsPushed
  <2>3. CASE Queued(t)
    BY <1>2, <2>1, <2>3, TakenToBeUsed
  <2>4. CASE BeingUsed(t)
    BY <1>2, <2>1, <2>4, FaultsAreCounted, BeingUsedEndsInUse
  <2>5. CASE GamesOf(t) # {} \/ refunds[t] > 0
    BY <1>2, <2>1, <2>5, UsedStaysUsed DEF Kept
  <2> QED
    BY <1>2, <2>1, <2>2, <2>3, <2>4, <2>5 DEF Kept
<1>3. ASSUME Inv, UNCHANGED vars
      PROVE  faults' = 0 => (\A t \in staked : Kept(t))'
  <2> SUFFICES ASSUME faults' = 0, NEW t \in staked'
               PROVE  Kept(t)'
    OBVIOUS
  <2> USE DEF vars, joinVars, redisVars, cancelVars, sweepVars
  <2>1. Kept(t)
    BY <1>3
  <2>2. \A w \in Sweep : Expiring(w)' = Expiring(w)
    BY <1>3, ExpiringStays
  <2>3. BeingUsed(t) => BeingUsed(t)'
    BY <1>3, <2>2 DEF BeingUsed, ToSet
  <2>4. Queued(t) => Queued(t)'
    BY <1>3 DEF Queued, Contains
  <2>5. GamesOf(t)' = GamesOf(t)
    BY <1>3 DEF GamesOf, ToSet
  <2> QED
    BY <1>3, <2>1, <2>3, <2>4, <2>5 DEF Kept
<1>4. Inv /\ [Next]_vars => Inv'
  BY <1>2, <1>3, TypesKept, ShapeKept, StutterKeeps
<1>5. Inv => NoStakeForgotten
  <2> SUFFICES ASSUME Inv, NEW t \in staked, Kept(t)
               PROVE  jpc[t] = "locked" \/ Queued(t) \/ BeingUsed(t) \/ Uses(t) > 0
    BY DEF NoStakeForgotten
  <2>1. t \in Ticket /\ refunds[t] \in Nat /\ GamesOf(t) \in SUBSET Ticket
    BY DEF TypeOK, GamesOf
  <2>2. Uses(t) > 0 <=> GamesOf(t) # {} \/ refunds[t] > 0
    BY <2>1, CountOfUses DEF Uses
  <2> QED
    BY <2>2 DEF Kept
<1> QED
  BY <1>1, <1>4, <1>5, PTL DEF Spec

(* Where locks are refused there are no stakes.                            *)
LEMMA NothingIsLocked ==
  ASSUME "PENDING" \notin AcceptedRef
  PROVE  Spec => []NoStakeForgotten
<1> DEFINE Inv == TypeOK /\ Shape /\ staked = {}
<1>1. Init => Inv
  BY InitTyped, InitShaped DEF Init
<1>2. Inv /\ [Next]_vars => Inv'
  <2>1. ASSUME Inv, Next
        PROVE  staked' = {}
    <3> SUFFICES ASSUME NEW t \in staked'
                 PROVE  FALSE
      OBVIOUS
    <3>1. TypeOK'
      BY <2>1, TypesKept
    <3>2. t \in Ticket /\ t \in staked' \ staked
      BY <2>1, <3>1 DEF TypeOK
    <3>3. LockInsert(t)
      BY <2>1, <3>2, StakedByLockInsert
    <3> QED
      BY <3>3 DEF LockInsert
  <2>2. ASSUME Inv, UNCHANGED vars
        PROVE  staked' = {}
    BY <2>2 DEF vars
  <2> QED
    BY <2>1, <2>2, TypesKept, ShapeKept, StutterKeeps
<1>3. Inv => NoStakeForgotten
  BY DEF NoStakeForgotten
<1> QED
  BY <1>1, <1>2, <1>3, PTL DEF Spec

(* NoStakeForgotten: as long as no call fails, a stake the ledger shows as *)
(* locked is on its way into the queue, in it, in the hands of a handler   *)
(* that will use it, in a game, or refunded, however joins, cancellations  *)
(* and timeout runs interleave.  The schema must not take a lock's         *)
(* reference and refuse a refund's.                                        *)
THEOREM NoStakeIsForgotten ==
  ASSUME "PENDING" \in AcceptedRef => {"CANCELLED", "TIMEOUT"} \subseteq AcceptedRef
  PROVE  Spec => []NoStakeForgotten
<1>1. CASE "PENDING" \in AcceptedRef
  BY <1>1, StakesAreKept
<1>2. CASE "PENDING" \notin AcceptedRef
  BY <1>2, NothingIsLocked
<1> QED
  BY <1>1, <1>2

-----------------------------------------------------------------------------
(* A stake that one call at a time had in hand is used once at most.       *)

(* Call k takes a step.                                                    *)
Acts(k) ==
  CASE k[1] = "join"   -> \/ JoinStep(k[2]) \/ JoinFail(k[2])
                          \/ \E u \in User, s \in Stake : JoinCheck(k[2], u, s)
    [] k[1] = "cancel" -> \/ CancelStep(k[2]) \/ CancelFail(k[2])
                          \/ \E u \in User : CancelGet(k[2], u)
    [] k[1] = "sweep"  -> SweepStep(k[2])

(* Call h is where it was, with the same in hand.                          *)
Untouched(h) == /\ Holds(h)' = Holds(h) /\ Out(h)' = Out(h)
                /\ Used(h)' = Used(h) /\ Linked(h)' = Linked(h)

LEMMA Bystanders ==
  /\ \A j \in Ticket : jpc'[j] = jpc[j] /\ pair'[j] = pair[j] => Untouched(<<"join", j>>)
  /\ \A c \in Cancel : cpc'[c] = cpc[c] /\ cent'[c] = cent[c] /\ chit'[c] = chit[c]
                         => Untouched(<<"cancel", c>>)
  /\ \A w \in Sweep : wpc'[w] = wpc[w] /\ wlist'[w] = wlist[w] /\ wdue'[w] = wdue[w]
                        => Untouched(<<"sweep", w>>)
<1>1. ASSUME NEW j \in Ticket, jpc'[j] = jpc[j], pair'[j] = pair[j]
      PROVE  Untouched(<<"join", j>>)
  BY <1>1 DEF Untouched, Holds, JoinHolds, Out, Used, Linked, ToSet
<1>2. ASSUME NEW c \in Cancel, cpc'[c] = cpc[c], cent'[c] = cent[c], chit'[c] = chit[c]
      PROVE  Untouched(<<"cancel", c>>)
  BY <1>2 DEF Untouched, Holds, CancelHolds, Out, Used, Linked, Target
<1>3. ASSUME NEW w \in Sweep, wpc'[w] = wpc[w], wlist'[w] = wlist[w], wdue'[w] = wdue[w]
      PROVE  Untouched(<<"sweep", w>>)
  BY <1>3, ExpiringStays DEF Untouched, Holds, SweepHolds, Out, Used, Linked
<1> QED
  BY <1>1, <1>2, <1>3

LEMMA OnlyTheCaller ==
  ASSUME TypeOK, NEW k \in Call, Acts(k), NEW h \in Call, h # k
  PROVE  Untouched(h)
<1>1. ASSUME NEW j \in Ticket, k = <<"join", j>>
      PROVE  /\ UNCHANGED <<cancelVars, sweepVars>>
             /\ \A i \in Ticket \ {j} : jpc'[i] = jpc[i] /\ pair'[i] = pair[i]
  <2>1. JoinStep(j) \/ JoinFail(j) \/ \E u \in User, s \in Stake : JoinCheck(j, u, s)
    BY <1>1 DEF Acts
  <2> QED
    BY <2>1 DEF JoinStep, JoinFail, JoinCheck, LockInsert, LockRefused, Push, SetKey,
                Range01, Rem, Rem1, Rem2, SaveGame, Del1, Del2, TypeOK
<1>2. ASSUME NEW c \in Cancel, k = <<"cancel", c>>
      PROVE  /\ UNCHANGED <<joinVars, sweepVars>>
             /\ \A d \in Cancel \ {c} :
                  cpc'[d] = cpc[d] /\ cent'[d] = cent[d] /\ chit'[d] = chit[d]
  <2>1. CancelStep(c) \/ CancelFail(c) \/ \E u \in User : CancelGet(c, u)
    BY <1>2 DEF Acts
  <2> QED
    BY <2>1 DEF CancelStep, CancelFail, CancelGet, CancelRange, CancelRem, CancelRelease,
                CancelDel, EndCancel, TypeOK
<1>3. ASSUME NEW w \in Sweep, k = <<"sweep", w>>
      PROVE  /\ UNCHANGED <<joinVars, cancelVars>>
             /\ \A v \in Sweep \ {w} :
                  wpc'[v] = wpc[v] /\ wlist'[v] = wlist[v] /\ wdue'[v] = wdue[v]
  <2>1. SweepStep(w)
    BY <1>3 DEF Acts
  <2> QED
    BY <2>1 DEF SweepStep, SweepTick, SweepRange, SweepRem, SweepRelease, SweepDel, SweepTo,
                TypeOK
<1>4. \/ \E j \in Ticket : h = <<"join", j>>
      \/ \E c \in Cancel : h = <<"cancel", c>>
      \/ \E w \in Sweep : h = <<"sweep", w>>
  BY DEF Call
<1>5. \/ \E j \in Ticket : k = <<"join", j>>
      \/ \E c \in Cancel : k = <<"cancel", c>>
      \/ \E w \in Sweep : k = <<"sweep", w>>
  BY DEF Call
<1> QED
  BY <1>1, <1>2, <1>3, <1>4, <1>5, Bystanders DEF joinVars, cancelVars, sweepVars

LEMMA UsesAfter ==
  ASSUME TypeOK, Shape, Next, NEW t \in Ticket
  PROVE  /\ Uses(t) \in Nat
         /\ \A j \in Ticket : SaveGame(j) =>
              Uses(t)' = IF t \in {pair[j][1], pair[j][2]} THEN Uses(t) + 1 ELSE Uses(t)
         /\ \A c \in Cancel : CancelRelease(c) =>
              Uses(t)' = IF t = Target(c) THEN Uses(t) + 1 ELSE Uses(t)
         /\ \A w \in Sweep : SweepRelease(w) =>
              Uses(t)' = IF t = Expiring(w) THEN Uses(t) + 1 ELSE Uses(t)
         /\ \/ \E j \in Ticket : SaveGame(j)
            \/ \E c \in Cancel : CancelRelease(c)
            \/ \E w \in Sweep : SweepRelease(w)
            \/ Uses(t)' = Uses(t)
<1>1. Uses(t) = Cardinality(GamesOf(t)) + refunds[t]
      /\ Uses(t)' = Cardinality(GamesOf(t)') + refunds'[t]
  BY DEF Uses
<1>2. /\ GamesOf(t) \in SUBSET Ticket /\ refunds[t] \in Nat /\ IsFiniteSet(GamesOf(t))
      /\ Cardinality(GamesOf(t)) \in Nat
  BY GamesOfATicket, CountOfUses, TicketAssumption, FS_Subset DEF TypeOK
<1>3. ASSUME NEW j \in Ticket, SaveGame(j)
      PROVE  Uses(t)' = IF t \in {pair[j][1], pair[j][2]} THEN Uses(t) + 1 ELSE Uses(t)
  <2>1. refunds' = refunds
    BY <1>3 DEF SaveGame
  <2>2. Cardinality(GamesOf(t) \cup {j}) = Cardinality(GamesOf(t)) + 1
    BY <1>2, <1>3, GamesOfATicket, FS_AddElement
  <2>3. CASE t \in {pair[j][1], pair[j][2]}
    <3>1. GamesOf(t)' = GamesOf(t) \cup {j}
      BY <1>3, <2>3, GamesOfATicket
    <3> QED
      BY <1>1, <1>2, <2>1, <2>2, <2>3, <3>1
  <2>4. CASE t \notin {pair[j][1], pair[j][2]}
    <3>1. GamesOf(t)' = GamesOf(t)
      BY <1>3, <2>4, GamesOfATicket
    <3> QED
      BY <1>1, <1>2, <2>1, <2>4, <3>1
  <2> QED
    BY <2>3, <2>4
<1>4. ASSUME NEW c \in Cancel, CancelRelease(c)
      PROVE  Uses(t)' = IF t = Target(c) THEN Uses(t) + 1 ELSE Uses(t)
  <2>1. GamesOf(t)' = GamesOf(t)
    BY <1>4 DEF CancelRelease, joinVars, GamesOf, ToSet
  <2> QED
    BY <1>1, <1>2, <1>4, <2>1, RefundsAreReleased
<1>5. ASSUME NEW w \in Sweep, SweepRelease(w)
      PROVE  Uses(t)' = IF t = Expiring(w) THEN Uses(t) + 1 ELSE Uses(t)
  <2>1. GamesOf(t)' = GamesOf(t)
    BY <1>5 DEF SweepRelease, joinVars, GamesOf, ToSet
  <2> QED
    BY <1>1, <1>2, <1>5, <2>1, RefundsAreReleased
<1>6. ASSUME \A j \in Ticket : ~SaveGame(j), \A c \in Cancel : ~CancelRelease(c),
             \A w \in Sweep : ~SweepRelease(w)
      PROVE  Uses(t)' = Uses(t)
  BY <1>1, <1>6, GamesOfATicket, RefundsAreReleased
<1> QED
  BY <1>1, <1>2, <1>3, <1>4, <1>5, <1>6

LEMMA DisturbedForGood ==
  ASSUME TypeOK, Next
  PROVE  disturbed \subseteq disturbed'
<1>1. ASSUME NEW t \in Ticket,
             \/ JoinStep(t) \/ JoinFail(t) \/ Age(t)
             \/ \E u \in User, s \in Stake : JoinCheck(t, u, s)
      PROVE  disturbed \subseteq disturbed'
  BY <1>1 DEF JoinStep, JoinFail, JoinCheck, LockInsert, LockRefused, Push, SetKey, Range01,
              Rem, Rem1, Rem2, SaveGame, Del1, Del2, Age, Track
<1>2. ASSUME \/ \E c \in Cancel : CancelStep(c) \/ CancelFail(c)
             \/ \E c \in Cancel, u \in User : CancelGet(c, u)
             \/ \E w \in Sweep : SweepStep(w)
             \/ \E u \in User : Expire(u)
             \/ Crash
      PROVE  disturbed \subseteq disturbed'
  BY <1>2 DEF CancelStep, CancelFail, CancelGet, CancelRange, CancelRem, CancelRelease,
              CancelDel, SweepStep, SweepTick, SweepRange, SweepRem, SweepRelease, SweepDel,
              Expire, Crash, Track
<1> QED
  BY <1>1, <1>2 DEF Next

Early == {"new", "funded", "locked", "pushed"}

(* Steps that use no stake.                                                *)
LEMMA QuietStep ==
  ASSUME NEW t \in Ticket, NEW k \in Call, Once(t),
         \A h \in Call \ {k} : Untouched(h),
         Uses(t)' = Uses(t),
         Queued(t)' => Queued(t),
         jpc'[t] \in Early => jpc[t] \in Early,
         \A u \in User : userKey'[u] = t => userKey[u] = t,
         t \in Linked(k) => t \in Linked(k)' \/ \A u \in User : userKey'[u] # t,
         t \in Holds(k)' => (t \in Used(k)' <=> Uses(t) = 1),
         t \in Out(k)' => ~Queued(t)'
  PROVE  Once(t)'
<1>1. \A h \in Call \ {k} : /\ t \in Holds(h)' <=> t \in Holds(h)
                            /\ t \in Out(h)' <=> t \in Out(h)
                            /\ t \in Used(h)' <=> t \in Used(h)
                            /\ t \in Linked(h)' <=> t \in Linked(h)
  BY DEF Untouched
<1>2. /\ Uses(t)' \in {0, 1}
      /\ Queued(t)' => Uses(t)' = 0
      /\ jpc'[t] \in Early => Uses(t)' = 0
  BY DEF Once, Early
<1>3. ASSUME NEW u \in User, userKey'[u] = t
      PROVE  Uses(t)' = 0 \/ \E h \in Call : t \in Linked(h)'
  BY <1>1, <1>3 DEF Once
<1>4. ASSUME NEW h \in Call
      PROVE  /\ t \in Holds(h)' => (t \in Used(h)' <=> Uses(t)' = 1)
             /\ t \in Out(h)' => ~Queued(t)'
  BY <1>1 DEF Once
<1> QED
  BY <1>2, <1>3, <1>4 DEF Once, Early

(* The step that uses the stake of t.                                      *)
LEMMA UseStep ==
  ASSUME NEW t \in Ticket, NEW k \in Call, Sole(t)',
         t \in Holds(k)', t \in Used(k)', t \in Linked(k)',
         Uses(t)' = 1, ~Queued(t)', jpc'[t] \notin Early
  PROVE  Once(t)'
<1>1. \A h \in Call : t \in Holds(h)' => h = k
  BY DEF Sole
<1> QED
  BY <1>1 DEF Once, Early

LEMMA SoleAfter ==
  ASSUME NEW t \in Ticket, NEW k \in Call, \A h \in Call \ {k} : Untouched(h), Sole(t),
         (t \in Holds(k)' => t \in Holds(k)) \/ (Track /\ t \notin disturbed')
  PROVE  Sole(t)'
<1>1. CASE t \in Holds(k)' => t \in Holds(k)
  <2>1. \A h \in Call : t \in Holds(h)' => t \in Holds(h)
    BY <1>1 DEF Untouched
  <2> QED
    BY <2>1 DEF Sole
<1>2. CASE Track /\ t \notin disturbed'
  BY <1>2 DEF Track, Contested, Sole
<1> QED
  BY <1>1, <1>2

(* What is in the hands of a join that has a match.                        *)
MatchesInHand ==
  \A j \in Ticket : jpc[j] \in Matching /\ pair[j] \in Ticket \X Ticket =>
    Holds(<<"join", j>>) = {pair[j][1], pair[j][2]}

LEMMA InHandWhileMatching == MatchesInHand
<1> SUFFICES ASSUME NEW j \in Ticket, jpc[j] \in Matching, pair[j] \in Ticket \X Ticket
             PROVE  Holds(<<"join", j>>) = {pair[j][1], pair[j][2]}
  BY DEF MatchesInHand
<1>1. Holds(<<"join", j>>) = ToSet(pair[j])
  BY DEF Holds, JoinHolds, Matching
<1> QED
  BY <1>1 DEF ToSet

LEMMA InHandAfter == MatchesInHand'
BY InHandWhileMatching, PTL

(* An entry its own join has yet to set the key of is in that join's hand. *)
LEMMA EarlyEntries ==
  ASSUME TypeOK, Shape, NEW t \in Ticket, NEW k \in Call, t \in Holds(k), Sole(t),
         jpc[t] \in Early
  PROVE  k = <<"join", t>> /\ jpc[t] = "pushed"
<1>1. Pushed(t)
  BY HandsArePushed DEF InHandArePushed, Shape
<1>2. jpc[t] = "pushed"
  BY <1>1 DEF Pushed, Early, Shape, HandShape, TicketShape, Started
<1>3. <<"join", t>> \in Call /\ t \in Holds(<<"join", t>>)
  BY <1>2 DEF Call, Holds, JoinHolds
<1> QED
  BY <1>2, <1>3 DEF Sole

(* The steps of a join.                                                    *)
LEMMA JoinEmptyHanded ==
  ASSUME NEW j \in Ticket
  PROVE  /\ jpc[j] \notin Matching \cup {"pushed"} => Holds(<<"join", j>>) = {}
         /\ jpc[j] = "pushed" => Holds(<<"join", j>>) = {j}
         /\ jpc[j] \notin {"rem2", "save", "del1", "del2"} => Out(<<"join", j>>) = {}
         /\ jpc[j] \notin {"del1", "del2"} => Used(<<"join", j>>) = {}
         /\ jpc[j] \notin {"del1", "del2"} => Linked(<<"join", j>>) = {}
         /\ jpc'[j] \notin Matching \cup {"pushed"} => Holds(<<"join", j>>)' = {}
         /\ jpc'[j] = "pushed" => Holds(<<"join", j>>)' = {j}
         /\ jpc'[j] \notin {"rem2", "save", "del1", "del2"} => Out(<<"join", j>>)' = {}
         /\ jpc'[j] \notin {"del1", "del2"} => Used(<<"join", j>>)' = {}
         /\ jpc'[j] \notin {"del1", "del2"} => Linked(<<"join", j>>)' = {}
BY DEF Holds, JoinHolds, Matching, Out, Used, Linked

(* What is out of the queue, used or linked to a key by a call is in its   *)
(* hand.                                                                   *)
LEMMA OutInHand ==
  ASSUME TypeOK, HandShape, NEW k \in Call
  PROVE  Out(k) \subseteq Holds(k) /\ Used(k) \subseteq Out(k) /\ Linked(k) \subseteq Used(k)
<1>1. ASSUME NEW j \in Ticket, k = <<"join", j>>
      PROVE  Out(k) \subseteq Holds(k) /\ Used(k) \subseteq Out(k) /\ Linked(k) \subseteq Used(k)
  <2>1. CASE jpc[j] \in Matching
    <3>1. Holds(k) = {pair[j][1], pair[j][2]}
      BY <1>1, <2>1, InHandWhileMatching DEF MatchesInHand, HandShape, PairShape
    <3> QED
      BY <1>1, <3>1 DEF Out, Used, Linked
  <2>2. CASE jpc[j] \notin Matching
    BY <1>1, <2>2, JoinEmptyHanded DEF Matching
  <2> QED
    BY <2>1, <2>2
<1>2. ASSUME NEW c \in Cancel, k = <<"cancel", c>>
      PROVE  Out(k) \subseteq Holds(k) /\ Used(k) \subseteq Out(k) /\ Linked(k) \subseteq Used(k)
  BY <1>2 DEF Out, Used, Linked, Holds, CancelHolds, Target, HandShape, CancelShape, CancelFits
<1>3. ASSUME NEW w \in Sweep, k = <<"sweep", w>>
      PROVE  Out(k) \subseteq Holds(k) /\ Used(k) \subseteq Out(k) /\ Linked(k) \subseteq Used(k)
  <2>1. wpc[w] \in {"release", "del"} => Expiring(w) \in wdue[w]
    BY ExpiringIsDue DEF HandShape, SweepShape, SweepFits
  <2> QED
    BY <1>3, <2>1 DEF Out, Used, Linked, Holds, SweepHolds
<1> QED
  BY <1>1, <1>2, <1>3 DEF Call

LEMMA JoinLocksOnce ==
  ASSUME TypeOK, Shape, EscrowInv, Next, NEW j \in Ticket, NEW t \in Ticket \ disturbed',
         \/ \E u \in User, s \in Stake : JoinCheck(j, u, s)
         \/ LockInsert(j) \/ LockRefused(j) \/ Push(j) \/ SetKey(j)
  PROVE  Sole(t)' /\ Once(t)'
<1> DEFINE k == <<"join", j>>
<1>1. k \in Call /\ Acts(k) /\ Sole(t) /\ Once(t)
  BY DisturbedForGood DEF Call, Acts, JoinStep, EscrowInv
<1>2. \A h \in Call \ {k} : Untouched(h)
  BY <1>1, OnlyTheCaller
<1>3. Uses(t)' = Uses(t)
  BY UsesAfter DEF JoinCheck, LockInsert, LockRefused, Push, SetKey, GamesOf, Uses
<1>4. Out(k)' = {} /\ Used(k)' = {} /\ Linked(k) = {}
  <2>1. jpc[j] \in Early /\ jpc'[j] \in Early \cup {"keyed"}
    BY DEF JoinCheck, LockInsert, LockRefused, Push, SetKey, Early, TypeOK
  <2> QED
    BY <2>1, JoinEmptyHanded DEF Early
<1> HIDE DEF k
<1>5. CASE (\E u \in User, s \in Stake : JoinCheck(j, u, s)) \/ LockInsert(j) \/ LockRefused(j)
  <2>1. UNCHANGED redisVars /\ jpc[j] \in Early /\ jpc'[j] \in {"new", "funded", "locked"}
        /\ (jpc'[t] \in Early => jpc[t] \in Early)
    BY <1>5 DEF JoinCheck, LockInsert, LockRefused, Early, TypeOK
  <2>2. Holds(k)' = {}
    BY <2>1, JoinEmptyHanded DEF k, Matching
  <2>3. Queued(t)' <=> Queued(t)
    BY <2>1 DEF Queued, Contains, redisVars
  <2>4. Sole(t)'
    BY <1>1, <1>2, <2>2, SoleAfter
  <2>5. Once(t)'
    BY <1>1, <1>2, <1>3, <1>4, <2>1, <2>2, <2>3, QuietStep DEF redisVars
  <2> QED
    BY <2>4, <2>5
<1>6. CASE Push(j)
  <2>1. /\ jpc[j] = "locked" /\ jpc'[j] = "pushed" /\ UNCHANGED <<userKey, overdue>>
        /\ (t # j => jpc'[t] = jpc[t])
    BY <1>6 DEF Push, TypeOK
  <2>2. Holds(k)' = {j}
    BY <2>1, JoinEmptyHanded DEF k
  <2>3. Queued(t)' <=> Queued(t) \/ t = j
    BY <1>6, QueueAfter
  <2>4. CASE t # j
    <3>1. Sole(t)'
      BY <1>1, <1>2, <2>2, <2>4, SoleAfter
    <3>2. Once(t)'
      BY <1>1, <1>2, <1>3, <1>4, <2>1, <2>2, <2>3, <2>4, QuietStep
    <3> QED
      BY <3>1, <3>2
  <2>5. CASE t = j
    <3>1. ~Pushed(t)
      BY <2>1, <2>5 DEF Pushed
    <3>2. \A h \in Call : t \notin Holds(h)
      BY <3>1, HandsArePushed DEF InHandArePushed, Shape
    <3>3. Sole(t)'
      BY <1>2, <3>2 DEF Sole, Untouched
    <3>4. Uses(t) = 0
      BY <1>1, <2>1, <2>5 DEF Once
    <3>5. \A h \in Call : t \notin Out(h)' /\ (t \in Holds(h)' => t \notin Used(h)')
      <4>1. \A h \in Call : t \notin Out(h)
        BY <3>2, OutInHand DEF Shape
      <4> QED
        BY <1>2, <1>4, <3>2, <4>1 DEF Untouched
    <3>6. Uses(t)' = 0
      BY <1>3, <3>4
    <3>7. Once(t)'
      BY <3>5, <3>6 DEF Once
    <3> QED
      BY <3>3, <3>7
  <2> QED
    BY <2>4, <2>5
<1>7. CASE SetKey(j)
  <2>1. /\ jpc[j] = "pushed" /\ jpc'[j] = "keyed" /\ UNCHANGED <<queue, overdue>>
        /\ (t # j => jpc'[t] = jpc[t])
        /\ \A u \in User : userKey'[u] = t => userKey[u] = t \/ t = j
    BY <1>7 DEF SetKey, TypeOK
  <2>2. Holds(k) = {j} /\ Holds(k)' = {}
    BY <2>1, JoinEmptyHanded DEF k, Matching
  <2>3. Queued(t)' <=> Queued(t)
    BY <2>1 DEF Queued, Contains
  <2>4. Sole(t)'
    BY <1>1, <1>2, <2>2, SoleAfter
  <2>5. CASE t # j
    <3>1. Once(t)'
      BY <1>1, <1>2, <1>3, <1>4, <2>1, <2>2, <2>3, <2>5, QuietStep
    <3> QED
      BY <2>4, <3>1
  <2>6. CASE t = j
    <3>1. Uses(t) = 0
      BY <1>1, <2>1, <2>6 DEF Once
    <3>2. \A h \in Call \ {k} : t \notin Holds(h) /\ t \notin Out(h)
      <4>1. \A h \in Call \ {k} : t \notin Holds(h)
        BY <1>1, <2>2, <2>6 DEF Sole
      <4> QED
        BY <4>1, OutInHand DEF Shape
    <3>3. \A h \in Call : t \notin Holds(h)' /\ t \notin Out(h)'
      BY <1>2, <1>4, <2>2, <3>2 DEF Untouched
    <3>4. Uses(t)' = 0
      BY <1>3, <3>1
    <3>5. Once(t)'
      BY <3>3, <3>4 DEF Once
    <3> QED
      BY <2>4, <3>5
  <2> QED
    BY <2>5, <2>6
<1> QED
  BY <1>5, <1>6, <1>7

LEMMA JoinMatchesOnce ==
  ASSUME TypeOK, Shape, EscrowInv, Next, NEW j \in Ticket, NEW t \in Ticket \ disturbed',
         Range01(j) \/ Rem1(j) \/ Rem2(j)
  PROVE  Sole(t)' /\ Once(t)'
<1> DEFINE k == <<"join", j>>
           p == pair[j]
<1>1. k \in Call /\ Acts(k) /\ Sole(t) /\ Once(t)
  BY DisturbedForGood DEF Call, Acts, JoinStep, EscrowInv
<1>2. \A h \in Call \ {k} : Untouched(h)
  BY <1>1, OnlyTheCaller
<1>3. Uses(t)' = Uses(t)
  BY UsesAfter DEF Range01, Rem1, Rem2, Rem, GamesOf, Uses
<1>4. /\ Used(k)' = {} /\ Linked(k) = {}
      /\ UNCHANGED userKey /\ (jpc'[t] \in Early => jpc[t] \in Early)
  <2>1. /\ jpc[j] \in {"keyed", "rem1", "rem2"}
        /\ jpc'[j] \in {"done", "rem1", "rem2", "save"}
        /\ UNCHANGED userKey /\ (t # j => jpc'[t] = jpc[t])
    BY DEF Range01, Rem1, Rem2, Rem, TypeOK, redisVars
  <2> QED
    BY <2>1, JoinEmptyHanded DEF Early
<1> HIDE DEF k
<1>5. CASE Range01(j)
  <2>1. /\ jpc[j] = "keyed" /\ jpc'[j] \in {"done", "rem1"}
        /\ UNCHANGED queue /\ Track
    BY <1>5 DEF Range01, TypeOK, redisVars
  <2>2. Out(k)' = {}
    BY <2>1, JoinEmptyHanded DEF k
  <2>3. Queued(t)' <=> Queued(t)
    BY <2>1 DEF Queued, Contains
  <2>4. ASSUME t \in Holds(k)'
        PROVE  Uses(t) = 0
    <3>1. jpc'[j] = "rem1"
      BY <2>1, <2>4, JoinEmptyHanded DEF k, Matching
    <3>2. /\ Len(queue[stake[j]]) >= 2 /\ pair'[j] = SubSeq(queue[stake[j]], 1, 2)
          /\ stake[j] \in Stake
      BY <2>1, <3>1, PairsFromTheQueue DEF Matching, Shape, HandShape, TicketShape
    <3> DEFINE q == queue[stake[j]]
    <3>3. q \in Seq(Ticket) /\ Len(q) \in Nat
      BY <3>2 DEF TypeOK
    <3>4. pair'[j] = <<q[1], q[2]>> /\ q[1] \in Ticket /\ q[2] \in Ticket
      BY <3>2, <3>3, PairIsPair
    <3>5. t \in {q[1], q[2]}
      <4>1. Holds(k)' = {pair'[j][1], pair'[j][2]}
        BY <3>1, <3>4, InHandAfter DEF MatchesInHand, k, Matching
      <4> QED
        BY <2>4, <3>4, <4>1
    <3>6. 1 \in 1 .. Len(q) /\ 2 \in 1 .. Len(q)
      BY <3>2, <3>3
    <3>7. Queued(t)
      BY <3>2, <3>5, <3>6 DEF Queued, Contains
    <3> QED
      BY <1>1, <3>7 DEF Once
  <2>5. Sole(t)'
    BY <1>1, <1>2, <2>1, SoleAfter
  <2>6. Once(t)'
    BY <1>1, <1>2, <1>3, <1>4, <2>2, <2>3, <2>4, QuietStep
  <2> QED
    BY <2>5, <2>6
<1>6. CASE Rem1(j)
  <2>1. /\ jpc[j] = "rem1" /\ jpc'[j] = "rem2" /\ pair'[j] = p /\ p \in Ticket \X Ticket
    BY <1>6 DEF Rem1, Rem, TypeOK, Shape, HandShape, PairShape, Matching
  <2>2. Holds(k) = {p[1], p[2]} /\ Holds(k)' = {p[1], p[2]}
    BY <2>1, InHandWhileMatching, InHandAfter DEF MatchesInHand, k, Matching
  <2>3. Used(k) = {} /\ Out(k)' = {p[1]}
    BY <2>1 DEF k, Used, Out
  <2>4. Queued(t)' <=> Queued(t) /\ t # p[1]
    BY <1>6, QueueAfter
  <2>5. Sole(t)'
    BY <1>1, <1>2, <2>2, SoleAfter
  <2>6. t \in Holds(k) => Uses(t) # 1
    BY <1>1, <2>3 DEF Once
  <2>7. Once(t)'
    BY <1>1, <1>2, <1>3, <1>4, <2>2, <2>3, <2>4, <2>6, QuietStep
  <2> QED
    BY <2>5, <2>7
<1>7. CASE Rem2(j)
  <2>1. /\ jpc[j] = "rem2" /\ jpc'[j] = "save" /\ pair'[j] = p /\ p \in Ticket \X Ticket
    BY <1>7 DEF Rem2, Rem, TypeOK, Shape, HandShape, PairShape, Matching
  <2>2. Holds(k) = {p[1], p[2]} /\ Holds(k)' = {p[1], p[2]}
    BY <2>1, InHandWhileMatching, InHandAfter DEF MatchesInHand, k, Matching
  <2>3. Used(k) = {} /\ Out(k) = {p[1]} /\ Out(k)' = {p[1], p[2]}
    BY <2>1 DEF k, Used, Out
  <2>4. Queued(t)' <=> Queued(t) /\ t # p[2]
    BY <1>7, QueueAfter
  <2>5. Sole(t)'
    BY <1>1, <1>2, <2>2, SoleAfter
  <2>6. (t \in Holds(k) => Uses(t) # 1) /\ (t = p[1] => ~Queued(t))
    BY <1>1, <2>3 DEF Once
  <2>7. Once(t)'
    BY <1>1, <1>2, <1>3, <1>4, <2>2, <2>3, <2>4, <2>6, QuietStep
  <2> QED
    BY <2>5, <2>7
<1> QED
  BY <1>5, <1>6, <1>7

LEMMA JoinSavesOnce ==
  ASSUME TypeOK, Shape, EscrowInv, Next, NEW j \in Ticket, NEW t \in Ticket \ disturbed',
         SaveGame(j)
  PROVE  Sole(t)' /\ Once(t)'
<1> DEFINE k == <<"join", j>>
           p == pair[j]
<1>1. k \in Call /\ Acts(k) /\ Sole(t) /\ Once(t)
  BY DisturbedForGood DEF Call, Acts, JoinStep, EscrowInv
<1>2. \A h \in Call \ {k} : Untouched(h)
  BY <1>1, OnlyTheCaller
<1> HIDE DEF k
<1>3. /\ jpc[j] = "save" /\ jpc'[j] = "del1" /\ pair'[j] = p /\ p \in Ticket \X Ticket
      /\ UNCHANGED redisVars /\ (t # j => jpc'[t] = jpc[t])
  BY DEF SaveGame, TypeOK, Shape, HandShape, PairShape, Matching
<1>4. Holds(k) = {p[1], p[2]} /\ Holds(k)' = {p[1], p[2]}
  BY <1>3, InHandWhileMatching, InHandAfter DEF MatchesInHand, k, Matching
<1>5. /\ Out(k) = {p[1], p[2]} /\ Used(k) = {} /\ Linked(k) = {}
      /\ Out(k)' = {p[1], p[2]} /\ Used(k)' = {p[1], p[2]} /\ Linked(k)' = {p[1], p[2]}
  BY <1>3 DEF k, Out, Used, Linked
<1>6. Queued(t)' <=> Queued(t)
  BY <1>3 DEF Queued, Contains, redisVars
<1>7. Sole(t)'
  BY <1>1, <1>2, <1>4, SoleAfter
<1>8. Uses(t) \in Nat /\ Uses(t)' = IF t \in {p[1], p[2]} THEN Uses(t) + 1 ELSE Uses(t)
  BY UsesAfter
<1>9. CASE t \in {p[1], p[2]}
  <2>1. Uses(t) = 0 /\ ~Queued(t)
    BY <1>1, <1>4, <1>5, <1>9 DEF Once
  <2>2. jpc'[t] \notin Early
    <3>1. CASE t = j
      BY <1>3, <3>1 DEF Early
    <3>2. CASE t # j
      BY <1>1, <1>3, <1>4, <1>9, <3>2, EarlyEntries DEF k
    <3> QED
      BY <3>1, <3>2
  <2>3. Uses(t)' = 1 /\ t \in Holds(k)' /\ t \in Used(k)' /\ t \in Linked(k)'
    BY <1>4, <1>5, <1>8, <1>9, <2>1
  <2>4. Once(t)'
    BY <1>1, <1>6, <1>7, <2>1, <2>2, <2>3, UseStep
  <2> QED
    BY <1>7, <2>4
<1>10. CASE t \notin {p[1], p[2]}
  <2>1. Uses(t)' = Uses(t)
    BY <1>8, <1>10
  <2>2. jpc'[t] \in Early => jpc[t] \in Early
    BY <1>3 DEF Early
  <2>3. Once(t)'
    BY <1>1, <1>2, <1>3, <1>4, <1>5, <1>6, <1>10, <2>1, <2>2, QuietStep DEF redisVars
  <2> QED
    BY <1>7, <2>3
<1> QED
  BY <1>9, <1>10

LEMMA JoinEndsOnce ==
  ASSUME TypeOK, Shape, EscrowInv, Next, NEW j \in Ticket, NEW t \in Ticket \ disturbed',
         Del1(j) \/ Del2(j) \/ JoinFail(j)
  PROVE  Sole(t)' /\ Once(t)'
<1> DEFINE k == <<"join", j>>
           p == pair[j]
<1>1. k \in Call /\ Acts(k) /\ Sole(t) /\ Once(t)
  BY DisturbedForGood DEF Call, Acts, JoinStep, EscrowInv
<1>2. \A h \in Call \ {k} : Untouched(h)
  BY <1>1, OnlyTheCaller
<1>3. Uses(t)' = Uses(t)
  BY UsesAfter DEF Del1, Del2, JoinFail, GamesOf, Uses
<1>4. /\ Queued(t)' <=> Queued(t)
      /\ \A u \in User : userKey'[u] = t => userKey[u] = t
      /\ jpc'[t] \in Early => jpc[t] \in Early
  <2>1. UNCHANGED queue
    BY DEF Del1, Del2, JoinFail, DelKey, redisVars
  <2>2. \A u \in User : userKey'[u] = t => userKey[u] = t
    BY NoneAssumption DEF Del1, Del2, JoinFail, DelKey, redisVars, TypeOK
  <2>3. jpc'[t] \in Early => jpc[t] \in Early
    BY DEF Del1, Del2, JoinFail, Early, TypeOK
  <2> QED
    BY <2>1, <2>2, <2>3 DEF Queued, Contains
<1>5. \A u \in User : userKey[u] = t => who[t] = u
  BY NoneAssumption DEF Shape, KeyShape
<1> HIDE DEF k
<1>6. CASE Del1(j)
  <2>1. /\ jpc[j] = "del1" /\ jpc'[j] = "del2" /\ pair'[j] = p /\ p \in Ticket \X Ticket
        /\ userKey' = [userKey EXCEPT ![who[p[1]]] = None]
    BY <1>6 DEF Del1, DelKey, TypeOK, Shape, HandShape, PairShape, Matching
  <2>2. Holds(k) = {p[1], p[2]} /\ Holds(k)' = {p[1], p[2]}
    BY <2>1, InHandWhileMatching, InHandAfter DEF MatchesInHand, k, Matching
  <2>3. /\ Used(k) = {p[1], p[2]} /\ Linked(k) = {p[1], p[2]} /\ Out(k) = {p[1], p[2]}
        /\ Used(k)' = {p[1], p[2]} /\ Linked(k)' = {p[2]} /\ Out(k)' = {p[1], p[2]}
    BY <2>1 DEF k, Used, Linked, Out
  <2>4. t = p[1] => \A u \in User : userKey'[u] # t
    BY <1>4, <1>5, <2>1, NoneAssumption DEF TypeOK
  <2>5. Sole(t)'
    BY <1>1, <1>2, <2>2, SoleAfter
  <2>6. t \in Holds(k) => Uses(t) = 1 /\ ~Queued(t)
    BY <1>1, <2>2, <2>3 DEF Once
  <2>7. Once(t)'
    BY <1>1, <1>2, <1>3, <1>4, <2>2, <2>3, <2>4, <2>6, QuietStep
  <2> QED
    BY <2>5, <2>7
<1>7. CASE Del2(j)
  <2>1. /\ jpc[j] = "del2" /\ jpc'[j] = "done"
        /\ userKey' = [userKey EXCEPT ![who[p[2]]] = None]
    BY <1>7 DEF Del2, DelKey, TypeOK
  <2>2. Holds(k)' = {} /\ Out(k)' = {} /\ Linked(k) = {p[2]}
    BY <2>1, JoinEmptyHanded DEF k, Matching, Linked
  <2>3. t = p[2] => \A u \in User : userKey'[u] # t
    BY <1>4, <1>5, <2>1, NoneAssumption DEF TypeOK
  <2>4. Sole(t)'
    BY <1>1, <1>2, <2>2, SoleAfter
  <2>5. Once(t)'
    BY <1>1, <1>2, <1>3, <1>4, <2>2, <2>3, QuietStep
  <2> QED
    BY <2>4, <2>5
<1>8. CASE JoinFail(j)
  <2>1. jpc'[j] = "failed" /\ t \notin Holds(k)
    BY <1>8 DEF JoinFail, k, Holds, TypeOK
  <2>2. Holds(k)' = {} /\ Out(k)' = {}
    BY <2>1, JoinEmptyHanded DEF k, Matching
  <2>3. t \notin Linked(k)
    BY <1>1, <2>1, OutInHand DEF Shape
  <2>4. Sole(t)'
    BY <1>1, <1>2, <2>2, SoleAfter
  <2>5. Once(t)'
    BY <1>1, <1>2, <1>3, <1>4, <2>2, <2>3, QuietStep
  <2> QED
    BY <2>4, <2>5
<1> QED
  BY <1>6, <1>7, <1>8

(* The steps of a cancel.                                                  *)
LEMMA CancelTakesOnce ==
  ASSUME TypeOK, Shape, EscrowInv, Next, NEW c \in Cancel, NEW t \in Ticket \ disturbed',
         (\E u \in User : CancelGet(c, u)) \/ CancelRange(c) \/ CancelRem(c)
  PROVE  Sole(t)' /\ Once(t)'
<1> DEFINE k == <<"cancel", c>>
<1>1. k \in Call /\ Acts(k) /\ Sole(t) /\ Once(t)
  BY DisturbedForGood DEF Call, Acts, CancelStep, EscrowInv
<1>2. \A h \in Call \ {k} : Untouched(h)
  BY <1>1, OnlyTheCaller
<1>3. Uses(t)' = Uses(t)
  <2>1. UNCHANGED <<joinVars, refunds>>
    BY DEF CancelGet, CancelRange, CancelRem
  <2> QED
    BY <2>1 DEF joinVars, Uses, GamesOf, ToSet
<1>4. /\ jpc'[t] = jpc[t] /\ UNCHANGED userKey
      /\ Used(k) = {} /\ Linked(k) = {} /\ Used(k)' = {}
  BY DEF CancelGet, CancelRange, CancelRem, joinVars, redisVars, TypeOK, Used, Linked
<1> HIDE DEF k
<1>5. \A e \in Holds(k) : e = t => Uses(t) # 1
  BY <1>1, <1>4 DEF Once
<1>6. ASSUME NEW u \in User, CancelGet(c, u)
      PROVE  Sole(t)' /\ Once(t)'
  <2>1. /\ cpc[c] = "idle" /\ cpc'[c] = "got" /\ cent'[c] = userKey[u] /\ chit'[c] = chit[c]
        /\ UNCHANGED queue /\ Track
    BY <1>6 DEF CancelGet, TypeOK, redisVars
  <2>2. Holds(k) = {} /\ Holds(k)' = {userKey[u]} /\ Out(k)' = {}
    <3>1. chit[c] = None /\ userKey[u] # None
      BY <1>6 DEF CancelGet, Shape, HandShape, CancelShape, CancelFits
    <3> QED
      BY <2>1, <3>1 DEF k, Holds, CancelHolds, Out
  <2>3. Sole(t)'
    BY <1>1, <1>2, <2>1, SoleAfter
  <2>4. t \in Holds(k)' => Uses(t) # 1
    <3> SUFFICES ASSUME userKey[u] = t, Uses(t) = 1
                 PROVE  FALSE
      BY <2>2
    <3>1. PICK h \in Call : t \in Linked(h)
      BY <1>1 DEF Once
    <3>2. h # k /\ t \in Holds(h)
      BY <1>4, <3>1, OutInHand DEF Shape
    <3>3. t \in Holds(h)' /\ t \in Holds(k)'
      BY <1>2, <2>2, <3>2 DEF Untouched
    <3> QED
      BY <1>1, <2>3, <3>2, <3>3 DEF Sole
  <2>5. Queued(t)' <=> Queued(t)
    BY <2>1 DEF Queued, Contains
  <2>6. Once(t)'
    BY <1>1, <1>2, <1>3, <1>4, <2>2, <2>4, <2>5, QuietStep
  <2> QED
    BY <2>3, <2>6
<1>7. CASE CancelRange(c)
  <2> DEFINE entries == queue[stake[cent[c]]]
             first == SelectInSeq(entries, LAMBDA e : who[e] = who[cent[c]])
  <2>1. /\ cpc[c] = "got" /\ cent[c] \in Ticket /\ Pushed(cent[c]) /\ chit[c] = None
        /\ cent' = cent /\ UNCHANGED queue /\ Track
    BY <1>7 DEF CancelRange, TypeOK, Shape, HandShape, CancelShape, CancelFits, redisVars
  <2>2. stake[cent[c]] \in Stake
    BY <2>1 DEF Pushed, Shape, HandShape, TicketShape, Started
  <2>3. entries \in Seq(Ticket) /\ Len(entries) \in Nat
    BY <2>2 DEF TypeOK
  <2>4. /\ first \in 0 .. Len(entries)
        /\ first # 0 => who[entries[first]] = who[cent[c]]
        /\ first = 0 => \A n \in 1 .. Len(entries) : who[entries[n]] # who[cent[c]]
    BY <2>3, FirstOfOwner
  <2>5. Sole(t)'
    BY <1>1, <1>2, <2>1, SoleAfter
  <2>6. Queued(t)' <=> Queued(t)
    BY <2>1 DEF Queued, Contains
  <2>7. Holds(k) = {cent[c]}
    BY <2>1, NoneAssumption DEF k, Holds, CancelHolds
  <2>8. CASE first = 0
    <3>1. cpc'[c] = "release" /\ chit' = chit
      BY <1>7, <2>8 DEF CancelRange, TypeOK
    <3>2. Holds(k)' = {cent[c]} /\ Out(k)' = {cent[c]}
      BY <2>1, <3>1, NoneAssumption DEF k, Holds, CancelHolds, Out, Target
    <3>3. ~Queued(cent[c])
      BY <2>1, <2>4, <2>8 DEF Queued, Contains, Shape, QueueShape
    <3>4. Once(t)'
      BY <1>1, <1>2, <1>3, <1>4, <1>5, <2>6, <2>7, <3>2, <3>3, QuietStep
    <3> QED
      BY <2>5, <3>4
  <2>9. CASE first # 0
    <3> DEFINE e == entries[first]
    <3>1. cpc'[c] = "remove" /\ chit'[c] = e
      BY <1>7, <2>1, <2>9 DEF CancelRange, TypeOK
    <3>2. first \in 1 .. Len(entries)
      <4> HIDE DEF entries, first
      <4> QED
        BY <2>3, <2>4, <2>9
    <3>3. e \in Ticket /\ Queued(e)
      <4>1. e \in Ticket
        <5> HIDE DEF entries, first
        <5> QED
          BY <2>3, <3>2
      <4>2. \E n \in 1 .. Len(entries) : entries[n] = e
        BY <3>2
      <4> HIDE DEF first, e
      <4>3. Queued(e)
        BY <2>2, <4>2 DEF Queued, Contains
      <4> QED
        BY <4>1, <4>3 DEF e
    <3> HIDE DEF e, first, entries
    <3>4. Holds(k)' = {cent[c], e} /\ Out(k)' = {}
      <4>1. chit'[c] = e /\ cent'[c] = cent[c] /\ e # None /\ cent[c] # None
        BY <2>1, <3>1, <3>3, NoneAssumption DEF e
      <4> QED
        BY <3>1, <4>1 DEF k, Holds, CancelHolds, Out
    <3>5. t = e => Uses(t) # 1
      BY <1>1, <3>3 DEF Once
    <3>6. Once(t)'
      BY <1>1, <1>2, <1>3, <1>4, <1>5, <2>6, <2>7, <3>4, <3>5, QuietStep
    <3> QED
      BY <2>5, <3>6
  <2> QED
    BY <2>8, <2>9
<1>8. CASE CancelRem(c)
  <2>1. /\ cpc[c] = "remove" /\ cpc'[c] = "release" /\ cent' = cent /\ chit' = chit
        /\ chit[c] # None
    BY <1>8 DEF CancelRem, TypeOK, Shape, HandShape, CancelShape, CancelFits
  <2>2. Holds(k)' = Holds(k) /\ Out(k)' = {chit[c]}
    BY <2>1 DEF k, Holds, CancelHolds, Out, Target
  <2>3. Queued(t)' <=> Queued(t) /\ t # chit[c]
    BY <1>8, QueueAfter
  <2>4. Sole(t)'
    BY <1>1, <1>2, <2>2, SoleAfter
  <2>5. Once(t)'
    BY <1>1, <1>2, <1>3, <1>4, <1>5, <2>2, <2>3, QuietStep
  <2> QED
    BY <2>4, <2>5
<1> QED
  BY <1>6, <1>7, <1>8

LEMMA CancelEndsOnce ==
  ASSUME TypeOK, Shape, EscrowInv, Next, NEW c \in Cancel, NEW t \in Ticket \ disturbed',
         CancelRelease(c) \/ CancelDel(c) \/ CancelFail(c)
  PROVE  Sole(t)' /\ Once(t)'
<1> DEFINE k == <<"cancel", c>>
<1>1. k \in Call /\ Acts(k) /\ Sole(t) /\ Once(t)
  BY DisturbedForGood DEF Call, Acts, CancelStep, EscrowInv
<1>2. \A h \in Call \ {k} : Untouched(h)
  BY <1>1, OnlyTheCaller
<1> HIDE DEF k
<1>3. jpc'[t] = jpc[t] /\ (Queued(t)' <=> Queued(t))
  BY DEF CancelRelease, CancelDel, CancelFail, DelKey, joinVars, redisVars, Queued, Contains
<1>4. \A u \in User : userKey[u] = t => who[t] = u
  BY NoneAssumption DEF Shape, KeyShape
<1>5. CASE CancelRelease(c)
  <2>1. /\ cpc[c] = "release" /\ cpc'[c] = "del" /\ cent' = cent /\ chit' = chit
        /\ UNCHANGED redisVars
    BY <1>5 DEF CancelRelease, TypeOK
  <2>2. /\ Holds(k)' = Holds(k) /\ Target(c) \in Holds(k)
        /\ Out(k) = {Target(c)} /\ Used(k) = {} /\ Linked(k) = {}
        /\ Out(k)' = {Target(c)} /\ Used(k)' = {Target(c)} /\ Linked(k)' = {Target(c)}
    <3>1. cent[c] # None
      BY <2>1 DEF Shape, HandShape, CancelShape, CancelFits
    <3> QED
      BY <2>1, <3>1 DEF k, Holds, CancelHolds, Out, Used, Linked, Target
  <2>3. Uses(t)' = IF t = Target(c) THEN Uses(t) + 1 ELSE Uses(t)
    BY <1>5, UsesAfter
  <2>4. Sole(t)'
    BY <1>1, <1>2, <2>2, SoleAfter
  <2>5. CASE t = Target(c)
    <3>1. Uses(t) = 0 /\ ~Queued(t)
      BY <1>1, <2>2, <2>5 DEF Once
    <3>2. jpc'[t] \notin Early
      BY <1>1, <1>3, <2>2, <2>5, EarlyEntries DEF k
    <3>3. Once(t)'
      BY <1>1, <1>3, <2>2, <2>3, <2>4, <2>5, <3>1, <3>2, UseStep
    <3> QED
      BY <2>4, <3>3
  <2>6. CASE t # Target(c)
    <3>1. Uses(t)' = Uses(t) /\ (t \in Holds(k) => Uses(t) # 1)
      BY <1>1, <2>2, <2>3, <2>6 DEF Once
    <3>2. Once(t)'
      BY <1>1, <1>2, <1>3, <2>1, <2>2, <2>6, <3>1, QuietStep DEF redisVars
    <3> QED
      BY <2>4, <3>2
  <2> QED
    BY <2>5, <2>6
<1>6. CASE CancelDel(c)
  <2>1. /\ cpc[c] = "del" /\ cpc'[c] = "idle" /\ cent'[c] = None /\ chit'[c] = None
        /\ userKey' = [userKey EXCEPT ![who[cent[c]]] = None]
    BY <1>6 DEF CancelDel, DelKey, EndCancel, TypeOK
  <2>2. Holds(k)' = {} /\ Out(k)' = {} /\ Linked(k) = {Target(c)}
    BY <2>1 DEF k, Holds, CancelHolds, Out, Linked, Used
  <2>3. who[Target(c)] = who[cent[c]]
    BY DEF Target, Shape, HandShape, CancelShape, CancelFits
  <2>4. /\ \A u \in User : userKey'[u] = t => userKey[u] = t
        /\ t = Target(c) => \A u \in User : userKey'[u] # t
    BY <1>4, <2>1, <2>3, NoneAssumption DEF TypeOK
  <2>5. Uses(t)' = Uses(t)
    BY <1>6 DEF CancelDel, joinVars, Uses, GamesOf, ToSet
  <2>6. Sole(t)'
    BY <1>1, <1>2, <2>2, SoleAfter
  <2>7. Once(t)'
    BY <1>1, <1>2, <1>3, <2>2, <2>4, <2>5, QuietStep
  <2> QED
    BY <2>6, <2>7
<1>7. CASE CancelFail(c)
  <2>1. /\ cpc'[c] = "idle" /\ cent'[c] = None /\ chit'[c] = None /\ UNCHANGED redisVars
        /\ t \notin Holds(k)
    BY <1>7 DEF CancelFail, EndCancel, TypeOK, k, Holds
  <2>2. Holds(k)' = {} /\ Out(k)' = {} /\ t \notin Linked(k)
    <3>1. Holds(k)' = {} /\ Out(k)' = {}
      BY <2>1 DEF k, Holds, CancelHolds, Out
    <3> QED
      BY <1>1, <2>1, <3>1, OutInHand DEF Shape
  <2>3. Uses(t)' = Uses(t)
    BY <1>7 DEF CancelFail, joinVars, Uses, GamesOf, ToSet
  <2>4. Sole(t)'
    BY <1>1, <1>2, <2>2, SoleAfter
  <2>5. Once(t)'
    BY <1>1, <1>2, <1>3, <2>1, <2>2, <2>3, QuietStep DEF redisVars
  <2> QED
    BY <2>4, <2>5
<1> QED
  BY <1>5, <1>6, <1>7

(* The steps of the timeout checker.                                       *)
LEMMA SweepTakesOnce ==
  ASSUME TypeOK, Shape, EscrowInv, Next, NEW w \in Sweep, NEW t \in Ticket \ disturbed',
         SweepTick(w) \/ SweepRange(w) \/ SweepRem(w)
  PROVE  Sole(t)' /\ Once(t)'
<1> DEFINE k == <<"sweep", w>>
<1>1. k \in Call /\ Acts(k) /\ Sole(t) /\ Once(t)
  BY DisturbedForGood DEF Call, Acts, SweepStep, EscrowInv
<1>2. \A h \in Call \ {k} : Untouched(h)
  BY <1>1, OnlyTheCaller
<1>3. Uses(t)' = Uses(t)
  <2>1. UNCHANGED <<joinVars, refunds>>
    BY DEF SweepTick, SweepRange, SweepRem
  <2> QED
    BY <2>1 DEF joinVars, Uses, GamesOf, ToSet
<1>4. /\ jpc'[t] = jpc[t] /\ UNCHANGED userKey
      /\ Used(k) = {} /\ Linked(k) = {} /\ Used(k)' = {}
  BY DEF SweepTick, SweepRange, SweepRem, SweepTo, joinVars, redisVars, TypeOK, Used, Linked
<1> HIDE DEF k
<1>5. t \in Holds(k) => Uses(t) # 1
  BY <1>1, <1>4 DEF Once
<1>6. CASE SweepTick(w)
  <2>1. wpc'[w] = "range" /\ wdue' = wdue /\ UNCHANGED queue
    BY <1>6 DEF SweepTick, TypeOK, redisVars
  <2>2. Holds(k)' = Holds(k) /\ Out(k)' = {}
    BY <2>1 DEF k, Holds, SweepHolds, Out
  <2>3. Queued(t)' <=> Queued(t)
    BY <2>1 DEF Queued, Contains
  <2>4. Sole(t)'
    BY <1>1, <1>2, <2>2, SoleAfter
  <2>5. Once(t)'
    BY <1>1, <1>2, <1>3, <1>4, <1>5, <2>2, <2>3, QuietStep
  <2> QED
    BY <2>4, <2>5
<1>7. CASE SweepRange(w)
  <2> DEFINE s == CHOOSE x \in wleft[w] : \A y \in wleft[w] : x <= y
             entries == IF s \in Stake THEN queue[s] ELSE <<>>
             due == ToSet(entries) \cap overdue
  <2>1. SweepTo(w, entries, due, wleft[w] \ {s}) /\ UNCHANGED queue /\ Track
    BY <1>7 DEF SweepRange, redisVars
  <2>2. \A e \in due : Queued(e)
    BY DEF ToSet, Queued, Contains
  <2> HIDE DEF due, entries, s
  <2>3. wdue'[w] = due /\ wpc'[w] \in {"remove", "range", "idle"}
    BY <2>1 DEF SweepTo, TypeOK
  <2>4. Holds(k)' = due /\ Out(k)' = {}
    BY <2>3 DEF k, Holds, SweepHolds, Out
  <2>5. Queued(t)' <=> Queued(t)
    BY <2>1 DEF Queued, Contains
  <2>6. Sole(t)'
    BY <1>1, <1>2, <2>1, SoleAfter
  <2>7. t \in due => Uses(t) # 1
    BY <1>1, <2>2 DEF Once
  <2>8. Once(t)'
    BY <1>1, <1>2, <1>3, <1>4, <2>4, <2>5, <2>7, QuietStep
  <2> QED
    BY <2>6, <2>8
<1>8. CASE SweepRem(w)
  <2>1. wpc'[w] = "release" /\ wdue' = wdue /\ wlist' = wlist
    BY <1>8 DEF SweepRem, TypeOK
  <2>2. Expiring(w)' = Expiring(w)
    BY <2>1, ExpiringStays
  <2>3. Holds(k)' = Holds(k) /\ Out(k)' = {Expiring(w)}
    BY <2>1, <2>2 DEF k, Holds, SweepHolds, Out
  <2>4. Queued(t)' <=> Queued(t) /\ t # Expiring(w)
    BY <1>8, QueueAfter
  <2>5. Sole(t)'
    BY <1>1, <1>2, <2>3, SoleAfter
  <2>6. Once(t)'
    BY <1>1, <1>2, <1>3, <1>4, <1>5, <2>3, <2>4, QuietStep
  <2> QED
    BY <2>5, <2>6
<1> QED
  BY <1>6, <1>7, <1>8

LEMMA SweepEndsOnce ==
  ASSUME TypeOK, Shape, EscrowInv, Next, NEW w \in Sweep, NEW t \in Ticket \ disturbed',
         SweepRelease(w) \/ SweepDel(w)
  PROVE  Sole(t)' /\ Once(t)'
<1> DEFINE k == <<"sweep", w>>
           e == Expiring(w)
<1>1. k \in Call /\ Acts(k) /\ Sole(t) /\ Once(t)
  BY DisturbedForGood DEF Call, Acts, SweepStep, EscrowInv
<1>2. \A h \in Call \ {k} : Untouched(h)
  BY <1>1, OnlyTheCaller
<1>3. jpc'[t] = jpc[t] /\ (Queued(t)' <=> Queued(t))
  BY DEF SweepRelease, SweepDel, DelKey, joinVars, redisVars, Queued, Contains
<1>4. e \in wdue[w] /\ e \in Ticket
  BY ExpiringIsDue DEF SweepRelease, SweepDel, Shape, HandShape, SweepShape, SweepFits
<1> HIDE DEF k, e
<1>5. CASE SweepRelease(w)
  <2>1. /\ wpc[w] = "release" /\ wpc'[w] = "del" /\ wdue' = wdue /\ wlist' = wlist
        /\ UNCHANGED redisVars
    BY <1>5 DEF SweepRelease, TypeOK
  <2>2. Expiring(w)' = e
    BY <2>1, ExpiringStays DEF e
  <2>3. /\ Holds(k)' = Holds(k) /\ e \in Holds(k)
        /\ Out(k) = {e} /\ Used(k) = {} /\ Linked(k) = {}
        /\ Out(k)' = {e} /\ Used(k)' = {e} /\ Linked(k)' = {e}
    <3>1. Holds(k)' = Holds(k) /\ e \in Holds(k)
      BY <1>4, <2>1 DEF k, Holds, SweepHolds
    <3>2. Out(k) = {e} /\ Used(k) = {} /\ Linked(k) = {}
      BY <2>1 DEF k, e, Out, Used, Linked
    <3>3. Out(k)' = {e} /\ Used(k)' = {e} /\ Linked(k)' = {e}
      BY <2>1, <2>2 DEF k, Out, Used, Linked
    <3> QED
      BY <3>1, <3>2, <3>3
  <2>4. Uses(t)' = IF t = e THEN Uses(t) + 1 ELSE Uses(t)
    BY <1>5, UsesAfter DEF e
  <2>5. Sole(t)'
    BY <1>1, <1>2, <2>3, SoleAfter
  <2>6. CASE t = e
    <3>1. Uses(t) = 0 /\ ~Queued(t)
      BY <1>1, <2>3, <2>6 DEF Once
    <3>2. jpc'[t] \notin Early
      BY <1>1, <1>3, <2>3, <2>6, EarlyEntries DEF k
    <3>3. Once(t)'
      BY <1>1, <1>3, <2>3, <2>4, <2>5, <2>6, <3>1, <3>2, UseStep
    <3> QED
      BY <2>5, <3>3
  <2>7. CASE t # e
    <3>1. Uses(t)' = Uses(t) /\ (t \in Holds(k) => Uses(t) # 1)
      BY <1>1, <2>3, <2>4, <2>7 DEF Once
    <3>2. Once(t)'
      BY <1>1, <1>2, <1>3, <2>1, <2>3, <2>7, <3>1, QuietStep DEF redisVars
    <3> QED
      BY <2>5, <3>2
  <2> QED
    BY <2>6, <2>7
<1>6. CASE SweepDel(w)
  <2>1. /\ wpc[w] = "del" /\ wpc'[w] \in {"remove", "range", "idle"}
        /\ wdue'[w] = wdue[w] \ {e}
        /\ userKey' = [userKey EXCEPT ![who[e]] = None]
    BY <1>6 DEF SweepDel, SweepTo, DelKey, TypeOK, e
  <2>2. /\ Holds(k) = wdue[w] /\ Holds(k)' = wdue[w] \ {e}
        /\ Used(k) = {e} /\ Linked(k) = {e} /\ Out(k)' = {} /\ Used(k)' = {}
    BY <2>1 DEF k, e, Holds, SweepHolds, Used, Linked, Out
  <2>3. \A u \in User : userKey[u] = t => who[t] = u
    BY NoneAssumption DEF Shape, KeyShape
  <2>4. /\ \A u \in User : userKey'[u] = t => userKey[u] = t
        /\ t = e => \A u \in User : userKey'[u] # t
    BY <2>1, <2>3, NoneAssumption DEF TypeOK
  <2>5. Uses(t)' = Uses(t)
    BY <1>6 DEF SweepDel, joinVars, Uses, GamesOf, ToSet
  <2>6. Sole(t)'
    BY <1>1, <1>2, <2>2, SoleAfter
  <2>7. t \in Holds(k)' => Uses(t) # 1
    BY <1>1, <2>2 DEF Once
  <2>8. Once(t)'
    BY <1>1, <1>2, <1>3, <2>2, <2>4, <2>5, <2>7, QuietStep
  <2> QED
    BY <2>6, <2>8
<1> QED
  BY <1>5, <1>6

(* Time passes, or the process ends.                                       *)
LEMMA TimeTakesNothing ==
  ASSUME TypeOK, Shape, EscrowInv, Next, NEW t \in Ticket \ disturbed',
         (\E e \in Ticket : Age(e)) \/ (\E u \in User : Expire(u))
  PROVE  Sole(t)' /\ Once(t)'
<1>1. Sole(t) /\ Once(t)
  BY DisturbedForGood DEF EscrowInv
<1>2. UNCHANGED <<joinVars, cancelVars, sweepVars, queue, refunds>>
  BY DEF Age, Expire, DelKey
<1>3. \A u \in User : userKey'[u] = t => userKey[u] = t
  BY NoneAssumption DEF Age, Expire, DelKey, TypeOK
<1>4. \A h \in Call : Untouched(h)
  BY <1>2, Bystanders DEF Call, joinVars, cancelVars, sweepVars
<1>5. Uses(t)' = Uses(t) /\ (Queued(t)' <=> Queued(t)) /\ jpc'[t] = jpc[t]
  BY <1>2 DEF joinVars, Uses, GamesOf, ToSet, Queued, Contains
<1>6. Sole(t)'
  BY <1>1, <1>4 DEF Sole, Untouched
<1>7. Once(t)'
  BY <1>1, <1>3, <1>4, <1>5 DEF Once, Untouched
<1> QED
  BY <1>6, <1>7

LEMMA CrashTakesNothing ==
  ASSUME TypeOK, Shape, EscrowInv, Next, NEW t \in Ticket \ disturbed', Crash
  PROVE  Sole(t)' /\ Once(t)'
<1>1. Sole(t) /\ Once(t)
  BY DisturbedForGood DEF EscrowInv
<1>2. \A k \in Call : t \notin Holds(k) /\ t \notin Linked(k)
  BY OutInHand DEF Crash, Shape
<1>3. /\ UNCHANGED <<redisVars, game, refunds>>
      /\ jpc'[t] \in Early => jpc[t] \in Early
  BY DEF Crash, Early
<1>4. Uses(t)' = Uses(t) /\ (Queued(t)' <=> Queued(t))
  BY <1>3 DEF redisVars, Uses, GamesOf, ToSet, Queued, Contains
<1>5. \A k \in Call : Holds(k)' = {} /\ Out(k)' = {}
  <2>1. ASSUME NEW j \in Ticket
        PROVE  Holds(<<"join", j>>)' = {} /\ Out(<<"join", j>>)' = {}
    <3>1. jpc'[j] \in {"new", "done", "failed"}
      BY DEF Crash
    <3> QED
      BY <3>1, JoinEmptyHanded DEF Matching
  <2>2. ASSUME NEW c \in Cancel
        PROVE  Holds(<<"cancel", c>>)' = {} /\ Out(<<"cancel", c>>)' = {}
    BY DEF Crash, Holds, CancelHolds, Out
  <2>3. ASSUME NEW w \in Sweep
        PROVE  Holds(<<"sweep", w>>)' = {} /\ Out(<<"sweep", w>>)' = {}
    BY DEF Crash, Holds, SweepHolds, Out
  <2> QED
    BY <2>1, <2>2, <2>3 DEF Call
<1>6. Sole(t)'
  BY <1>5 DEF Sole
<1>7. Once(t)'
  BY <1>1, <1>2, <1>3, <1>4, <1>5 DEF Once, Early, redisVars
<1> QED
  BY <1>6, <1>7

LEMMA EscrowKept ==
  ASSUME TypeOK, Shape, EscrowInv, Next
  PROVE  EscrowInv'
<1> SUFFICES ASSUME NEW t \in Ticket \ disturbed'
             PROVE  Sole(t)' /\ Once(t)'
  BY DEF EscrowInv
<1>1. ASSUME NEW j \in Ticket, JoinStep(j) \/ JoinFail(j)
      PROVE  Sole(t)' /\ Once(t)'
  BY <1>1, JoinLocksOnce, JoinMatchesOnce, JoinSavesOnce, JoinEndsOnce DEF JoinStep
<1>2. ASSUME NEW j \in Ticket, NEW u \in User, NEW s \in Stake, JoinCheck(j, u, s)
      PROVE  Sole(t)' /\ Once(t)'
  BY <1>2, JoinLocksOnce
<1>3. ASSUME NEW c \in Cancel, CancelStep(c) \/ CancelFail(c) \/ \E u \in User : CancelGet(c, u)
      PROVE  Sole(t)' /\ Once(t)'
  BY <1>3, CancelTakesOnce, CancelEndsOnce DEF CancelStep
<1>4. ASSUME NEW w \in Sweep, SweepStep(w)
      PROVE  Sole(t)' /\ Once(t)'
  BY <1>4, SweepTakesOnce, SweepEndsOnce DEF SweepStep
<1> QED
  BY <1>1, <1>2, <1>3, <1>4, TimeTakesNothing, CrashTakesNothing DEF Next

LEMMA InitEscrow == Init => EscrowInv
<1> SUFFICES ASSUME Init, NEW t \in Ticket
             PROVE  Sole(t) /\ Once(t)
  BY DEF EscrowInv
<1>1. \A k \in Call : Holds(k) = {} /\ Out(k) = {}
  BY DEF Init, Call, Holds, JoinHolds, CancelHolds, SweepHolds, Out
<1>2. GamesOf(t) = {} /\ refunds[t] = 0
  BY DEF Init, GamesOf, ToSet
<1>3. Uses(t) = 0
  BY <1>2, FS_EmptySet DEF Uses
<1> QED
  BY <1>1, <1>3 DEF Sole, Once

LEMMA EscrowStutters ==
  ASSUME EscrowInv, UNCHANGED vars
  PROVE  EscrowInv'
<1> USE DEF vars, redisVars, joinVars, cancelVars, sweepVars
<1>1. \A h \in Call : Untouched(h)
  BY Bystanders DEF Call
<1>2. \A t \in Ticket : Uses(t)' = Uses(t) /\ (Queued(t)' <=> Queued(t))
  BY DEF Uses, GamesOf, ToSet, Queued, Contains
<1>3. ASSUME NEW t \in Ticket \ disturbed
      PROVE  Sole(t)' /\ Once(t)'
  BY <1>1, <1>2 DEF EscrowInv, Sole, Once, Untouched
<1> QED
  BY <1>3 DEF EscrowInv

(* EscrowInv: entries stand in one queue at most and only once, and a      *)
(* stake that is not disturbed is in the hands of one handler at most and  *)
(* has been used as often as that handler says.                            *)
THEOREM EscrowHolds == Spec => [](TypeOK /\ Shape /\ EscrowInv)
<1>1. Init => TypeOK /\ Shape /\ EscrowInv
  BY InitTyped, InitShaped, InitEscrow
<1>2. (TypeOK /\ Shape /\ EscrowInv) /\ [Next]_vars => (TypeOK /\ Shape /\ EscrowInv)'
  BY TypesKept, ShapeKept, EscrowKept, StutterKeeps, EscrowStutters
<1> QED
  BY <1>1, <1>2, PTL DEF Spec

(* UndisturbedUsedOnce: a stake that no two calls had in hand at once, and *)
(* whose call did not fail, gets into one game or is refunded once, and    *)
(* not both.                                                               *)
THEOREM UndisturbedStakeUsedOnce == Spec => []UndisturbedUsedOnce
<1>1. EscrowInv => UndisturbedUsedOnce
  BY DEF EscrowInv, Once, UndisturbedUsedOnce
<1> QED
  BY <1>1, EscrowHolds, PTL

-----------------------------------------------------------------------------
(* Matchmaking implements StakeEscrow.                                     *)

(* What can be said of a stake that is not disputed.                       *)
LEMMA FateIs ==
  ASSUME TypeOK, NEW t \in Ticket \ disturbed, Uses(t) \in {0, 1}
  PROVE  /\ Uses(t) = 0 <=> GamesOf(t) = {} /\ refunds[t] = 0
         /\ Uses(t) = 0 => Fate(t) = IF t \in staked THEN "held" ELSE "none"
         /\ Uses(t) = 1 => Fate(t) = IF GamesOf(t) # {} THEN "playing" ELSE "refunded"
<1>1. refunds[t] \in Nat /\ GamesOf(t) \in SUBSET Ticket
  BY DEF TypeOK, GamesOf
<1>2. Uses(t) > 0 <=> GamesOf(t) # {} \/ refunds[t] > 0
  BY <1>1, CountOfUses DEF Uses
<1>3. CASE Uses(t) = 0
  <2>1. GamesOf(t) = {} /\ ~(refunds[t] > 0)
    BY <1>2, <1>3
  <2> QED
    BY <1>1, <1>3, <2>1 DEF Fate
<1>4. CASE Uses(t) = 1
  <2>1. GamesOf(t) # {} \/ refunds[t] > 0
    BY <1>2, <1>4
  <2>2. ~(Uses(t) > 1) /\ Uses(t) # 0
    BY <1>4
  <2>3. Fate(t) = IF GamesOf(t) # {} THEN "playing" ELSE "refunded"
    BY <2>1, <2>2 DEF Fate
  <2> QED
    BY <2>1, <2>2, <2>3
<1> QED
  BY <1>3, <1>4

(* The same after a step.                                                  *)
FatesAreKnown ==
  \A t \in Ticket \ disturbed : Uses(t) \in {0, 1} =>
    /\ Uses(t) = 0 => Fate(t) = IF t \in staked THEN "held" ELSE "none"
    /\ Uses(t) = 1 => Fate(t) = IF GamesOf(t) # {} THEN "playing" ELSE "refunded"

LEMMA FatesKnown == TypeOK => FatesAreKnown
BY FateIs DEF FatesAreKnown

LEMMA FatesKnownAfter == TypeOK' => FatesAreKnown'
BY FatesKnown, PTL

Fates == [t \in Ticket |-> Fate(t)]

LEMMA HoldRefined ==
  ASSUME TypeOK, Shape, EscrowInv, Next, NEW t \in Ticket, LockInsert(t)
  PROVE  Escrow!Hold(t)
<1>1. /\ jpc[t] = "funded" /\ t \notin staked /\ staked' = staked \cup {t}
      /\ disturbed' = disturbed /\ UNCHANGED <<game, refunds>>
  BY DEF LockInsert, Shape, HandShape, TicketShape, Started
<1>2. \A x \in Ticket : GamesOf(x)' = GamesOf(x) /\ Uses(x)' = Uses(x)
  BY <1>1 DEF GamesOf, Uses, ToSet
<1>3. t \notin disturbed
  BY <1>1 DEF Shape, HistoryShape
<1>4. Uses(t) = 0
  BY <1>1, <1>3 DEF EscrowInv, Once
<1>5. Fate(t) = "none"
  BY <1>1, <1>3, <1>4, FatesKnown DEF FatesAreKnown
<1>6. Fate(t)' = "held"
  BY <1>1, <1>2, <1>3, <1>4, TypesKept, FatesKnownAfter DEF FatesAreKnown
<1>7. \A x \in Ticket \ {t} : Fate(x)' = Fate(x)
  BY <1>1, <1>2 DEF Fate
<1>8. Fates' = [Fates EXCEPT ![t] = "held"]
  BY <1>6, <1>7 DEF Fates
<1> QED
  BY <1>5, <1>8 DEF Escrow!Hold, Fates

LEMMA PlayRefined ==
  ASSUME TypeOK, Shape, EscrowInv, Next, NEW j \in Ticket, SaveGame(j)
  PROVE  Escrow!Play(pair[j][1], pair[j][2]) /\ pair[j] \in Ticket \X Ticket
<1> DEFINE p == pair[j]
           k == <<"join", j>>
<1>1. /\ jpc[j] = "save" /\ p \in Ticket \X Ticket /\ p[1] # p[2]
      /\ p[1] \in staked /\ p[2] \in staked
      /\ disturbed' = disturbed /\ UNCHANGED <<refunds, staked>>
  BY DEF SaveGame, Shape, HandShape, PairShape, Matching, Pushed
<1>2. k \in Call /\ Holds(k) = {p[1], p[2]} /\ Used(k) = {}
  BY <1>1, InHandWhileMatching DEF Call, MatchesInHand, Matching, Used
<1>3. ASSUME NEW x \in {p[1], p[2]}, x \notin disturbed
      PROVE  Uses(x) = 0 /\ Fate(x) = "held" /\ Fate(x)' = "playing"
  <2>1. Uses(x) = 0
    BY <1>1, <1>2, <1>3 DEF EscrowInv, Once
  <2>2. Uses(x)' = 1 /\ GamesOf(x)' # {}
    BY <1>1, <1>3, <2>1, UsesAfter, GamesOfATicket
  <2>3. Fate(x) = "held"
    BY <1>1, <1>3, <2>1, FatesKnown DEF FatesAreKnown
  <2>4. Fate(x)' = "playing"
    BY <1>1, <1>3, <2>2, TypesKept, FatesKnownAfter DEF FatesAreKnown
  <2> QED
    BY <2>1, <2>3, <2>4
<1>4. \A x \in Ticket : x \in disturbed => Fate(x) = "disputed" /\ Fate(x)' = "disputed"
  BY <1>1 DEF Fate
<1>5. ASSUME NEW x \in Ticket, x \notin {p[1], p[2]}
      PROVE  Fate(x)' = Fate(x)
  <2>1. GamesOf(x)' = GamesOf(x) /\ Uses(x)' = Uses(x)
    BY <1>5, UsesAfter, GamesOfATicket
  <2> QED
    BY <1>1, <2>1 DEF Fate
<1>6. {Fates[p[1]], Fates[p[2]]} \subseteq {"held", "disputed"}
  BY <1>1, <1>3, <1>4 DEF Fates
<1>7. Fates' = [x \in Ticket |-> IF x \in {p[1], p[2]} /\ Fates[x] = "held"
                                   THEN "playing" ELSE Fates[x]]
  <2>1. ASSUME NEW x \in Ticket
        PROVE  Fate(x)' = IF x \in {p[1], p[2]} /\ Fate(x) = "held"
                            THEN "playing" ELSE Fate(x)
    BY <1>3, <1>4, <1>5
  <2> QED
    BY <2>1 DEF Fates
<1> QED
  BY <1>1, <1>6, <1>7 DEF Escrow!Play, Fates

LEMMA RefundRefined ==
  ASSUME TypeOK, Shape, EscrowInv, Next, NEW t \in Ticket, NEW k \in Call,
         t \in Holds(k), t \notin Used(k), Uses(t)' = Uses(t) + 1,
         disturbed' = disturbed, UNCHANGED <<game, staked>>, refunds'[t] = refunds[t] + 1,
         \A x \in Ticket \ {t} : refunds'[x] = refunds[x]
  PROVE  Escrow!Refund(t) \/ Fates' = Fates
<1>1. \A x \in Ticket : GamesOf(x)' = GamesOf(x)
  BY DEF GamesOf, ToSet
<1>2. \A x \in Ticket \ {t} : Fate(x)' = Fate(x)
  BY <1>1 DEF Fate, Uses
<1>3. CASE t \in disturbed
  <2>1. Fate(t)' = Fate(t)
    BY <1>3 DEF Fate
  <2> QED
    BY <1>2, <2>1 DEF Fates
<1>4. CASE t \notin disturbed
  <2>1. Uses(t) = 0
    BY <1>4 DEF EscrowInv, Once
  <2>2. t \in staked /\ GamesOf(t) = {}
    BY <1>4, <2>1, FateIs, HandsArePushed DEF InHandArePushed, Pushed, Shape
  <2>3. Fate(t) = "held"
    BY <1>4, <2>1, <2>2, FatesKnown DEF FatesAreKnown
  <2>4. Uses(t)' = 1 /\ GamesOf(t)' = {}
    BY <1>1, <2>1, <2>2
  <2>5. Fate(t)' = "refunded"
    BY <1>4, <2>4, TypesKept, FatesKnownAfter DEF FatesAreKnown
  <2>6. Fates' = [Fates EXCEPT ![t] = "refunded"]
    BY <1>2, <2>5 DEF Fates
  <2> QED
    BY <2>3, <2>6 DEF Escrow!Refund, Fates
<1> QED
  BY <1>3, <1>4

LEMMA DisputeRefined ==
  ASSUME TypeOK, Shape, EscrowInv, Next, \A t \in Ticket : ~LockInsert(t) /\ ~SaveGame(t),
         \A c \in Cancel : ~CancelRelease(c), \A w \in Sweep : ~SweepRelease(w)
  PROVE  Escrow!Dispute(disturbed')
<1>1. ASSUME NEW x \in Ticket
      PROVE  Fate(x)' = IF x \in disturbed' THEN "disputed" ELSE Fate(x)
  <2>1. GamesOf(x)' = GamesOf(x) /\ Uses(x)' = Uses(x)
    BY UsesAfter, GamesOfATicket
  <2>2. refunds' = refunds
    BY RefundsAreReleased
  <2>3. x \in staked' <=> x \in staked
    BY StakedByLockInsert, TicketShapeKept DEF Steady
  <2> QED
    BY <2>1, <2>2, <2>3, DisturbedForGood DEF Fate
<1>2. Fates' = [x \in Ticket |-> IF x \in disturbed' THEN "disputed" ELSE Fates[x]]
  BY <1>1 DEF Fates
<1> QED
  BY <1>2 DEF Escrow!Dispute, Fates

(* KeepsEscrow: Matchmaking implements StakeEscrow, for any number of      *)
(* users, joins, cancellations and overlapping timeout runs.               *)
THEOREM MatchmakingKeepsEscrow == Spec => KeepsEscrow
<1>1. Init => Escrow!Init
  <2> SUFFICES ASSUME Init
               PROVE  Fates = [t \in Ticket |-> "none"]
    BY DEF Escrow!Init, Fates
  <2>1. ASSUME NEW t \in Ticket
        PROVE  Fate(t) = "none"
    <3>1. t \notin disturbed /\ t \notin staked /\ GamesOf(t) = {} /\ refunds[t] = 0
      BY DEF Init, GamesOf, ToSet
    <3>2. TypeOK /\ Uses(t) = 0
      BY <3>1, InitTyped, FS_EmptySet DEF Uses
    <3> QED
      BY <3>1, <3>2, FatesKnown DEF FatesAreKnown
  <2> QED
    BY <2>1 DEF Fates
<1>2. ASSUME TypeOK, Shape, EscrowInv, Next
      PROVE  Escrow!Next \/ Fates' = Fates
  <2>1. ASSUME NEW t \in Ticket, LockInsert(t)
        PROVE  Escrow!Next
    BY <1>2, <2>1, HoldRefined DEF Escrow!Next
  <2>2. ASSUME NEW j \in Ticket, SaveGame(j)
        PROVE  Escrow!Next
    BY <1>2, <2>2, PlayRefined DEF Escrow!Next
  <2>3. ASSUME NEW c \in Cancel, CancelRelease(c)
        PROVE  Escrow!Next \/ Fates' = Fates
    <3> DEFINE k == <<"cancel", c>>
    <3>1. PICK e \in Ticket : e = Target(c)
      BY <1>2, <2>3, RefundsAreReleased
    <3>2. k \in Call /\ e \in Holds(k) /\ e \notin Used(k)
      <4>1. cpc[c] = "release" /\ cent[c] # None
        BY <1>2, <2>3 DEF CancelRelease, Shape, HandShape, CancelShape, CancelFits
      <4> QED
        BY <3>1, <4>1, NoneAssumption DEF Call, Holds, CancelHolds, Used, Target
    <3>3. /\ Uses(e)' = Uses(e) + 1 /\ refunds'[e] = refunds[e] + 1
          /\ \A x \in Ticket \ {e} : refunds'[x] = refunds[x]
      BY <1>2, <2>3, <3>1, UsesAfter, RefundsAreReleased
    <3>4. disturbed' = disturbed /\ UNCHANGED <<game, staked>>
      BY <2>3 DEF CancelRelease, joinVars
    <3>5. Escrow!Refund(e) \/ Fates' = Fates
      BY <1>2, <3>2, <3>3, <3>4, RefundRefined
    <3> QED
      BY <3>5 DEF Escrow!Next
  <2>4. ASSUME NEW w \in Sweep, SweepRelease(w)
        PROVE  Escrow!Next \/ Fates' = Fates
    <3> DEFINE k == <<"sweep", w>>
    <3>1. PICK e \in Ticket : e = Expiring(w)
      BY <1>2, <2>4, RefundsAreReleased
    <3>2. k \in Call /\ e \in Holds(k) /\ e \notin Used(k)
      <4>1. wpc[w] = "release" /\ Expiring(w) \in wdue[w]
        BY <1>2, <2>4, ExpiringIsDue
           DEF SweepRelease, Shape, HandShape, SweepShape, SweepFits
      <4> QED
        BY <3>1, <4>1 DEF Call, Holds, SweepHolds, Used
    <3>3. /\ Uses(e)' = Uses(e) + 1 /\ refunds'[e] = refunds[e] + 1
          /\ \A x \in Ticket \ {e} : refunds'[x] = refunds[x]
      BY <1>2, <2>4, <3>1, UsesAfter, RefundsAreReleased
    <3>4. disturbed' = disturbed /\ UNCHANGED <<game, staked>>
      BY <2>4 DEF SweepRelease, joinVars
    <3>5. Escrow!Refund(e) \/ Fates' = Fates
      BY <1>2, <3>2, <3>3, <3>4, RefundRefined
    <3> QED
      BY <3>5 DEF Escrow!Next
  <2>5. CASE /\ \A t \in Ticket : ~LockInsert(t) /\ ~SaveGame(t)
             /\ \A c \in Cancel : ~CancelRelease(c)
             /\ \A w \in Sweep : ~SweepRelease(w)
    <3>1. Escrow!Dispute(disturbed')
      BY <1>2, <2>5, DisputeRefined
    <3>2. disturbed' \in SUBSET Ticket
      BY <1>2, TypesKept DEF TypeOK
    <3> QED
      BY <3>1, <3>2 DEF Escrow!Next
  <2> QED
    BY <2>1, <2>2, <2>3, <2>4, <2>5
<1>3. UNCHANGED vars => Fates' = Fates
  <2> SUFFICES ASSUME UNCHANGED vars
               PROVE  Fates' = Fates
    OBVIOUS
  <2>1. \A t \in Ticket : GamesOf(t)' = GamesOf(t) /\ Uses(t)' = Uses(t)
    BY DEF vars, joinVars, GamesOf, Uses, ToSet
  <2>2. \A t \in Ticket : Fate(t)' = Fate(t)
    BY <2>1 DEF vars, Fate
  <2> QED
    BY <2>2 DEF Fates
<1>4. (TypeOK /\ Shape /\ EscrowInv) /\ [Next]_vars
        => [Escrow!Next]_([t \in Ticket |-> Fate(t)])
  BY <1>2, <1>3 DEF Fates
<1> QED
  BY <1>1, <1>4, EscrowHolds, PTL DEF Spec, KeepsEscrow, Escrow!Spec


=============================================================================
