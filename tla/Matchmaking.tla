---------------------------- MODULE Matchmaking ----------------------------
(***************************************************************************)
(* MatchmakingService (src/matchmaking/matchmaking.service.ts): the Redis  *)
(* queues, the users' Redis keys, and the three kinds of handler that      *)
(* share them: joinMatchmaking with tryMatch, cancelMatchmaking, and the   *)
(* timeout checker.                                                        *)
(*                                                                         *)
(* A ticket is one call of joinMatchmaking, and also the entry that call   *)
(* pushes: entries of different calls differ in their timestamp.  Every    *)
(* await of the code ends a step, so that handlers interleave between any  *)
(* two of their Redis and database calls.  Redis commands and single-row   *)
(* saves are atomic.                                                       *)
(***************************************************************************)
EXTENDS LedgerOps, SequencesExt

CONSTANTS
  User,         \* users.id
  Ticket,       \* calls of joinMatchmaking, and their queue entries
  Cancel,       \* slots for calls of cancelMatchmaking
  Sweep,        \* slots for runs of the timeout checker
  Stake,        \* stakes players ask for
  SweptStake,   \* the stake levels the timeout checker visits
  Funds,        \* what each user deposited before
  AcceptedRef,  \* reference strings the referenceId column accepts
  FaultLimit,   \* bound: failures of calls and crashes in a behaviour
  None          \* no ticket, no user

ASSUME StakeAssumption == Stake \subseteq Nat \ {0} /\ SweptStake \subseteq Nat
ASSUME FundsAssumption == Funds \in Nat
ASSUME FaultAssumption == FaultLimit \in Nat
ASSUME NoneAssumption == None \notin Ticket \cup User
ASSUME TicketAssumption == IsFiniteSet(Ticket)

VARIABLES
  acc,        \* the ledger: an account for each user
  queue,      \* matchmaking:queue:<stake>, newest entry first
  userKey,    \* matchmaking:user:<id>: the entry stored there, or None
  overdue,    \* entries older than MATCHMAKING_TIMEOUT_SECONDS
  jpc, who, stake, pair,  \* joinMatchmaking and tryMatch: step, arguments, the
                          \* two entries taken to be matched
  game,       \* the game row a join saved: the two entries in it
  cpc, cent, chit,        \* cancelMatchmaking: step, the entry read from the
                          \* user's key, the entry found in the queue
  wpc, wleft, wlist, wdue, \* timeout checker: step, stakes still to visit,
                           \* entries of the current stake, and those of them
                           \* that were overdue and are to be timed out
  staked,     \* history: entries whose stake is locked
  refunds,    \* history: releases committed on behalf of each entry
  disturbed,  \* history: entries two handlers had in hand at once, or that
              \* a handler had in hand when it failed
  faults      \* history: failures so far

joinVars   == <<jpc, who, stake, pair, game>>
cancelVars == <<cpc, cent, chit>>
sweepVars  == <<wpc, wleft, wlist, wdue>>
redisVars  == <<queue, userKey, overdue>>
vars == <<acc, redisVars, joinVars, cancelVars, sweepVars, staked, refunds, disturbed,
          faults>>

Init ==
  /\ acc = [u \in User |-> AddRow(EmptyAccount, "DEPOSIT", Funds)]
  /\ queue = [s \in Stake |-> <<>>]
  /\ userKey = [u \in User |-> None]
  /\ overdue = {}
  /\ jpc = [t \in Ticket |-> "new"]
  /\ who = [t \in Ticket |-> None]
  /\ stake = [t \in Ticket |-> 0]
  /\ pair = [t \in Ticket |-> <<>>]
  /\ game = [t \in Ticket |-> <<>>]
  /\ cpc = [c \in Cancel |-> "idle"]
  /\ cent = [c \in Cancel |-> None]
  /\ chit = [c \in Cancel |-> None]
  /\ wpc = [w \in Sweep |-> "idle"]
  /\ wleft = [w \in Sweep |-> {}]
  /\ wlist = [w \in Sweep |-> <<>>]
  /\ wdue = [w \in Sweep |-> {}]
  /\ staked = {}
  /\ refunds = [t \in Ticket |-> 0]
  /\ disturbed = {}
  /\ faults = 0

-----------------------------------------------------------------------------
(* The entries a handler has in hand: those it read and will act upon      *)
(* without looking again, and the joiner's own entry until its key is set. *)
JoinHolds(t) ==
  CASE jpc[t] = "pushed" -> {t}
    [] jpc[t] \in {"rem1", "rem2", "save", "del1", "del2"} -> ToSet(pair[t])
    [] OTHER -> {}

CancelHolds(c) == IF cpc[c] = "idle" THEN {} ELSE {cent[c], chit[c]} \ {None}

SweepHolds(w) == wdue[w]

(* The calls that may run at once, and what each has in hand.              *)
Call == ({"join"} \X Ticket) \cup ({"cancel"} \X Cancel) \cup ({"sweep"} \X Sweep)

Holds(k) == CASE k[1] = "join"   -> JoinHolds(k[2])
              [] k[1] = "cancel" -> CancelHolds(k[2])
              [] k[1] = "sweep"  -> SweepHolds(k[2])

Contested(t) == \E g, h \in Call : g # h /\ t \in Holds(g) /\ t \in Holds(h)

(* Bookkeeping of every step that takes entries in hand.                   *)
Track == disturbed' = disturbed \cup {t \in Ticket : Contested(t)'}

(* A failure nothing but chance explains is counted.                       *)
FaultUnless(explained) ==
  IF explained THEN UNCHANGED faults
               ELSE faults < FaultLimit /\ faults' = faults + 1

-----------------------------------------------------------------------------
(* joinMatchmaking: no key of the user exists, and lockFunds reads a       *)
(* balance that covers the stake.  (Otherwise the call throws and nothing  *)
(* has changed.  What happens between the two reads can only decide        *)
(* whether it throws.)                                                     *)
JoinCheck(t, u, s) ==
  /\ jpc[t] = "new"
  /\ userKey[u] = None
  /\ validateTransaction("BET_LOCK", s, getBalance(acc[u]))
  /\ jpc' = [jpc EXCEPT ![t] = "funded"]
  /\ who' = [who EXCEPT ![t] = u]
  /\ stake' = [stake EXCEPT ![t] = s]
  /\ UNCHANGED <<acc, redisVars, pair, game, cancelVars, sweepVars,
                 staked, refunds, disturbed, faults>>

(* lockFunds writes its row, whose referenceId is 'PENDING'.               *)
LockInsert(t) ==
  /\ jpc[t] = "funded"
  /\ "PENDING" \in AcceptedRef
  /\ acc' = [acc EXCEPT ![who[t]] = AddRow(@, "BET_LOCK", stake[t])]
  /\ staked' = staked \cup {t}
  /\ jpc' = [jpc EXCEPT ![t] = "locked"]
  /\ UNCHANGED <<redisVars, who, stake, pair, game, cancelVars, sweepVars,
                 refunds, disturbed, faults>>

(* The insert rejects, because the column refuses this string or for       *)
(* another reason: lockFunds rolls back, the join throws.                  *)
LockRefused(t) ==
  /\ jpc[t] = "funded"
  /\ FaultUnless("PENDING" \notin AcceptedRef)
  /\ jpc' = [jpc EXCEPT ![t] = "new"]
  /\ who' = [who EXCEPT ![t] = None]
  /\ stake' = [stake EXCEPT ![t] = 0]
  /\ UNCHANGED <<acc, redisVars, pair, game, cancelVars, sweepVars, staked,
                 refunds, disturbed>>

(* LPUSH.                                                                  *)
Push(t) ==
  /\ jpc[t] = "locked"
  /\ queue' = [queue EXCEPT ![stake[t]] = Cons(t, @)]
  /\ jpc' = [jpc EXCEPT ![t] = "pushed"]
  /\ UNCHANGED <<acc, userKey, overdue, who, stake, pair, game, cancelVars,
                 sweepVars, staked, refunds, disturbed, faults>>

(* SET ... EX 120.                                                         *)
SetKey(t) ==
  /\ jpc[t] = "pushed"
  /\ userKey' = [userKey EXCEPT ![who[t]] = t]
  /\ jpc' = [jpc EXCEPT ![t] = "keyed"]
  /\ UNCHANGED <<acc, queue, overdue, who, stake, pair, game, cancelVars,
                 sweepVars, staked, refunds, disturbed, faults>>

(* Mutant of Range01: LRANGE 0 0, one entry too few.                       *)
RangesOne(t) ==
  /\ jpc[t] = "keyed"
  /\ LET entries == queue[stake[t]] IN
       IF Len(entries) < 1
         THEN /\ jpc' = [jpc EXCEPT ![t] = "done"]
              /\ UNCHANGED pair
         ELSE /\ pair' = [pair EXCEPT ![t] = SubSeq(entries, 1, 1)]
              /\ jpc' = [jpc EXCEPT ![t] = "rem1"]
  /\ UNCHANGED <<acc, redisVars, who, stake, game, cancelVars, sweepVars,
                 staked, refunds, faults>>
  /\ Track

(* tryMatch: LRANGE 0 1, the two newest entries; with fewer, no match.     *)
Range01(t) ==
  /\ jpc[t] = "keyed"
  /\ LET entries == queue[stake[t]] IN
       IF Len(entries) < 2
         THEN /\ jpc' = [jpc EXCEPT ![t] = "done"]
              /\ UNCHANGED pair
         ELSE /\ pair' = [pair EXCEPT ![t] = SubSeq(entries, 1, 2)]
              /\ jpc' = [jpc EXCEPT ![t] = "rem1"]
  /\ UNCHANGED <<acc, redisVars, who, stake, game, cancelVars, sweepVars,
                 staked, refunds, faults>>
  /\ Track

(* The two LREMs, whose counts are not looked at.                          *)
Rem(t, i) ==
  /\ queue' = [queue EXCEPT ![stake[t]] = RemoveFirst(@, pair[t][i])]
  /\ UNCHANGED <<acc, userKey, overdue, who, stake, pair, game, cancelVars,
                 sweepVars, staked, refunds, disturbed, faults>>

Rem1(t) == jpc[t] = "rem1" /\ Rem(t, 1) /\ jpc' = [jpc EXCEPT ![t] = "rem2"]
Rem2(t) == jpc[t] = "rem2" /\ Rem(t, 2) /\ jpc' = [jpc EXCEPT ![t] = "save"]

(* Mutant of SaveGame: player2Id is taken from the first entry.            *)
SavesFirstTwice(t) ==
  /\ jpc[t] = "save"
  /\ game' = [game EXCEPT ![t] = <<pair[t][1], pair[t][1]>>]
  /\ jpc' = [jpc EXCEPT ![t] = "del1"]
  /\ UNCHANGED <<acc, redisVars, who, stake, pair, cancelVars, sweepVars,
                 staked, refunds, disturbed, faults>>

(* gameRepository.save of the WAITING game.                                *)
SaveGame(t) ==
  /\ jpc[t] = "save"
  /\ game' = [game EXCEPT ![t] = pair[t]]
  /\ jpc' = [jpc EXCEPT ![t] = "del1"]
  /\ UNCHANGED <<acc, redisVars, who, stake, pair, cancelVars, sweepVars,
                 staked, refunds, disturbed, faults>>

(* The two DELs of the players' keys.                                      *)
DelKey(u) ==
  /\ userKey' = [userKey EXCEPT ![u] = None]
  /\ UNCHANGED <<queue, overdue>>

Del1(t) ==
  /\ jpc[t] = "del1"
  /\ DelKey(who[pair[t][1]])
  /\ jpc' = [jpc EXCEPT ![t] = "del2"]
  /\ UNCHANGED <<acc, who, stake, pair, game, cancelVars, sweepVars,
                 staked, refunds, disturbed, faults>>

Del2(t) ==
  /\ jpc[t] = "del2"
  /\ DelKey(who[pair[t][2]])
  /\ jpc' = [jpc EXCEPT ![t] = "done"]
  /\ pair' = [pair EXCEPT ![t] = <<>>]
  /\ UNCHANGED <<acc, who, stake, game, cancelVars, sweepVars, staked,
                 refunds, disturbed, faults>>

-----------------------------------------------------------------------------
(* releaseFunds on behalf of entry t: one more BET_RELEASE row.            *)
Release(t) ==
  /\ acc' = [acc EXCEPT ![who[t]] = AddRow(@, "BET_RELEASE", stake[t])]
  /\ refunds' = [refunds EXCEPT ![t] = @ + 1]

(* cancelMatchmaking: GET of the user's key.                               *)
CancelGet(c, u) ==
  /\ cpc[c] = "idle"
  /\ userKey[u] # None
  /\ cpc' = [cpc EXCEPT ![c] = "got"]
  /\ cent' = [cent EXCEPT ![c] = userKey[u]]
  /\ UNCHANGED chit
  /\ UNCHANGED <<acc, redisVars, joinVars, sweepVars, staked, refunds, faults>>
  /\ Track

(* LRANGE 0 -1 and the search for the first entry of the same user.        *)
CancelRange(c) ==
  /\ cpc[c] = "got"
  /\ LET entries == queue[stake[cent[c]]]
         first == SelectInSeq(entries, LAMBDA t : who[t] = who[cent[c]])
     IN  IF first = 0
           THEN /\ cpc' = [cpc EXCEPT ![c] = "release"]
                /\ UNCHANGED chit
           ELSE /\ chit' = [chit EXCEPT ![c] = entries[first]]
                /\ cpc' = [cpc EXCEPT ![c] = "remove"]
  /\ UNCHANGED cent
  /\ UNCHANGED <<acc, redisVars, joinVars, sweepVars, staked, refunds, faults>>
  /\ Track

(* Mutant of CancelRem: the LREM names a value that is not in the list.    *)
CancelRemovesNothing(c) ==
  /\ cpc[c] = "remove"
  /\ cpc' = [cpc EXCEPT ![c] = "release"]
  /\ UNCHANGED <<acc, redisVars, joinVars, cent, chit, sweepVars, staked,
                 refunds, disturbed, faults>>

(* LREM of that entry, whose count is not looked at.                       *)
CancelRem(c) ==
  /\ cpc[c] = "remove"
  /\ queue' = [queue EXCEPT ![stake[cent[c]]] = RemoveFirst(@, chit[c])]
  /\ cpc' = [cpc EXCEPT ![c] = "release"]
  /\ UNCHANGED <<acc, userKey, overdue, joinVars, cent, chit, sweepVars,
                 staked, refunds, disturbed, faults>>

(* releaseFunds, found or not: of the entry removed, if there is one.      *)
CancelRelease(c) ==
  /\ cpc[c] = "release"
  /\ "CANCELLED" \in AcceptedRef
  /\ Release(IF chit[c] = None THEN cent[c] ELSE chit[c])
  /\ cpc' = [cpc EXCEPT ![c] = "del"]
  /\ UNCHANGED <<redisVars, joinVars, cent, chit, sweepVars, staked, disturbed, faults>>

EndCancel(c) ==
  /\ cpc' = [cpc EXCEPT ![c] = "idle"]
  /\ cent' = [cent EXCEPT ![c] = None]
  /\ chit' = [chit EXCEPT ![c] = None]

(* DEL of the user's key.                                                  *)
CancelDel(c) ==
  /\ cpc[c] = "del"
  /\ DelKey(who[cent[c]])
  /\ EndCancel(c)
  /\ UNCHANGED <<acc, joinVars, sweepVars, staked, refunds, disturbed, faults>>

-----------------------------------------------------------------------------
(* The timeout checker: setInterval fires, even during an earlier run.     *)
SweepTick(w) ==
  /\ wpc[w] = "idle"
  /\ SweptStake # {}
  /\ wpc' = [wpc EXCEPT ![w] = "range"]
  /\ wleft' = [wleft EXCEPT ![w] = SweptStake]
  /\ UNCHANGED <<acc, redisVars, joinVars, cancelVars, wlist, wdue, staked, refunds,
                 disturbed, faults>>

(* Where a run goes in its loops when it has list in hand, of which due    *)
(* are to be timed out, and the stakes left to visit are left.             *)
SweepTo(w, list, due, left) ==
  /\ wlist' = [wlist EXCEPT ![w] = IF due = {} THEN <<>> ELSE list]
  /\ wdue' = [wdue EXCEPT ![w] = due]
  /\ wleft' = [wleft EXCEPT ![w] = left]
  /\ wpc' = [wpc EXCEPT ![w] = IF due # {} THEN "remove"
                               ELSE IF left # {} THEN "range" ELSE "idle"]

(* The next entry to be timed out: the first of the list that is overdue.  *)
Expiring(w) == wlist[w][SelectInSeq(wlist[w], LAMBDA t : t \in wdue[w])]

(* Mutant of SweepRange: the age is compared the wrong way round.          *)
SweepsYoung(w) ==
  /\ wpc[w] = "range"
  /\ LET s == CHOOSE x \in wleft[w] : \A y \in wleft[w] : x <= y
         entries == IF s \in Stake THEN queue[s] ELSE <<>>
     IN  SweepTo(w, entries, ToSet(entries) \ overdue, wleft[w] \ {s})
  /\ UNCHANGED <<acc, redisVars, joinVars, cancelVars, staked, refunds, faults>>
  /\ Track

(* LRANGE 0 -1 of the next stake; the entries overdue at this moment are   *)
(* the ones the loop will time out.                                        *)
SweepRange(w) ==
  /\ wpc[w] = "range"
  /\ LET s == CHOOSE x \in wleft[w] : \A y \in wleft[w] : x <= y
         entries == IF s \in Stake THEN queue[s] ELSE <<>>
     IN  SweepTo(w, entries, ToSet(entries) \cap overdue, wleft[w] \ {s})
  /\ UNCHANGED <<acc, redisVars, joinVars, cancelVars, staked, refunds, faults>>
  /\ Track

(* Mutant of SweepRem: the LREM names a value that is not in the list.     *)
SweepRemovesNothing(w) ==
  /\ wpc[w] = "remove"
  /\ wpc' = [wpc EXCEPT ![w] = "release"]
  /\ UNCHANGED <<acc, redisVars, joinVars, cancelVars, wleft, wlist, wdue, staked,
                 refunds, disturbed, faults>>

(* LREM of the next overdue entry, whose count is not looked at.           *)
SweepRem(w) ==
  /\ wpc[w] = "remove"
  /\ queue' = [queue EXCEPT ![stake[Expiring(w)]] = RemoveFirst(@, Expiring(w))]
  /\ wpc' = [wpc EXCEPT ![w] = "release"]
  /\ UNCHANGED <<acc, userKey, overdue, joinVars, cancelVars, wleft, wlist, wdue,
                 staked, refunds, disturbed, faults>>

SweepRelease(w) ==
  /\ wpc[w] = "release"
  /\ "TIMEOUT" \in AcceptedRef
  /\ Release(Expiring(w))
  /\ wpc' = [wpc EXCEPT ![w] = "del"]
  /\ UNCHANGED <<redisVars, joinVars, cancelVars, wleft, wlist, wdue, staked, disturbed,
                 faults>>

SweepDel(w) ==
  /\ wpc[w] = "del"
  /\ DelKey(who[Expiring(w)])
  /\ SweepTo(w, wlist[w], wdue[w] \ {Expiring(w)}, wleft[w])
  /\ UNCHANGED <<acc, joinVars, cancelVars, staked, refunds, disturbed, faults>>

-----------------------------------------------------------------------------
(* Time.  An entry outlives the timeout, which is configured; a key        *)
(* outlives its 120 seconds, whatever became of the entry it was set for.  *)
Age(t) ==
  /\ t \notin overdue
  /\ \E s \in Stake : Contains(queue[s], t)
  /\ overdue' = overdue \cup {t}
  /\ UNCHANGED <<acc, queue, userKey, joinVars, cancelVars, sweepVars,
                 staked, refunds, disturbed, faults>>

Expire(u) ==
  /\ userKey[u] # None
  /\ DelKey(u)
  /\ UNCHANGED <<acc, joinVars, cancelVars, sweepVars, staked, refunds, disturbed, faults>>

(* A Redis or database call of a join rejects: the request ends where it   *)
(* is, nothing is undone.                                                  *)
JoinFail(t) ==
  /\ FaultUnless(FALSE)
  /\ jpc[t] \notin {"new", "funded", "done", "failed"}
  /\ jpc' = [jpc EXCEPT ![t] = "failed"]
  /\ pair' = [pair EXCEPT ![t] = <<>>]
  /\ disturbed' = disturbed \cup JoinHolds(t)
  /\ UNCHANGED <<acc, redisVars, who, stake, game, cancelVars, sweepVars,
                 staked, refunds>>

(* The same for a cancel; a release the schema refuses is such a failure.  *)
CancelFail(c) ==
  /\ cpc[c] # "idle"
  /\ FaultUnless(cpc[c] = "release" /\ "CANCELLED" \notin AcceptedRef)
  /\ EndCancel(c)
  /\ disturbed' = disturbed \cup CancelHolds(c)
  /\ UNCHANGED <<acc, redisVars, joinVars, sweepVars, staked, refunds>>

(* The process ends: by a rejection inside the timeout checker, which      *)
(* nothing catches, or from outside.  Every handler is gone; Redis and the *)
(* database stay.                                                          *)
Crash ==
  /\ FaultUnless("TIMEOUT" \notin AcceptedRef /\ \E w \in Sweep : wpc[w] = "release")
  /\ disturbed' = disturbed \cup {t \in Ticket : \E k \in Call : t \in Holds(k)}
  /\ jpc' = [t \in Ticket |-> IF jpc[t] \in {"new", "done"}
                                THEN jpc[t] ELSE "failed"]
  /\ pair' = [t \in Ticket |-> <<>>]
  /\ cpc' = [c \in Cancel |-> "idle"]
  /\ cent' = [c \in Cancel |-> None]
  /\ chit' = [c \in Cancel |-> None]
  /\ wpc' = [w \in Sweep |-> "idle"]
  /\ wleft' = [w \in Sweep |-> {}]
  /\ wlist' = [w \in Sweep |-> <<>>]
  /\ wdue' = [w \in Sweep |-> {}]
  /\ UNCHANGED <<acc, redisVars, who, stake, game, staked, refunds>>

-----------------------------------------------------------------------------
JoinStep(t) ==
  \/ LockInsert(t) \/ LockRefused(t) \/ Push(t) \/ SetKey(t) \/ Range01(t)
  \/ Rem1(t) \/ Rem2(t) \/ SaveGame(t) \/ Del1(t) \/ Del2(t)

CancelStep(c) ==
  \/ CancelRange(c) \/ CancelRem(c) \/ CancelRelease(c) \/ CancelDel(c)

SweepStep(w) ==
  \/ SweepTick(w) \/ SweepRange(w) \/ SweepRem(w) \/ SweepRelease(w) \/ SweepDel(w)

Next ==
  \/ \E t \in Ticket, u \in User, s \in Stake : JoinCheck(t, u, s)
  \/ \E t \in Ticket : JoinStep(t) \/ JoinFail(t) \/ Age(t)
  \/ \E c \in Cancel, u \in User : CancelGet(c, u)
  \/ \E c \in Cancel : CancelStep(c) \/ CancelFail(c)
  \/ \E w \in Sweep : SweepStep(w)
  \/ \E u \in User : Expire(u)
  \/ Crash

(* A handler that began goes on, the interval keeps firing, time passes.   *)
(* Clients join and cancel only if they want to.                           *)
Fairness ==
  /\ \A t \in Ticket : WF_vars(JoinStep(t)) /\ WF_vars(Age(t))
  /\ \A c \in Cancel : WF_vars(CancelStep(c))
  /\ \A w \in Sweep : WF_vars(SweepStep(w))

Spec == Init /\ [][Next]_vars
FairSpec == Spec /\ Fairness
-----------------------------------------------------------------------------
(* The types of matchmaking: Redis holds entries of known calls, and a     *)
(* match is always made of two of them.                                    *)
TypeOK ==
  /\ acc \in [User -> Account]
  /\ queue \in [Stake -> Seq(Ticket)]
  /\ userKey \in [User -> Ticket \cup {None}]
  /\ overdue \subseteq Ticket
  /\ jpc \in [Ticket -> {"new", "funded", "locked", "pushed", "keyed",
                        "rem1", "rem2", "save", "del1", "del2", "done",
                        "failed"}]
  /\ who \in [Ticket -> User \cup {None}]
  /\ stake \in [Ticket -> Stake \cup {0}]
  /\ pair \in [Ticket -> {<<>>} \cup (Ticket \X Ticket)]
  /\ game \in [Ticket -> {<<>>} \cup (Ticket \X Ticket)]
  /\ cpc \in [Cancel -> {"idle", "got", "remove", "release", "del"}]
  /\ cent \in [Cancel -> Ticket \cup {None}]
  /\ chit \in [Cancel -> Ticket \cup {None}]
  /\ wpc \in [Sweep -> {"idle", "range", "remove", "release", "del"}]
  /\ wleft \in [Sweep -> SUBSET SweptStake]
  /\ wlist \in [Sweep -> Seq(Ticket)]
  /\ wdue \in [Sweep -> SUBSET Ticket]
  /\ staked \subseteq Ticket
  /\ refunds \in [Ticket -> Nat]
  /\ disturbed \subseteq Ticket
  /\ faults \in 0 .. FaultLimit
  /\ \A w \in Sweep : wdue[w] \subseteq ToSet(wlist[w])

Queued(t)  == \E s \in Stake : Contains(queue[s], t)
GamesOf(t) == {j \in Ticket : t \in ToSet(game[j])}
Uses(t)    == Cardinality(GamesOf(t)) + refunds[t]

(* Entry t is out of the queue, or about to be, and the handler that takes *)
(* it out has yet to put it into a game or to refund it.                   *)
BeingUsed(t) ==
  \/ \E j \in Ticket : jpc[j] \in {"rem1", "rem2", "save"} /\ t \in ToSet(pair[j])
  \/ \E c \in Cancel : cpc[c] \in {"remove", "release"} /\ chit[c] = t
  \/ \E w \in Sweep : wpc[w] \in {"remove", "release"} /\ t = Expiring(w)

(* No interleaving of joins, cancels and timeout runs loses a locked       *)
(* stake, as long as no call fails: it is on its way into the queue, in    *)
(* it, in the hands of a handler that will use it, in a game, or refunded. *)
NoStakeForgotten ==
  faults = 0 =>
    \A t \in staked : jpc[t] = "locked" \/ Queued(t) \/ BeingUsed(t) \/ Uses(t) > 0

(* A stake that no two handlers had in hand at once, and whose handler did *)
(* not fail, is used at most once: one game, or one refund.                *)
UndisturbedUsedOnce == \A t \in Ticket \ disturbed : Uses(t) <= 1

(* What became of the stake of entry t.                                    *)
Fate(t) == IF t \in disturbed THEN "disputed"
           ELSE IF Uses(t) > 1 THEN "used twice"
           ELSE IF GamesOf(t) # {} THEN "playing"
           ELSE IF refunds[t] > 0 THEN "refunded"
           ELSE IF t \in staked THEN "held" ELSE "none"

Escrow == INSTANCE StakeEscrow WITH escrow <- [t \in Ticket |-> Fate(t)]

(* Matchmaking keeps stakes as StakeEscrow says: two stakes enter a game   *)
(* in one step, a stake is in one game or refunded once.                   *)
KeepsEscrow == Escrow!Spec

(* Every stake that is locked at a level the timeout checker visits gets   *)
(* into a game or is refunded in the end.                                  *)
StakesResolved == \A t \in Ticket : t \in staked ~> Uses(t) > 0

-----------------------------------------------------------------------------
(* IMPLEMENTATION.md:98 "BET_LOCK: Locking funds for game": the funds of a *)
(* user who has them are locked when he joins.                             *)
FundedJoinAccepted ==
  [][\A t \in Ticket : jpc[t] = "funded" => jpc'[t] # "new"]_vars

=============================================================================
