------------------------------ MODULE Platform ------------------------------
(***************************************************************************)
(* Matchmaking and settlement over one ledger: the stakes that joins lock  *)
(* go into a game, the game is played, and settleGame or                   *)
(* cancelGameAndRefund books them back (src/matchmaking, src/game,         *)
(* src/settlement, src/wallet).                                            *)
(*                                                                         *)
(* Module Settlement is instantiated for one of the saved games.  Its two  *)
(* seats are the two entries of the match, and each credit and release it  *)
(* counts is a row in the ledger of the entry's user.                      *)
(***************************************************************************)
EXTENDS Matchmaking

CONSTANTS
  First, Second,  \* the seats of a game: player1 and player2
  NoSeat,         \* no seat
  Piece, Index, Home, Six, Handler, Op, RefundLimit,  \* see LudoRules, Game, Settlement
  PlayFaultLimit, \* bound: failures of requests about the game
  Commission      \* what tryMatch makes the commissionAmount for a stake

ASSUME UserAssumption == IsFiniteSet(User)
ASSUME SeatAssumption == First # Second /\ NoSeat \notin {First, Second}
ASSUME WayAssumption == Home \in Nat \ {0} /\ Six \in Nat \ {0}

(* A percentage below 100 of the pot.                                      *)
ASSUME CommissionAssumption ==
  Commission \in [Stake -> Nat] /\ \A s \in Stake : Commission[s] < 2 * s

VARIABLES
  table,   \* the join whose game is played, or None
  row, hpc, mem, base, by, fresh, mixed, settled, to, paid, released,
  overlapped, playFaults,  \* the state of module Settlement for that game
  spoiled  \* history: requests about the game overlapped, a cancellation
           \* failed after it had refunded somebody, or a cancelled game was
           \* cancelled or validated

playVars == <<row, hpc, mem, base, by, fresh, mixed, settled, to, paid, released,
              overlapped, playFaults>>
tableVars == <<table, playVars, spoiled>>
lobbyVars == <<redisVars, joinVars, cancelVars, sweepVars, staked, refunds, disturbed,
               faults>>
platformVars == <<vars, tableVars>>

Play == INSTANCE Settlement WITH
  Player1 <- First, Player2 <- Second, None <- NoSeat,
  disturbed <- overlapped, faults <- playFaults, FaultLimit <- PlayFaultLimit

PlatformInit == Init /\ table = None /\ Play!Init /\ spoiled = FALSE

(* A handler of matchmaking goes on.                                       *)
Lobby == Next /\ UNCHANGED tableVars

(* The join is answered with the id of its game, which can be played now.  *)
Open(j) ==
  /\ table = None
  /\ jpc[j] = "done"
  /\ game[j] # <<>>
  /\ table' = j
  /\ UNCHANGED <<vars, playVars, spoiled>>

(* The user in a seat.                                                     *)
Seated(seat) == who[game[table][IF seat = First THEN 1 ELSE 2]]

(* Mutant of Prize: the commission is not taken.                           *)
WholePot == 2 * stake[table]

(* What settleGame credits.                                                *)
Prize == 2 * stake[table] - Commission[stake[table]]

(* The row that a step of settlement adds to the ledger, if it adds one.   *)
Booked ==
  \/ UNCHANGED <<paid, released, acc>>
  \/ \E seat \in {First, Second} :
       /\ paid'[seat] # paid[seat]
       /\ acc' = [acc EXCEPT ![Seated(seat)] = AddRow(@, "WIN_CREDIT", Prize)]
  \/ \E seat \in {First, Second} :
       /\ released'[seat] # released[seat]
       /\ acc' = [acc EXCEPT ![Seated(seat)] = AddRow(@, "BET_RELEASE", stake[table])]

Spoils ==
  \/ \E g, h \in Handler : g # h /\ hpc'[g] # "idle" /\ hpc'[h] # "idle"
  \/ \E h \in Handler :
       \/ /\ mem[h].status = "CANCELLED" /\ row'.status # "CANCELLED"
          /\ hpc[h] \in {"release2", "select", "update"} /\ hpc'[h] = "idle"
       \/ row.status = "CANCELLED" /\ hpc[h] = "idle" /\ hpc'[h] # "idle"

(* A request about the game goes on.                                       *)
Round ==
  /\ table # None
  /\ Play!Next
  /\ Booked
  /\ spoiled' = (spoiled \/ Spoils)
  /\ UNCHANGED <<table, lobbyVars>>

PlatformNext == Lobby \/ (\E j \in Ticket : Open(j)) \/ Round

(* As in Matchmaking: a game that is played does not keep joins and the    *)
(* timeout checker from going on.                                          *)
PlatformFairness ==
  /\ \A t \in Ticket : /\ WF_platformVars(JoinStep(t) /\ UNCHANGED tableVars)
                       /\ WF_platformVars(Age(t) /\ UNCHANGED tableVars)
  /\ \A w \in Sweep : WF_platformVars(SweepStep(w) /\ UNCHANGED tableVars)

PlatformSpec == PlatformInit /\ [][PlatformNext]_platformVars /\ PlatformFairness

-----------------------------------------------------------------------------
(* What users can spend, and the stakes that matchmaking keeps.            *)
Spendable == SumFunction([u \in User |-> RawAvailable(acc[u])])

Waiting == SumFunctionOnSet(stake, {t \in staked : Uses(t) = 0})

(* What a game keeps of its two stakes.                                    *)
InPlay(j) ==
  IF game[j] = <<>> THEN 0
  ELSE IF j # table THEN 2 * stake[j]
  ELSE IF Play!TimesPaid > 0 THEN Commission[stake[j]]
  ELSE (2 - released[First] - released[Second]) * stake[j]

InGames == SumFunction([j \in Ticket |-> InPlay(j)])

(* Money is neither made nor lost between the queue and the payout: what   *)
(* users can spend, the stakes that wait, those in games and the           *)
(* commissions taken are what was deposited.  The exceptions are the       *)
(* entries two handlers had in hand, and what `spoiled` names.             *)
MoneyConserved ==
  disturbed = {} /\ ~overlapped /\ ~spoiled =>
    Spendable + Waiting + InGames = Cardinality(User) * Funds

(* How often entry t's stake came back from the game that is played: by a  *)
(* refund to its seat, or by a payout of the pot.                          *)
CameBack(t) ==
  IF table = None \/ t \notin ToSet(game[table]) THEN 0
  ELSE Play!TimesPaid + released[IF t = game[table][1] THEN First ELSE Second]

(* A stake that matchmaking did not hand to two handlers comes back once   *)
(* at most, from the queue, from a cancelled game or in the pot of a game  *)
(* that was won: refunds of the three services exclude each other.         *)
StakeReturnsOnce ==
  ~overlapped /\ ~spoiled =>
    \A t \in Ticket \ disturbed : refunds[t] + CameBack(t) <= 1

=============================================================================
