# Gaming platform: TLA+ models

Models, model-checking runs and proofs for the backend in `src/src/`: a NestJS
server on which two players stake money, are matched, play Ludo over a
websocket, and the winner is paid.  Everything below is about one Node process
with a PostgreSQL database and a Redis server.

## 1. The system

| part | state it keeps | operations | it calls |
| --- | --- | --- | --- |
| Wallet (`wallet/`) | rows of `ledger`, never changed; the pg connection pool | `createTransaction` behind deposit, `lockFunds`, `releaseFunds`, `creditWinnings`; `getBalance` | – |
| Matchmaking (`matchmaking/`) | Redis lists `matchmaking:queue:<stake>`, Redis keys `matchmaking:user:<id>`, new `games` rows | join with `tryMatch`, cancel, timeout checker every 10 s | wallet |
| Game (`game/`) | one `games` row per game: status, winner, JSON `gameState` | start, roll, move, disconnect, reconnect over socket messages | settlement, after a winning move |
| Settlement (`settlement/`) | `settledGames`, a set in memory | `settleGame`; `validateAndSettleGame` and `cancelGameAndRefund`, which nothing in `src/` calls | wallet |
| Authentication (`auth/`) | `otp_verifications`, `users` | send OTP, verify and log in, with device binding | – |
| Fraud (`fraud/`) | `fraud_alerts`, `users.isWalletLocked` | four checks that raise alerts (which nothing in `src/` calls), wallet lock, review alert | – |
| Administration (`admin/`) | `withdrawals`, `game_configs`, `audit_logs`, `users.isActive` | approve/reject, lock/unlock, create and update a configuration | fraud |

The parts meet in shared rows (`ledger`, `games`, `users`), in Redis, and in
direct calls that are awaited.  The `users` row in particular is saved as a whole
by logins and account locks while fraud sets a column of it.  There is one thread, so a handler runs alone
between two `await`s; at every `await` any other handler may run.  This is the
unit of all the models: **one action is the code from one await to the next**,
and its guard says where the handler stands.

What is hard in this code:

* *Interleaving.*  No operation takes a lock, and no row has a version column.
  Every operation is read, check, write with other handlers in between.
* *Two queries per save.*  `repository.save` of TypeORM selects the row again
  and updates the columns that differ from it.  A row that changes between the
  two queries ends with columns of two writers.
* *Nested transactions.*  `releaseFunds` and `creditWinnings` open and commit
  transactions of their own inside those of settlement; the wallet takes a
  second connection while it holds the first.
* *Failure half-way.*  Joins, cancellations and settlements are several calls
  long, and nothing is undone when one of them is rejected.  A rejection inside
  the interval of the timeout checker ends the process.
* *Memory against database.*  `settledGames` is lost in a restart, the rows stay.

What makes each part correct, and where it is stated:

| part | properties |
| --- | --- |
| Wallet | no overdraft, a checked debit stays covered, connections come back but after a failed BEGIN, calls end unless the pool is starved, `balanceAfter` is the balance after |
| Matchmaking | a locked stake is not lost, is used once, enters a game together with exactly one other, and is used in the end |
| Game | rows are consistent in themselves, play follows the rules, turns and results hold (the last two do not when messages overlap, section 4) |
| Settlement | what is remembered as settled was paid, paid once, and paid in the end |
| Accounts | one login per OTP, locks and bindings are lifted only on request, the audit log explains the account |
| Administration | a decision is one administrator's, a reason means a rejection, every stored value was requested by a logged call, an update keeps what it does not name |
| Fraud | an open critical alert locks, a lock has a reason, collusion is suspected of both players |
| All that moves money | what users can spend, the stakes that wait or are played for, and the commissions add up to the deposits; a stake comes back once |

## 2. The modules

| module | models | extends |
| --- | --- | --- |
| `LedgerOps` | the arithmetic of `wallet.service.ts`: balances, validation, `balanceAfter` | – |
| `Wallet` | `createTransaction`, several at once, on a connection pool | `LedgerOps` |
| `LedgerRows` | the loop of `getBalance` over the rows `Wallet` committed | `Wallet` |
| `StakeEscrow` | abstract: what matchmaking owes a player for a stake | – |
| `Matchmaking` | join, cancel, timeout checker; implements `StakeEscrow` | `LedgerOps` |
| `AtomicWallet` | abstract: a wallet call is one step, and covered | `LedgerOps` |
| `LudoRules` | abstract: the game, one atomic request at a time | – |
| `Game` | the same requests as concurrent load and save; implements `LudoRules` while no save is overtaken | `LudoRules` |
| `Settlement` | settlement and cancellation on top of the messages of `Game` | `Game` |
| `Platform` | matchmaking, the games and settlement over one ledger | `Matchmaking`; `Settlement` by INSTANCE |
| `Accounts` | logins, account locks and wallet locks on one `users` row | – |
| `Administration` | decisions about a withdrawal, configuration of a game type | – |
| `FraudDetection` | the four checks, their alerts and locks, the review, and saves of the `users` row by other services | – |
| `AdminDesk` | the requests of the administrators' controller | `Administration`, `FraudDetection` |
| `MC*` | symmetry sets for TLC; `MCPlatform` also the commission, `MCAdminDesk` the columns, tallies and statuses | the module each is named after (`MCWallet`: `LedgerRows`) |
| `WalletProofs` | theorems about `Wallet` and `LedgerRows` | `LedgerRows`, `TLAPS` |
| `MatchmakingProofs`, `GameProofs`, `SettlementProofs`, `AccountsProofs`, `AdministrationProofs`, `FraudProofs` | theorems about one module | the module, `TLAPS` |
| `PlatformProofs` | theorems about `Platform` | `Platform`, `MatchmakingProofs` |

How state and actions correspond to the code:

**LedgerOps, Wallet.**  `getBalance` reads of a ledger only the sum of the
amounts of each type, so `acc[u]` is a function from transaction type to sum.
`LedgerRows` has the loop as it is written and compares the two.  A request
`r` goes `new` –Connect→ `connected` (connection held) –Start→ `open`
(transaction open) –ReadBalance→ `valid` (balance read on a second connection,
validated) –Insert→ `done` (row committed, connection back).  Reject and Fail are
the catch block; StartFails is a BEGIN that throws before the `try` block, so that
its connection is never released (`leaked`); Crash rolls back what is open and
rebuilds the pool.  `seen[r]` is the balance the call
computes `balanceAfter` from.  `raced` is a history variable: users of whom two
validated debits were between read and insert at once.  Amounts are whole
cents.  `Wallet` implements
`AtomicWallet`, the wallet its callers believe in: the book of a user is his
account, in dispute once he is raced, and the one step is the insert.

**Matchmaking.**  A ticket is a call of `joinMatchmaking` and the queue entry
it pushes.  `jpc[t]` follows GET and balance check, ledger insert, LPUSH, SET,
LRANGE 0 1, LREM, LREM, save of the game, DEL, DEL; `cpc[c]` follows cancel, `wpc[w]`
one run of the timeout checker, which may overlap the next.  `overdue`
replaces the clock: an entry in a queue may pass the timeout at any time.  A key
may expire at any time, whatever became of its entry: its 120 s are fixed, and
the timeout is configured.  `AcceptedRef` is
the set of strings the column `referenceId` takes: it is declared as a uuid
while the callers pass literals, so the model runs with both answers.
A timeout run fixes the overdue entries of a list, `wdue`, when it reads it,
and works them off in the order of the list.  `Holds(k)` is what call `k` has
in hand: entries it has read and will act upon without looking again.
`disturbed` is a history variable: entries two handlers had in hand at once, or
whose handler failed.  `Fate(t)` is what `StakeEscrow` knows of entry `t`.

**LudoRules, Game.**  A row is the `games` row with the JSON unfolded.
Positions stop at `Home`, which stands for every value from 57.  `Index` is what
passes the bounds check of `makeMove`: the pieces, and in the runs of `Game` also
`NaN`, which stands for an index that is none of a piece and is neither below 0
nor above 3 (undefined, NaN, a fraction); such a move passes the turn and moves
nothing.  In `Game` a
handler loads (findOne, checks, new row in memory), selects and saves; `mem` is
what it saves, `base` what the save selected, and `Updated` the columns that
are written.  `fresh` and `mixed` are history: whether the row is still the one
the handler read, and whether a row ever changed between the two queries.  The
socket rooms and broadcasts are left out; nothing reads them back.  The gateway
itself never calls `handleDisconnect`; it is modelled because `GameService`
offers it and `handleReconnect`, which is called on every join, undoes it.

**Settlement.**  `validateAndSettleGame` and `cancelGameAndRefund` have no caller
in `src/`: no controller and no gateway handler reaches them.  They are modelled
as operations the service exports, which a caller may use at any time; what a
property says of validations and cancellations is about that use.  The steps of `settleGame` from `settle` (idempotency check)
over `read` and `credit` to `commit`, after which the game is in `settled`.
`paid` and `released` count ledger rows of the game per player.  Stakes and
commission are not in the module: every payment of one game has the same
amount, so that counting them is enough.

**Platform.**  Everything of `Matchmaking`, and one of the games it saved
(`table`) with the state of `Settlement` for it: the two seats are the two
entries of the match.  A step that counts a payout or a refund in `Settlement`
adds the row to the ledger from which the joins read their balance.
`Commission` gives each stake its `commissionAmount`; less than the pot.  `spoiled`
is history: what the money properties except besides the entries two handlers
had in hand.

**Accounts.**  One phone number, its OTPs, one `users` row, the alerts about
it, and the last entry of `audit_logs`.  Handlers are logins, locks, unlocks,
alerts and reviews, query by query; the row is saved with the same two queries as in `Game`,
but fraud uses single updates.  Unbinding a device is an action of its own,
marked external: the error message names support, no code does it.  Every
verdict other than CLEARED is CONFIRMED: the properties of this module look at
what unlocks the wallet, and the code does so for CLEARED alone.

**Administration.**  Approval, rejection and the update of a configuration are
one procedure: findOne, a check, an assignment to the row in memory, the two
queries of save, an audit entry.  The module is about one row, of either table,
since requests about different rows share nothing.  `change[r]` is what
the request assigns and what its entry will say; `found`, `mixed` and
`unlogged` are history.  The body of a rejection is not validated: it gives a reason, or
null, or none, in which case `reason` is `Undefined` and the save leaves the column as it
is in the table (`Differing`).  Nothing in `src/` creates a withdrawal or books one in
the ledger, so the withdrawal of the model is there from the start.  The entry
of a creation names three columns (`LoggedColumn`); the rest of the row is in no
entry.  An update whose body contains an `id` is left out.

**FraudDetection.**  A check is called with what its queries would return (a
tally of games, the users of a device, the two answers of the indicators), and
raises its alerts one after the other: save, then the wallet lock if the type is
critical, then the next.  A review gives any of the four statuses or none, to an
alert of any status; one that clears unlocks first and saves its verdict second.
`FindUserRow`, `SelectUserRow` and `UpdateUserRow` are `lockUserAccount`,
`unlockUserAccount` and the device binding of a login as far as they touch
`isWalletLocked`: they save the whole row, so that the column is written with the
value they read if the select of the save finds another.  `pardoned`, `relocked`,
`hasty` and `dropped` are history: alerts that were open when something other than
their own review unlocked the wallet, or that a review opened again; users whose wallet
an older row locked again; alerts being cleared before their lock; users of whom a
failed call left work undone.  The first two end with the next lock.  The threshold `games * 0.7`
is exact here; in floating point it is rounded only when there are scores of
games.  No code calls the checks; they are modelled as operations of the service.
`Accounts` has the same alerts and locks once more, for one user, against the
saves of logins and administrators that may overwrite them.

**AdminDesk.**  The requests of the administrators' controller.  Those about
withdrawals and configurations and those about alerts and `users` rows read and write
different tables, and no property relates the two, so a behaviour of `AdminDesk` is one of
either module, while the other rests.  Requests that do meet in a table are in one
module: alerts, reviews and saves of the `users` row in `FraudDetection`, and once more,
with logins, in `Accounts`.

## 3. The runs

Each run checks deadlock unless the system may really stop (all calls done, a
finished game, no request wanted).

| run | question | bounds | states |
| --- | --- | --- | --- |
| WalletRequests | is the wallet right for overlapping calls, and does every call end? `TypeOK` `NoOverdraftUnraced` `PendingDebitCovered` `ConnectionsConserved` `SumsSuffice` `BalanceTracked` `EveryCallEnds` `ActsAtomically` | 2 users, 3 calls, amounts 1–2, 3 connections | 281,820 |
| MatchmakingSafety | does any interleaving lose a stake or use an undisturbed one twice? `TypeOK` `NoStakeForgotten` `UndisturbedUsedOnce` `KeepsEscrow` | 2 users, 2 joins, 1 cancel, 1 timeout run, 1 failure | 1,321,465 |
| GameConcurrent | what do overlapping messages leave of the row? `GameTypeOK` `RowCoherent` `FreshSavesFollowRules` | 2 handlers, 2 pieces and an index of none, 1 field, dice 1–2 | 1,536,890 |
| GameSerial | is one handler the game of the rules? `FollowsRules` | 1 handler, 2 pieces and an index of none, 3 fields, dice 1–3, all five operations | 119,523 |
| SettlementSafety | does settlement remember only what it paid, and pay once? `TypeOK` `SettledIsPaid` `UndisturbedPaysOnce` `RefundsPaired` | 2 handlers, 1 piece, 1 field, 1 failure or restart, cancellations until one refund | 2,924,716 |
| SettlementLive | is a completed game paid? `CompletedIsPaid` | 2 handlers, no failures | 223,018 |
| AccountsSafety | can overlapping requests lift a protection, log in twice, or make the log lie? `TypeOK` `OneLoginPerOtp` `ProtectionHolds` `LogExplainsAccount` | 2 handlers, 1 OTP, 2 devices, 1 alert | 1,556,604 |
| PlatformLive | is money conserved from the deposit to the payout, and every stake used in the end? `MoneyConserved` `StakeReturnsOnce` `StakesResolved` | 2 users, 2 joins, 1 timeout run, 1 game with 1 handler, 1 refund, no failures, commission 1 | 835,622 |
| AdminDesk | do decisions, reasons and audit log agree, and do alerts and wallet locks? `AdminTypeOK` `ReasonMeansRejected` `ValuesAudited` `DecisionAudited` `UnnamedColumnsKept` `FraudTypeOK` `CollusionTwoSided` `OpenMeansLocked` `LockedHasReason` | 3 requests, 2 administrators, 2 columns; 2 users, 2 alerts, 2 calls, tallies above, at and below the thresholds, two statuses or none | 2,077,654 |
| WalletDoubleSpend | `NoDoubleSpend` is violated | 1 user, 3 calls | – |
| MatchmakingUuidColumn | `FundedJoinAccepted` is violated | `AcceptedRef = {}` | – |
| SettlementTwice | `PaidOnce` is violated | 2 handlers, no failures | – |

Why the bounds are enough for what the runs ask: every property speaks of one
user, one stake, one game or one account at a time, and every hazard listed is
a matter of two handlers that interfere.  Three wallet calls are a credit and
two debits; three connections are enough for all three to be under way and few enough
to be held or lost altogether.  Amount 0 is left out, since it is refused by the same
step as an amount that is not covered.  Two joins, a cancel and a timeout run put an entry into the hands
of every kind of handler at once.  One field and two faces let a player win in
one move, keep the turn, or pass it; the serial run has more fields so that a
piece can move without coming home.  Three administrative requests are two that
overlap and one that changes the row under both; two alerts are what a collusion
raises, or one that is reviewed while another is open.  Of the statuses
UNDER_REVIEW and CONFIRMED are left out of `AdminDesk`, where FLAGGED stands for every
status but CLEARED, since the code tells only CLEARED from the others; the theorems
have all four.  The settlement and platform runs have one piece
and no index besides (`Index` is `Piece`): what a move without a piece does to the row
is the question of the game runs.  `PlatformLive` has one
handler for the game, because what two do to each other is the question of the
settlement runs; it is about the joins, the timeout checker and
the game drawing on one ledger.  One failure at any query shows everything a
failure can leave behind; what several do together is covered where a theorem
below states the property, since the theorems have no such bound.  `FaultLimit` and `RefundLimit` are bounds
of the models, not of the code.

**Conditional properties.**  The code has no locks, so that unconditional
versions of most properties fail.  Each passing property names exactly the
interleaving that may break it and shows that nothing else does:

* `NoOverdraftUnraced`: two debits of one user between read and insert;
* `UndisturbedUsedOnce`, `KeepsEscrow`: two handlers with the same entry in
  hand, or a failure of the handler that has it;
* `RowCoherent`: a write between the two queries of a save;
* `FreshSavesFollowRules`: a write between read and save;
* `ActsAtomically`: the users in whom `NoOverdraftUnraced` fails;
* `UndisturbedPaysOnce`: two handlers finishing at once, or a forgotten
  settlement;
* `RefundsPaired`: a cancellation between its two refunds, or failed there;
* `MoneyConserved`, `StakeReturnsOnce`: entries two handlers had in hand, two
  requests about a game at once, a request for a game that is cancelled already;
* `OneLoginPerOtp`: two logins that found the OTP before either marked it;
* `ProtectionHolds`, `LogExplainsAccount`: a save of a row read too early;
* `ReasonMeansRejected`, `DecisionAudited`: a write between the two queries of a
  save; `DecisionAudited` and `ValuesAudited` also a failure before the entry;
* `UnnamedColumnsKept`: a write between findOne and the select of the save;
* `CollusionTwoSided`: a failure between the two alerts;
* `OpenMeansLocked`: a failure, the review of another alert of the user, a save
  of a `users` row read before the lock, or a verdict that opens a cleared alert;
* `LockedHasReason`: an alert cleared between its save and its lock, or a save of
  a `users` row read before the unlock;
* `ConnectionsConserved`: a BEGIN that failed;
* `EveryCallEnds`: a pool of which every connection is lost to such a BEGIN, or
  held by a call that waits for a second one (`Starved`).

A repair of the code would have to close these cases, and no others, for the
unconditional property to hold within the bounds above.

**Fairness.**  `PlatformLive`, `SettlementLive` and `WalletRequests` assume
weak fairness of the steps of a handler that has begun: Node resumes the
continuation of a settled promise, and a query that has its connection is
answered.  The timeout checker ticks for ever (`setInterval`), and entries grow
old.  Nothing is assumed of clients: no fairness on joins, cancels or moves, and
in `PlatformLive` a game that is played on and on does not keep a join or the
timeout checker from going on.

In `WalletRequests` the step that needs a second connection is strongly fair: pg-pool
serves those who wait in the order they came, so that a call for which a connection
comes free again and again gets one.  Nothing is assumed of a first connection, nor
that a call does not fail.  Its last case is reached in the run: with three calls
that hold a connection each, or with connections lost to a failed BEGIN and the rest held,
all of them wait for ever.  The code has this deadlock at any pool size; the property shows that
a call waits for ever in no other case.

## 4. Where the documents and the code disagree

Three disagreements are runs:

* `WalletDoubleSpend` (`src/README.md:16` "Double-spend prevention"): the
  balance is read outside the transaction and without a lock.
* `MatchmakingUuidColumn` (`src/IMPLEMENTATION.md:98`): the uuid column refuses
  `'PENDING'`, so a join of a funded user fails.
* `SettlementTwice` (`src/README.md:35` "Idempotent settlement processing"):
  `settledGames` is written after the credit.

Others were met while modelling and are visible in the models; no run is spent
on them:

* a cancel or timeout releases the stake whether or not its LREM removed the
  entry, so that a stake that was matched meanwhile comes back and is played for
  (`src/IMPLEMENTATION.md:99` "BET_RELEASE: Releasing funds (timeout/cancel)");
* a deposit sent again with the same transactionId is booked again;
* `BET_RELEASE` raises `available` but does not lower `locked`, and a `BET_LOCK`
  row records a `balanceAfter` that `getBalance` does not give;
* two `tryMatch` that read the same two entries create two games of one stake;
* the timeout checker visits five fixed stakes, while any stake from 10 may join;
* two joins of one user both pass the check of his key;
* a failure between the ledger insert and LPUSH, or between LREM and the save
  of the game, leaves a stake locked that nothing will release;
* `rollDice` does not look whether the player has rolled, so he may roll again;
* overlapping messages undo moves and even a finished game (`src/README.md:30` "Game
  state persistence"): a roll that read the game before the winning move and is saved
  after it puts the game back in progress, while the gateway goes on to settle it;
* the turn is checked on the row as read, two queries before the save, so that a roll or
  a move takes effect after another message has passed the turn on (`src/README.md:28`
  "Turn enforcement"); what does hold is that a save nobody overtook follows the rules
  (`FreshSavesFollowRules`);
* an account lock that read the `users` row before a critical alert, and selects it after,
  saves the wallet unlocked again, without failure or review (`pardoned` by
  `UpdateUserRow`);
* a `BEGIN` that throws leaves its connection taken for ever, since `connect` and
  `startTransaction` stand before the `try` block; and calls that each hold a
  connection while they wait for a second one wait for ever on each other;
* an index that is none of a piece, such as an undefined one, passes the bounds check
  of `makeMove`, and the turn passes with no piece moved;
* a review may open a cleared alert again, on a wallet that nothing then locks;
* a save of an older `users` row may also lock a wallet again that a review unlocked;
* a rejection without a reason is stored without one, or keeps the reason of a
  rejection that another administrator decided at the same time;
* nothing calls `validateAndSettleGame`, `cancelGameAndRefund` or the fraud checks:
  as the code stands no game is cancelled and no alert raised;
* a restart between the winning save and the credit leaves the game unpaid;
* `validateAndSettleGame` renames the winner of a game that is already paid;
* the refund of the first player stays when the second fails, and a cancelled
  game may be cancelled and refunded again;
* `OTP_EXPIRY_MINUTES` from the environment is a string, and adding it to the
  minutes concatenates;
* `isWalletLocked` is never read by the wallet, although a critical alert is
  documented as an "Immediate wallet freeze" (`src/IMPLEMENTATION.md:141`);
* clearing one alert unlocks the wallet while another critical one is open;
* two decisions about one withdrawal can both succeed, the later one standing,
  and leave an approved withdrawal with a reason of rejection;
* the audit entry of a new configuration leaves out its rules;
* the commission an administrator sets in a configuration is read by nobody: a
  match computes it from the environment (`src/IMPLEMENTATION.md:131`
  "Configurable percentage");
* one emulator indicator contains capitals and is looked for in a text in lower
  case, so that it never matches.

## 5. What is proved

TLAPS proves the following for every value of the constants: any number of
users, joins, calls, handlers, pieces and failures.

| theorem | states | argument |
| --- | --- | --- |
| `WalletProofs!TypeCorrect` | `[](TypeOK /\ ConnectionsConserved)` | inductive together: the type of `free` needs the count of held and lost connections, whose change per step is a lemma on cardinalities |
| `WalletProofs!NoOverdraft` | `[](NoOverdraftUnraced /\ PendingDebitCovered)` | a passed check implies the cover (`ValidatedIsCovered`); an unraced user has one pending debit, so nothing takes the cover away before its insert; both are inductive with `TypeOK` |
| `WalletProofs!WalletTyped` | `[]TypeOK` | from `TypeCorrect` |
| `WalletProofs!ChecksStayGood` | `[]PendingDebitCovered` | from `NoOverdraft` |
| `WalletProofs!WalletActsAtomically` | `ActsAtomically`: `Wallet` implements `AtomicWallet` | the cover of `NoOverdraft` is the guard of the abstract transaction at the insert; every other step stutters or disputes |
| `WalletProofs!RowsTrackBalance` | `[]BalanceTracked` | a row that is committed changes the fold over the rows as it changes the account; the fold is unfolded by well-foundedness of the length of the list |
| `WalletProofs!SumsAreEnough` | `[]SumsSuffice` | the loop of `getBalance` and the sums agree on every list of rows: of the prefixes on which they differ the shortest would have a shorter one |
| `MatchmakingProofs!MatchmakingTyped` | `[]TypeOK` | inductive with `Shape`: what each step of a handler knows of the entries it holds, of the queue (an entry stands in one queue, once) and of the keys |
| `MatchmakingProofs!EscrowHolds` | `[](TypeOK /\ Shape /\ EscrowInv)` | `EscrowInv`: an undisturbed entry is in the hands of one call at most (`Sole`); it has been used if that call has passed its use, and not while it is queued (`Once`).  The uses alone are not inductive: a second use is excluded only because the entry left the queue before the first, and every path to it (queue, key, another handler's hand) is accounted for |
| `MatchmakingProofs!UndisturbedStakeUsedOnce` | `[]UndisturbedUsedOnce` | from `EscrowHolds` |
| `MatchmakingProofs!NoStakeIsForgotten` | `[]NoStakeForgotten` | while no call failed, `Kept`: a step that takes an entry out of the queue is a step of a handler that goes on to use it; and where the column refuses the reference of a lock there are no stakes |
| `MatchmakingProofs!MatchmakingKeepsEscrow` | `KeepsEscrow`: `Matchmaking` implements `StakeEscrow` | with `EscrowInv` a saved game is the abstract step of two stakes, a release that of one; all else is a lock, a dispute or a stutter |
| `PlatformProofs!PlatformHolds` | `[]PlatformInv` | `EscrowInv` of matchmaking, and `PlayInv` of the game: as long as requests do not overlap, the step of the one in progress tells what is paid and refunded (`Standing`), between two the row does (`Rest`), and what was paid is remembered (`PaidIsKnown`) |
| `PlatformProofs!StakesReturnOnce` | `[]StakeReturnsOnce` | from `PlatformInv`: an entry in a game has no refund from the queue, and in the game a payout and a refund exclude each other |
| `PlatformProofs!MoneyIsConserved` | `[]MoneyConserved` | inductive with `PlatformInv`, one lemma for each step that moves money (`LockMoney`, `SaveMoney`, `RefundMoney`, `RoundMoney`): the escrow says that the entry waited before, so that what one sum loses another gains.  The sums of the community modules are folds; `SumOfOne` (any term can be taken out) is proved from their definition by a smallest counterexample |
| `GameProofs!GameTyped` | `[]GameTypeOK` | from `RowsStayCoherent` |
| `GameProofs!RowsStayCoherent` | `[](GameTypeOK /\ RowCoherent)` | every operation maps coherent rows to coherent rows; a save writes the row in memory whole unless the row changed since its select |
| `GameProofs!FreshSavesAreMoves` | `FreshSavesFollowRules` | `FreshInv`: what a fresh handler has in memory is a successor of the stored row under the rules, and its select cannot have seen another |
| `GameProofs!TimelyGameFollowsRules` | `GameSpec /\ NoneOvertaken => FollowsRules`: `Game` implements `LudoRules` | for any number of handlers; with `FreshInv` a save that is not overtaken writes what its handler has in memory, which the rules allow to follow the stored row; every other step leaves the row alone |
| `SettlementProofs!SettledGamesArePaid` | `[]SettledIsPaid` | `PInv`: a handler at `commit` has made its credit, and no step takes a payment back |
| `SettlementProofs!UndisturbedGamesPayOnce` | `[]UndisturbedPaysOnce` | `OnceInv`: while undisturbed at most one handler finishes, and payments are made only by the handler that then commits, after which `settled` stops every later one |
| `SettlementProofs!SettlementTyped` | `[]TypeOK` | every operation of the game and of settlement yields rows and memory of the types |
| `SettlementProofs!RefundsComeInPairs` | `[]RefundsPaired` | the difference of the refunds is the number of cancellations between the two, up to those a failure or a restart ended; a lemma on cardinalities per step |
| `AccountsProofs!AccountsTyped` | `[](TypeOK /\ Slots)` | `Slots`: the step a handler has reached fixes what its slot holds; inductive with the types and with: an alert is about an account that exists |
| `AccountsProofs!OtpsLogInOnce` | `[]OneLoginPerOtp` | `OneHolder`: an uncontested OTP is in the hands of at most one handler, who has yet to answer; once it is marked nobody finds it again |
| `AccountsProofs!LogTellsTheAccount` | `[]LogExplainsAccount` | `OneSaver`: until tangled, one handler saves at a time, so that its row is stale in no column that matters, and between update and entry the account already is what the entry will say |
| `AccountsProofs!ProtectionIsLiftedOnRequest` | `ProtectionHolds` | `Intent`: what a handler will save differs from what it read by its request only; a save that is not stale writes just that |
| `AdministrationProofs!AdminTyped` | `[]AdminTypeOK` | a save of a row of one table is a row of that table, whatever columns it mixes |
| `AdministrationProofs!SavesKeepColumns` | `UnnamedColumnsKept` | `WillIsAssigned`: what a request has in memory differs from what it found by its assignment only |
| `AdministrationProofs!StoredValuesAudited` | `[]ValuesAudited` | `AllExplained`: also each value a request holds in memory was requested by it, or by a call with an entry |
| `AdministrationProofs!ReasonsMeanRejections`, `AdministrationProofs!DecisionsAreAudited` | `[]ReasonMeansRejected`, `[]DecisionAudited` | `OneDecision`: while nothing is mixed, the row is what one decision makes of it, after none or after other rejections, and each row in memory is the request's decision about a pending withdrawal |
| `FraudProofs!FraudTyped` | `[]FraudTypeOK` | inductive as it stands: what a lock or a review is about is stored, and rows are never removed |
| `FraudProofs!CollusionAlertsBoth` | `[]CollusionTwoSided` | `MirrorInv`: a call that has raised one of two alerts has the other next in `todo` |
| `FraudProofs!OpenAlertsLock` | `[]OpenMeansLocked` | `OpenInv`: a wallet is unlocked by a review, by an older row or by nothing, and each of the two pardons what else is open; so does a verdict that opens an alert again |
| `FraudProofs!LocksHaveReasons` | `[]LockedHasReason` | `ReasonInv`: the reason of a lock lasts (`Lasting`): a review that clears it has unlocked before, or was hasty; a lock without one comes from an older row |

They rest on the assumptions on the constants stated in the modules: two
distinct players and a value that is neither; at least one piece; values for
"no device", "no user" and "none" that are none of the others; positive
`Home` and `Six`; natural amounts; known call types; finitely many calls and
handlers; a positive pool; no row that is the value for "no row"; updates that
name columns of the configuration, and new configurations that have them all;
finitely many joins and users (a behaviour of any length up to now has no more);
two seats and a value that is neither; a commission below the pot, since it is a
percentage of it.

Some theorems have a hypothesis besides.  `NoStakeIsForgotten` supposes that
`referenceId` does not take the reference of a lock and refuse those of refunds.  The
code as it stands meets this, because the uuid column refuses all three (section
4), and so does a column that takes strings; were only refunds refused, they would
fail after their entry has left the queue, and a refusal is not counted in `faults`.
`TimelyGameFollowsRules` supposes `NoneOvertaken`: whenever a handler writes, the row is
still the one it read.  Any number of messages may overlap otherwise, in loads,
failures and settlements.  The code does not see to it; the hypothesis says what a
repair (a lock or a version column) would have to see to; section 4 says what happens
without it.

Only model-checked: the three liveness properties `EveryCallEnds`,
`CompletedIsPaid` and `StakesResolved`, as fairness is outside the prover's reach.
Where a proof needs an induction over data (the first entry that LREM finds, the
rows of a ledger, the terms of a sum) it supposes a counterexample and
takes a least one, with the theorem `WFMin` about well-founded relations.

## 6. Not modelled

Reading operations (histories, lists, live matches, game details) change
nothing.  JWTs and guards, the Redis client, module wiring, validation of
request bodies and the SMS service keep no state of this program.  What the
queries and indicators of the fraud checks find is an input.  How the
commission is computed is left out: what enters the ledger is the pot without
the game's `commissionAmount`, the constant `Commission` of `Platform`.

## 7. Plan

Every safety and action property of the passing runs is a theorem, `FollowsRules`
under the hypothesis given in section 5.  What would come next:

1. An abstract specification of what settlement owes the two players of a game,
   in the style of `StakeEscrow`: the pot is paid out, or both stakes are
   returned, in one step each.  `PlayInv` of `PlatformProofs` has what a proof
   that `Settlement` implements it needs.
2. Several games at a time in `Platform`.  `settledGames` and the rows are per
   game, so that the argument for one game should carry over to each; the state
   space is beyond what TLC does in minutes.
3. The hazards without a property, if the code comes to depend on them: the clock
   of an OTP, and entries at stakes the timeout checker does not visit.
