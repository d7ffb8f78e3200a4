------------------------------- MODULE Wallet -------------------------------
(***************************************************************************)
(* WalletService.createTransaction (src/wallet/wallet.service.ts) as it    *)
(* runs for several requests at once.                                      *)
(*                                                                         *)
(* A request is one call in progress, and each await of createTransaction  *)
(* is a step boundary here: it takes a connection (Connect), opens a       *)
(* transaction on it (Start), computes the balance on a second connection, *)
(* outside that transaction, and validates (ReadBalance), and inserts the  *)
(* row and commits (Insert).  The last two may instead end in the catch    *)
(* block (Reject, Fail); the first two stand before the try, so that a     *)
(* BEGIN that fails (StartFails) never releases its connection.  Nothing   *)
(* locks the user's rows between the read and the insert.                  *)
(*                                                                         *)
(* A call that threw leaves no trace, so its slot may carry another call   *)
(* later; a call that committed keeps its slot, which bounds the ledger,   *)
(* and is the ledger row: who, which type, what amount.                    *)
(***************************************************************************)
EXTENDS LedgerOps, FiniteSets

CONSTANTS
  User,      \* users.id
  Req,       \* slots for calls of createTransaction
  Amount,    \* amounts a caller may pass
  CallType,  \* the transaction types called for
  PoolSize,  \* connections of the pg pool (10 unless configured)
  NoCall     \* the arguments of a slot that carries no call

ASSUME AmountAssumption == Amount \subseteq Nat
ASSUME CallTypeAssumption == CallType \subseteq TransactionType
ASSUME ReqAssumption == IsFiniteSet(Req)
ASSUME PoolAssumption == PoolSize \in Nat \ {0}

VARIABLES
  acc,     \* the committed ledger: an account for each user
  pc,      \* how far each call is
  call,    \* the arguments of each call
  seen,    \* the balance each call read
  free,    \* idle connections of the pool
  leaked,  \* connections taken by calls that are over and never released
  raced    \* history: users with two validated debits between read and insert

vars == <<acc, pc, call, seen, free, leaked, raced>>

Call == [user : User, type : CallType, amount : Amount]

(* pc = "new": no call in the slot.  "connected": a connection is held.    *)
(* "open": its transaction is open.  "valid": the balance was read and     *)
(* validated.                                                              *)
Begun == {"connected", "open", "valid"}
Holding == {r \in Req : pc[r] \in Begun}

ZeroBalance == [available |-> 0, locked |-> 0, withdrawable |-> 0, total |-> 0]

Init ==
  /\ acc = [u \in User |-> EmptyAccount]
  /\ pc = [r \in Req |-> "new"]
  /\ call = [r \in Req |-> NoCall]
  /\ seen = [r \in Req |-> ZeroBalance]
  /\ free = PoolSize
  /\ leaked = 0
  /\ raced = {}

-----------------------------------------------------------------------------
(* connect(): waits for an idle connection.                                *)
Connect(r) ==
  /\ pc[r] = "new"
  /\ free > 0
  /\ \E c \in Call : call' = [call EXCEPT ![r] = c]
  /\ pc' = [pc EXCEPT ![r] = "connected"]
  /\ free' = free - 1
  /\ UNCHANGED <<acc, seen, leaked, raced>>

(* startTransaction(): BEGIN on that connection.                           *)
Start(r) ==
  /\ pc[r] = "connected"
  /\ pc' = [pc EXCEPT ![r] = "open"]
  /\ UNCHANGED <<acc, call, seen, free, leaked, raced>>

(* BEGIN throws: the try block, and with it the finally block that         *)
(* releases the connection, has not been entered.                          *)
StartFails(r) ==
  /\ pc[r] = "connected"
  /\ pc' = [pc EXCEPT ![r] = "new"]
  /\ call' = [call EXCEPT ![r] = NoCall]
  /\ leaked' = leaked + 1
  /\ UNCHANGED <<acc, seen, free, raced>>

(* The validated debits of u that have read the balance and not yet        *)
(* written their row.                                                      *)
PendingDebits(u) ==
  {r \in Req : /\ pc[r] = "valid"
               /\ call[r].user = u
               /\ call[r].type \in ValidatedType}

(* getBalance goes through ledgerRepository, so it needs an idle           *)
(* connection next to the one the call holds, and gives it back at once.   *)
ReadBalance(r) ==
  /\ pc[r] = "open"
  /\ free > 0
  /\ LET u == call[r].user
         b == getBalance(acc[u])
     IN  /\ validateTransaction(call[r].type, call[r].amount, b)
         /\ seen' = [seen EXCEPT ![r] = b]
         /\ raced' = IF call[r].type \in ValidatedType /\ PendingDebits(u) # {}
                       THEN raced \cup {u} ELSE raced
  /\ pc' = [pc EXCEPT ![r] = "valid"]
  /\ UNCHANGED <<acc, call, free, leaked>>

(* Mutants of RollBack: release() is not in a finally block and a throw    *)
(* skips it, or it is in both blocks.                                      *)
RollBackLeaks(r) ==
  /\ pc' = [pc EXCEPT ![r] = "new"]
  /\ call' = [call EXCEPT ![r] = NoCall]
  /\ seen' = [seen EXCEPT ![r] = ZeroBalance]
  /\ free' = free
  /\ UNCHANGED <<acc, leaked, raced>>

RollBackReleasesTwice(r) ==
  /\ pc' = [pc EXCEPT ![r] = "new"]
  /\ call' = [call EXCEPT ![r] = NoCall]
  /\ seen' = [seen EXCEPT ![r] = ZeroBalance]
  /\ free' = free + 2
  /\ UNCHANGED <<acc, leaked, raced>>

(* The catch and finally blocks: roll back, release the connection.        *)
RollBack(r) ==
  /\ pc' = [pc EXCEPT ![r] = "new"]
  /\ call' = [call EXCEPT ![r] = NoCall]
  /\ seen' = [seen EXCEPT ![r] = ZeroBalance]
  /\ free' = free + 1
  /\ UNCHANGED <<acc, leaked, raced>>

(* validateTransaction throws.                                             *)
Reject(r) ==
  /\ pc[r] = "open"
  /\ free > 0
  /\ ~ validateTransaction(call[r].type, call[r].amount,
                           getBalance(acc[call[r].user]))
  /\ RollBack(r)

(* A query in the try block fails.                                         *)
Fail(r) ==
  /\ pc[r] \in {"open", "valid"}
  /\ RollBack(r)

(* save, commitTransaction and the finally block.                          *)
Insert(r) ==
  /\ pc[r] = "valid"
  /\ acc' = [acc EXCEPT ![call[r].user] =
               AddRow(@, call[r].type, call[r].amount)]
  /\ pc' = [pc EXCEPT ![r] = "done"]
  /\ seen' = [seen EXCEPT ![r] = ZeroBalance]
  /\ free' = free + 1
  /\ UNCHANGED <<call, leaked, raced>>

(* The process dies: open transactions roll back, the pool is rebuilt.     *)
Crash ==
  /\ Holding # {} \/ leaked > 0
  /\ pc' = [r \in Req |-> IF r \in Holding THEN "new" ELSE pc[r]]
  /\ call' = [r \in Req |-> IF r \in Holding THEN NoCall ELSE call[r]]
  /\ seen' = [r \in Req |-> ZeroBalance]
  /\ free' = PoolSize
  /\ leaked' = 0
  /\ UNCHANGED <<acc, raced>>

Next ==
  \/ \E r \in Req : \/ Connect(r)
                    \/ Start(r)
                    \/ StartFails(r)
                    \/ ReadBalance(r)
                    \/ Reject(r)
                    \/ Fail(r)
                    \/ Insert(r)
  \/ Crash

(* Node runs the continuation of a settled promise, and a query that has a *)
(* connection is answered.  The query of getBalance has to wait for one:   *)
(* the pool serves those who wait in the order they came, so that a call   *)
(* for which a connection comes free again and again gets one.             *)
Fairness ==
  \A r \in Req : /\ WF_vars(Start(r) \/ StartFails(r))
                 /\ SF_vars(ReadBalance(r) \/ Reject(r))
                 /\ WF_vars(Insert(r))

Spec == Init /\ [][Next]_vars
FairSpec == Spec /\ Fairness

-----------------------------------------------------------------------------
(* The types of the wallet: ledgers never shrink below zero, a call in     *)
(* progress has its arguments, and the pool never has more idle            *)
(* connections than it was made with.                                      *)
TypeOK ==
  /\ acc \in [User -> Account]
  /\ pc \in [Req -> {"new", "done"} \cup Begun]
  /\ call \in [Req -> Call \cup {NoCall}]
  /\ \A r \in Req : pc[r] # "new" => call[r] \in Call
  /\ seen \in [Req -> Balance]
  /\ free \in 0 .. PoolSize
  /\ leaked \in Nat
  /\ raced \subseteq User

(* A connection is idle, held by a call in progress, or lost to a BEGIN    *)
(* that failed before the try: every other path out of createTransaction,  *)
(* the throwing ones and the crash included, gives back what it took, and  *)
(* gives it back once.                                                     *)
ConnectionsConserved == free + Cardinality(Holding) + leaked = PoolSize

(* What the validated debits of an account leave of its credits.           *)
Cover(a) == Credited(a) - Validated(a)

(* BET_LOCK and WITHDRAW_REQUEST rows of a user never exceed his credits   *)
(* as long as no two such calls of his were between read and insert at     *)
(* once, whatever credits, unchecked debits, failures and crashes happen   *)
(* in between: the unlocked read of createTransaction is harmless but for  *)
(* that one interleaving.                                                  *)
NoOverdraftUnraced == \A u \in User \ raced : Cover(acc[u]) >= 0

(* Why: a check that passed stays good until the row is written.  A user   *)
(* who has not raced has at most one debit between read and insert, and    *)
(* what he has still covers it.                                            *)
PendingDebitCovered ==
  \A u \in User \ raced : \A r \in PendingDebits(u) :
    /\ PendingDebits(u) = {r}
    /\ Cover(acc[u]) >= call[r].amount

Atomic == INSTANCE AtomicWallet WITH
  book <- [u \in User |-> IF u \in raced THEN EmptyAccount ELSE acc[u]],
  disputed <- raced

(* For users whose debits did not race, the awaits of createTransaction    *)
(* cannot be seen: every call that commits is one step of a wallet that    *)
(* checks at the moment it writes.                                         *)
ActsAtomically == Atomic!Spec

(* A row records the balance it leaves behind (IMPLEMENTATION.md:56        *)
(* "Balance tracking after each transaction"), if the balance its call     *)
(* read is still up to date and not below zero, where getBalance clamps    *)
(* it.  BET_LOCK rows do not: they record a total lowered by the stake,    *)
(* while getBalance counts a locked stake in the total.                    *)
BalanceTracked ==
  [][\A r \in Req : LET c == call[r]
                        after == RawAvailable(acc'[c.user]) + RawLocked(acc'[c.user])
                    IN  ( /\ pc[r] = "valid" /\ pc'[r] = "done"
                          /\ c.type # "BET_LOCK"
                          /\ seen[r] = getBalance(acc[c.user])
                          /\ RawAvailable(acc[c.user]) >= 0 )
                          => balanceAfter(c.type, c.amount, seen[r]) = after]_vars

(* Every connection is lost to a BEGIN that failed, or held by a call that *)
(* waits for a second one.                                                 *)
Starved == leaked + Cardinality({r \in Req : pc[r] = "open"}) = PoolSize

(* A call that holds a connection ends, or the whole pool is starved: no   *)
(* call waits for ever on calls that could go on.                          *)
EveryCallEnds == \A r \in Req : pc[r] \in Begun ~> pc[r] \notin Begun \/ Starved

-----------------------------------------------------------------------------
(* README.md:16 "Double-spend prevention": the same funds are not locked   *)
(* or withdrawn twice.                                                     *)
NoDoubleSpend == \A u \in User : Cover(acc[u]) >= 0

=============================================================================
