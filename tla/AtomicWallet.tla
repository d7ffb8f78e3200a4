---------------------------- MODULE AtomicWallet ----------------------------
(***************************************************************************)
(* What callers of WalletService rely on: a call of createTransaction is   *)
(* one step, and the row of a bet or a withdrawal request is written only  *)
(* if what earlier ones left of the credits covers it                      *)
(* (src/wallet/wallet.service.ts).  Nothing is promised of the book of a   *)
(* user once it is disputed.                                               *)
(***************************************************************************)
EXTENDS LedgerOps

CONSTANTS User, Amount, CallType

VARIABLES
  book,     \* an account for each user
  disputed  \* users whose book is in dispute

bookVars == <<book, disputed>>

Init == book = [u \in User |-> EmptyAccount] /\ disputed = {}

Transaction(u, type, n) ==
  /\ u \notin disputed
  /\ type \in ValidatedType => n <= Credited(book[u]) - Validated(book[u])
  /\ book' = [book EXCEPT ![u] = AddRow(@, type, n)]
  /\ UNCHANGED disputed

Dispute(u) ==
  /\ disputed' = disputed \cup {u}
  /\ book' = [book EXCEPT ![u] = EmptyAccount]

Next ==
  \E u \in User : \/ \E type \in CallType, n \in Amount : Transaction(u, type, n)
                  \/ Dispute(u)

Spec == Init /\ [][Next]_bookVars

=============================================================================
