----------------------------- MODULE LedgerRows -----------------------------
(***************************************************************************)
(* getBalance as the loop over the rows of a user that it is.  Every other *)
(* module keeps only the sums of LedgerOps; the committed calls of module  *)
(* Wallet are the ledger's rows, and so TLC can compare what the two say   *)
(* of every short ledger.  Rows are never changed or reversed by the       *)
(* program: isReversed keeps its default.                                  *)
(***************************************************************************)
EXTENDS Wallet, SequencesExt

(* Mutant of Step: the branch of BET_LOCK forgets to raise locked.         *)
StepForgetsLocked(totals, txn) ==
  IF txn.type \in CreditType THEN [totals EXCEPT !.available = @ + txn.amount]
                             ELSE [totals EXCEPT !.available = @ - txn.amount]

(* One iteration of the loop of getBalance.                                *)
Step(totals, txn) ==
  CASE txn.type \in CreditType ->
         [totals EXCEPT !.available = @ + txn.amount]
    [] txn.type = "BET_LOCK" ->
         [totals EXCEPT !.available = @ - txn.amount, !.locked = @ + txn.amount]
    [] OTHER ->
         [totals EXCEPT !.available = @ - txn.amount]

BalanceOf(transactions) ==
  LET sum == FoldLeft(Step, [available |-> 0, locked |-> 0], transactions)
  IN  [ available    |-> ClampAtZero(sum.available),
        locked       |-> ClampAtZero(sum.locked),
        withdrawable |-> ClampAtZero(sum.available),
        total        |-> ClampAtZero(sum.available + sum.locked) ]

(* What find returns for userId = u and isReversed = false.                *)
RowsOf(u) == {r \in Req : pc[r] = "done" /\ call[r].user = u}

-----------------------------------------------------------------------------
(* The balance the loop of getBalance computes from the rows a user's      *)
(* calls wrote, in whatever order they committed, is the balance LedgerOps *)
(* computes from the sums.                                                 *)
SumsSuffice ==
  \A u \in User : \A rows \in SetToSeqs(RowsOf(u)) :
    BalanceOf([i \in DOMAIN rows |-> call[rows[i]]]) = getBalance(acc[u])

=============================================================================
