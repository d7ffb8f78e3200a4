------------------------------ MODULE LedgerOps ------------------------------
(***************************************************************************)
(* The arithmetic of src/wallet/wallet.service.ts, without state.          *)
(*                                                                         *)
(* A user's ledger is a set of rows that only ever grows, and getBalance   *)
(* reads nothing of it but the amounts of the rows of each type.  An       *)
(* account is therefore the sum of the user's amounts per transaction type *)
(* (module LedgerRows checks this against the loop over the rows).         *)
(* Amounts are whole numbers of the smallest unit of the decimal(.., 2)    *)
(* columns.                                                                *)
(***************************************************************************)
EXTENDS Integers

CreditType    == {"DEPOSIT", "WIN_CREDIT", "BET_RELEASE"}
ValidatedType == {"BET_LOCK", "WITHDRAW_REQUEST"}
UncheckedType == {"WITHDRAW_SUCCESS", "PENALTY", "COMMISSION"}

TransactionType == CreditType \cup ValidatedType \cup UncheckedType

Account == [TransactionType -> Nat]
Balance == [available : Nat, locked : Nat, withdrawable : Nat, total : Nat]

EmptyAccount == [t \in TransactionType |-> 0]

(* One more row in the ledger of the account.                              *)
AddRow(a, type, amount) == [a EXCEPT ![type] = @ + amount]

Credited(a)  == a["DEPOSIT"] + a["WIN_CREDIT"] + a["BET_RELEASE"]
Validated(a) == a["BET_LOCK"] + a["WITHDRAW_REQUEST"]
Unchecked(a) == a["WITHDRAW_SUCCESS"] + a["PENALTY"] + a["COMMISSION"]

(* The two running totals of getBalance's loop, before they are clamped.   *)
RawAvailable(a) == Credited(a) - Validated(a) - Unchecked(a)
RawLocked(a)    == a["BET_LOCK"]

ClampAtZero(x) == IF x < 0 THEN 0 ELSE x

getBalance(a) ==
  [ available    |-> ClampAtZero(RawAvailable(a)),
    locked       |-> ClampAtZero(RawLocked(a)),
    withdrawable |-> ClampAtZero(RawAvailable(a)),
    total        |-> ClampAtZero(RawAvailable(a) + RawLocked(a)) ]

(* Mutant of validateTransaction: no branch for BET_LOCK.                  *)
validateWithoutLockCheck(type, amount, balance) ==
  /\ amount > 0
  /\ type = "WITHDRAW_REQUEST" => balance.withdrawable >= amount

(* Mutant of validateTransaction: a bet is compared with the total, which  *)
(* contains what is locked already.                                        *)
validateAgainstTotal(type, amount, balance) ==
  /\ amount > 0
  /\ type = "BET_LOCK" => balance.total >= amount
  /\ type = "WITHDRAW_REQUEST" => balance.withdrawable >= amount

(* validateTransaction does not throw.                                     *)
validateTransaction(type, amount, balance) ==
  /\ amount > 0
  /\ type = "BET_LOCK" => balance.available >= amount
  /\ type = "WITHDRAW_REQUEST" => balance.withdrawable >= amount

(* Mutant of balanceAfter: it starts from what is available.               *)
balanceAfterAvailable(type, amount, balance) ==
  IF type \in CreditType THEN balance.available + amount
                         ELSE balance.available - amount

(* The balanceAfter column of the row createTransaction writes.            *)
balanceAfter(type, amount, balance) ==
  IF type \in CreditType THEN balance.total + amount
                         ELSE balance.total - amount

=============================================================================
