SPECIFICATION FairSpec
CONSTANTS
  Req = {r1, r2, r3}
  User = {u1, u2}
  Amount = {1, 2}
  CallType = {"DEPOSIT", "BET_LOCK", "WITHDRAW_REQUEST", "PENALTY"}
  PoolSize = 3
  NoCall = NoCall
INVARIANTS TypeOK NoOverdraftUnraced PendingDebitCovered ConnectionsConserved SumsSuffice
PROPERTIES ActsAtomically BalanceTracked EveryCallEnds
CHECK_DEADLOCK FALSE
