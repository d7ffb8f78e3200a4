SPECIFICATION Spec
CONSTANTS
  Req = {r1, r2, r3}
  User = {u1}
  Amount = {1}
  CallType = {"DEPOSIT", "BET_LOCK"}
  PoolSize = 10
  NoCall = NoCall
INVARIANT NoDoubleSpend
CHECK_DEADLOCK FALSE
