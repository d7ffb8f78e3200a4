SPECIFICATION PlatformSpec
CONSTANTS
  None = None
  User = {u1, u2}
  Ticket = {t1, t2}
  Cancel = {}
  Sweep = {w1}
  Stake = {1}
  SweptStake = {1}
  Funds = 1
  AcceptedRef = {"PENDING", "CANCELLED", "TIMEOUT"}
  FaultLimit = 0
  First = first
  Second = second
  NoSeat = NoSeat
  Piece = {0}
  Index = {0}
  Home = 1
  Six = 2
  Handler = {h1}
  Op = {"start", "roll", "move", "cancel"}
  RefundLimit = 1
  PlayFaultLimit = 0
  Commission <- OneCoin
INVARIANTS MoneyConserved StakeReturnsOnce
PROPERTY StakesResolved
CHECK_DEADLOCK FALSE
