SPECIFICATION Spec
CONSTANTS
  User = {u1, u2}
  Ticket = {t1, t2}
  Cancel = {c1}
  Sweep = {w1}
  Stake = {10}
  SweptStake = {10}
  Funds = 20
  AcceptedRef = {}
  FaultLimit = 0
  None = None
PROPERTY FundedJoinAccepted
