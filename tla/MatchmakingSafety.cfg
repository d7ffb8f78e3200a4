SPECIFICATION Spec
CONSTANTS
  User = {u1, u2}
  Ticket = {t1, t2}
  Cancel = {c1}
  Sweep = {w1}
  Stake = {10}
  SweptStake = {10}
  Funds = 20
  AcceptedRef = {"PENDING", "CANCELLED", "TIMEOUT"}
  FaultLimit = 1
  None = None
SYMMETRY Symmetry
INVARIANTS TypeOK NoStakeForgotten UndisturbedUsedOnce
PROPERTY KeepsEscrow
