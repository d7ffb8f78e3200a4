SPECIFICATION Spec
CONSTANTS
  Player1 = p1
  Player2 = p2
  None = None
  Piece = {0}
  Index = {0}
  Home = 1
  Six = 2
  Handler = {h1, h2}
  Op = {"start", "roll", "move"}
  RefundLimit = 2
  FaultLimit = 0
INVARIANT PaidOnce
CHECK_DEADLOCK FALSE
