SPECIFICATION Spec
CONSTANTS
  Player1 = p1
  Player2 = p2
  None = None
  Piece = {0}
  Index = {0}
  Home = 1
  Six = 2
  Handler = {h1, h2}
  Op = {"start", "roll", "move", "validate", "cancel"}
  RefundLimit = 1
  FaultLimit = 1
SYMMETRY Symmetry
INVARIANTS TypeOK SettledIsPaid UndisturbedPaysOnce RefundsPaired
CHECK_DEADLOCK FALSE
