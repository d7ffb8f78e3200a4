SPECIFICATION GameSpec
CONSTANTS
  Player1 = p1
  Player2 = p2
  None = None
  Piece = {0, 1}
  Index = {0, 1, NaN}
  Home = 1
  Six = 2
  Handler = {h1, h2}
  Op = {"start", "roll", "move"}
SYMMETRY Symmetry
INVARIANTS GameTypeOK RowCoherent
PROPERTY FreshSavesFollowRules
CHECK_DEADLOCK FALSE
