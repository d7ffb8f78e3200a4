SPECIFICATION GameSpec
CONSTANTS
  Player1 = p1
  Player2 = p2
  None = None
  Piece = {0, 1}
  Index = {0, 1, NaN}
  Home = 3
  Six = 3
  Handler = {h1}
  Op = {"start", "roll", "move", "disconnect", "reconnect"}
PROPERTY FollowsRules
CHECK_DEADLOCK FALSE
