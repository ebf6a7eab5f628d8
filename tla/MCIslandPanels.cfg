SPECIFICATION PanelsSpec
CONSTANTS
  g1 = g1
  g2 = g2
  Guests = {g1, g2}
  Pasts <- MCPasts
  Admin = Admin
  Nobody = Nobody
  Activities = {a1}
  Capacity = 1
  DailyStock = 1
  p1 = p1
  p2 = p2
  Parrots = {p1, p2}
  Messages = {"rude"}
  MaxTurns = 2
  MaxPosts = 2
  MaxUpsets = 1
  MaxVisits = 3
SYMMETRY MCSymmetry
INVARIANTS
  CardTruthful
  SettledTruth
  ChatTruthful
CHECK_DEADLOCK FALSE
