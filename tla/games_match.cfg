SPECIFICATION Spec
CONSTANTS
  p1 = p1
  p2 = p2
  p3 = p3
  p4 = p4
  g1 = g1
  g2 = g2
  g3 = g3
  NoPlayer = NoPlayer
  NoGame = NoGame
  Players = {p1, p2, p3}
  GameIds = {g1}
  Size = 2
  Medics = {1}
  Overlap = TRUE
  MaxSlots = 4
  MaxCrashes = 0
SYMMETRY Symmetry
CHECK_DEADLOCK FALSE
INVARIANTS
  AssignedToOwnGame
PROPERTIES
  ReplacedStaysReplaced
