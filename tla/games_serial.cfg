SPECIFICATION Spec
CONSTANTS
  p1 = p1
  p2 = p2
  p3 = p3
  p4 = p4
  g1 = g1
  g2 = g2
  g3 = g3
  NoPlayer = NoPlayer
  NoGame = NoGame
  Players = {p1, p2, p3, p4}
  GameIds = {g1, g2}
  Size = 2
  Medics = {1}
  Overlap = FALSE
  MaxSlots = 3
  MaxCrashes = 0
SYMMETRY Symmetry
CHECK_DEADLOCK FALSE
INVARIANTS
  PlayingIsAssigned
  OneGameAtATime
  RequestsEndWithGame
  EveryPlaceIsTaken
