SPECIFICATION Spec
CONSTANTS
  p1 = p1
  p2 = p2
  p3 = p3
  m1 = m1
  m2 = m2
  m3 = m3
  m4 = m4
  s1 = s1
  s2 = s2
  s3 = s3
  NoPlayer = NoPlayer
  NoMap = NoMap
  Players = {p1, p2, p3}
  Slots = {s1, s2, s3}
  MedicSlots = {s1, s2}
  Maps = {m1, m2, m3}
  MapCooldown = 1
  OptionCount = 2
  MaxScrambles = 2
SYMMETRY Symmetry
CHECK_DEADLOCK FALSE
INVARIANTS
  FriendshipsAreSound
  VotesAreCounted
  

