SPECIFICATION FairSpec
CONSTANTS
  g1 = g1
  g2 = g2
  g3 = g3
  s1 = s1
  s2 = s2
  NoGame = NoGame
  NoServer = NoServer
  Cron = Cron
  GameIds = {g1, g2}
  ServerIds = {s1, s2}
  Overlap = FALSE
  MaxCrashes = 1
INVARIANTS
  TypeOK
  GameKeepsServer
  
PROPERTIES
  ServersComeBack
