SPECIFICATION AllSpec
CONSTANTS
  p1 = p1
  p2 = p2
  p3 = p3
  Players = {p1, p2, p3}
  Size = 2
  MaxGames = 2
  MaxConfigurations = 2
  MaxReplacements = 1
  MaxLines = 1
  Overlap = FALSE
  Hosts = {h1, h2}
  NoHost = noHost
  MaxRestarts = 1
  Reservations = {1, 2}
  NoReservation = noReservation
  MaxDeaths = 1
SYMMETRY Symmetry
CHECK_DEADLOCK FALSE
INVARIANTS
  TypesOK
  PublishedPasswordWorks
  
  
  NoticesTellStatus
  ReservationsEndWithGame
  StoredRunIsLatest
