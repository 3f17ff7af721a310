SPECIFICATION AllSpec
CONSTANTS
  NoPlayer = noPlayer
  Players = {p1, p2}
  BanIds = {1}
  Timeout = 1
  MaxSockets = 2
  MaxMessages = 1
  MaxCrashes = 1
  Overlap = FALSE
  SteamIds = {s1, s2}
  SuperUser = s1
  Requests = {1, 2}
  MaxSessions = 2
  MaxRefreshes = 2
  MaxStarts = 2
  VoiceGames = {g1, g2}
  NoGame = noGame
  Speakers = {u1, u2}
  MaxConnects = 2
  MaxPlayers = 2
  Threshold = 1
  PromptIds = {1, 2}
  Refreshes = {1, 2}
  MaxEdits = 1
  Streamers = {t1}
  PromotedStreams = {t1}
  Polls = {1, 2}
  MaxLinks = 2
  Deeds = {1, 2}
CHECK_DEADLOCK FALSE
INVARIANTS
  TypesOK
  AwayPlayersAreOut
  BannedPlayersAreOut
  ProfileShowsBans
  SessionsGoOn
  PromptShowsQueue
  NoBannedStreams
  ChangesAreNoticed
PROPERTY
  ChannelsOutliveGame
