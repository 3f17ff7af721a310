------------------------------- MODULE Voice -------------------------------
(***************************************************************************)
(* The Mumble bot (src/voice-servers/mumble-bot.service): the channels it  *)
(* creates for a game, links when the game is over, and removes when       *)
(* nobody is left in them.                                                 *)
(*                                                                         *)
(* The voice server is what its channels and the people in them say it is. *)
(* Attempts to connect are made one after another.                         *)
(***************************************************************************)
EXTENDS Naturals, FiniteSets

CONSTANTS
  VoiceGames,
  NoGame,
  Speakers,     \* people on the voice server
  MaxConnects   \* bound: attempts to connect to the voice server

ASSUME VoiceAssumption ==
  /\ NoGame \notin VoiceGames
  /\ MaxConnects \in Nat

VARIABLES
  client,    \* the connection of the bot
  identity,  \* the bot's certificate is stored
  connects,
  progress,  \* whether a game is in progress
  channels,  \* the channels of a game on the voice server
  linked,    \* games whose channels are linked
  creating,  \* the channel of a game createChannels() waits for
  speaking,  \* the game whose channels a speaker is in
  sweep      \* removeOldChannels()

voiceVars == <<client, identity, connects, progress, channels, linked, creating,
               speaking, sweep>>

-----------------------------------------------------------------------------
ChannelNames == {"game", "BLU", "RED"}

\* games: channels not visited yet; step: what is awaited about the channel of
\* the game; arrived: who has entered it since its users were counted
Sweep == [games : SUBSET VoiceGames, game : VoiceGames \cup {NoGame},
          step : {"idle", "next", "read", "remove"}, over : BOOLEAN,
          arrived : SUBSET Speakers]

NoSweep == [games |-> {}, game |-> NoGame, step |-> "idle", over |-> FALSE,
            arrived |-> {}]

VoiceTypeOK ==
  /\ client \in {"none", "configured", "connecting", "connected"}
  /\ identity \in BOOLEAN
  /\ connects \in 0..MaxConnects
  /\ progress \in [VoiceGames -> {"none", "running", "over"}]
  /\ channels \in [VoiceGames -> SUBSET ChannelNames]
  /\ linked \subseteq {g \in VoiceGames : {"BLU", "RED"} \subseteq channels[g]}
  /\ creating \in [VoiceGames -> ChannelNames \cup {"nothing"}]
  /\ speaking \in [Speakers -> VoiceGames \cup {NoGame}]
  /\ sweep \in Sweep

VoiceInit ==
  /\ client = "none"
  /\ identity = FALSE
  /\ connects = 0
  /\ progress = [g \in VoiceGames |-> "none"]
  /\ channels = [g \in VoiceGames |-> {}]
  /\ linked = {}
  /\ creating = [g \in VoiceGames |-> "nothing"]
  /\ speaking = [s \in Speakers |-> NoGame]
  /\ sweep = NoSweep

In(g) == {s \in Speakers : speaking[s] = g}

-----------------------------------------------------------------------------
(* The connection *)

\* What awaits an answer of a connection that is gone fails, and is given up.
GiveUp ==
  /\ creating' = [g \in VoiceGames |-> "nothing"]
  /\ sweep' = NoSweep

\* onModuleInit(), and an admin changes the voice server: the bot connects to
\* one, or stays away if another kind of voice server is configured.
TryConnect ==
  /\ connects < MaxConnects
  /\ client \in {"none", "connected"}
  /\ connects' = connects + 1
  /\ client' \in {"none", "configured"}
  /\ GiveUp
  /\ UNCHANGED <<identity, progress, channels, linked, speaking>>

\* getCertificate(): the certificate is created by the first attempt.
GetCertificate ==
  /\ client = "configured"
  /\ identity' = TRUE
  /\ client' = "connecting"
  /\ UNCHANGED <<connects, progress, channels, linked, creating, speaking, sweep>>

Connected ==
  /\ client = "connecting"
  /\ client' \in {"connected", "none"}
  /\ UNCHANGED <<identity, connects, progress, channels, linked, creating, speaking,
                 sweep>>

LoseConnection ==
  /\ client = "connected"
  /\ client' = "none"
  /\ GiveUp
  /\ UNCHANGED <<identity, connects, progress, channels, linked, speaking>>

-----------------------------------------------------------------------------
(* The channels of a game *)

GameCreated(g) ==
  /\ progress[g] = "none"
  /\ progress' = [progress EXCEPT ![g] = "running"]
  /\ creating' = [creating EXCEPT ![g] = IF client = "connected" THEN "game" ELSE @]
  /\ UNCHANGED <<client, identity, connects, channels, linked, speaking, sweep>>

\* A subchannel of a channel that has been removed meanwhile cannot be created.
CreateChannel(g) ==
  /\ creating[g] # "nothing"
  /\ IF creating[g] = "game" \/ "game" \in channels[g]
     THEN /\ channels' = [channels EXCEPT ![g] = @ \cup {creating[g]}]
          /\ creating' = [creating EXCEPT ![g] = CASE @ = "game" -> "BLU"
                                                   [] @ = "BLU" -> "RED"
                                                   [] @ = "RED" -> "nothing"]
     ELSE /\ creating' = [creating EXCEPT ![g] = "nothing"]
          /\ UNCHANGED channels
  /\ UNCHANGED <<client, identity, connects, progress, linked, speaking, sweep>>

\* linkChannels() links the channels that are there when the game ends.
GameOver(g) ==
  /\ progress[g] = "running"
  /\ progress' = [progress EXCEPT ![g] = "over"]
  /\ linked' = IF client = "connected" /\ ChannelNames \subseteq channels[g]
               THEN linked \cup {g} ELSE linked
  /\ UNCHANGED <<client, identity, connects, channels, creating, speaking, sweep>>

\* getVoiceChannelUrl() leads a player into the channel of the game in progress;
\* whoever is on the voice server can enter it as well.
Enter(s, g) ==
  /\ speaking[s] = NoGame
  /\ channels[g] # {}
  /\ speaking' = [speaking EXCEPT ![s] = g]
  /\ sweep' = IF sweep.step = "remove" /\ sweep.game = g
              THEN [sweep EXCEPT !.arrived = @ \cup {s}] ELSE sweep
  /\ UNCHANGED <<client, identity, connects, progress, channels, linked, creating>>

Leave(s) ==
  /\ speaking[s] # NoGame
  /\ speaking' = [speaking EXCEPT ![s] = NoGame]
  /\ UNCHANGED <<client, identity, connects, progress, channels, linked, creating,
                 sweep>>

-----------------------------------------------------------------------------
(* removeOldChannels() *)

RemoveOldChannels ==
  /\ client = "connected"
  /\ sweep.step = "idle"
  /\ sweep' = [NoSweep EXCEPT !.step = "next",
                              !.games = {g \in VoiceGames : channels[g] # {}}]
  /\ UNCHANGED <<client, identity, connects, progress, channels, linked, creating,
                 speaking>>

LookUpGame(g) ==
  /\ sweep.step = "next"
  /\ g \in sweep.games
  /\ sweep' = [sweep EXCEPT !.step = "read", !.game = g, !.games = @ \ {g},
                            !.over = progress[g] = "over"]
  /\ UNCHANGED <<client, identity, connects, progress, channels, linked, creating,
                 speaking>>

NoLook(g) == [sweep EXCEPT !.step = IF sweep.games = {} THEN "idle" ELSE "next",
                           !.game = NoGame, !.over = FALSE, !.arrived = {}]

\* Mutant: the channel of a game in progress is removed when nobody is in it.
CountWhoever(g) ==
  /\ sweep.step = "read"
  /\ sweep.game = g
  /\ sweep' = IF In(g) = {} THEN [sweep EXCEPT !.step = "remove"] ELSE NoLook(g)
  /\ UNCHANGED <<client, identity, connects, progress, channels, linked, creating,
                 speaking>>

\* The game has been read: its users are counted now.
CountUsers(g) ==
  /\ sweep.step = "read"
  /\ sweep.game = g
  /\ sweep' = IF sweep.over /\ In(g) = {}
              THEN [sweep EXCEPT !.step = "remove"] ELSE NoLook(g)
  /\ UNCHANGED <<client, identity, connects, progress, channels, linked, creating,
                 speaking>>

\* Mutant: the channels stay linked.
RemoveSilently(g) ==
  /\ sweep.step = "remove"
  /\ sweep.game = g
  /\ channels' = [channels EXCEPT ![g] = {}]
  /\ speaking' = [s \in Speakers |-> IF speaking[s] = g THEN NoGame ELSE speaking[s]]
  /\ sweep' = NoLook(g)
  /\ UNCHANGED <<client, identity, connects, progress, linked, creating>>

\* Whoever has entered the channel meanwhile is thrown out of it.
RemoveChannel(g) ==
  /\ sweep.step = "remove"
  /\ sweep.game = g
  /\ channels' = [channels EXCEPT ![g] = {}]
  /\ linked' = linked \ {g}
  /\ speaking' = [s \in Speakers |-> IF speaking[s] = g THEN NoGame ELSE speaking[s]]
  /\ sweep' = NoLook(g)
  /\ UNCHANGED <<client, identity, connects, progress, creating>>

VoiceNext ==
  \/ TryConnect \/ GetCertificate \/ Connected \/ LoseConnection
  \/ RemoveOldChannels
  \/ \E g \in VoiceGames : \/ GameCreated(g) \/ CreateChannel(g) \/ GameOver(g)
                           \/ LookUpGame(g) \/ CountUsers(g) \/ RemoveChannel(g)
  \/ \E s \in Speakers : Leave(s) \/ \E g \in VoiceGames : Enter(s, g)

VoiceSpec == VoiceInit /\ [][VoiceNext]_voiceVars

-----------------------------------------------------------------------------
\* What is created for a game stays until the game is over, and then until
\* nobody is in it: the bot throws out only who has entered since it counted the
\* users of the channel, an await before it removes it
\* (mumble-bot.service.ts:176-193).
ChannelsOutliveGame ==
  [][\A g \in VoiceGames : channels[g] # {} /\ channels'[g] = {}
       => progress[g] = "over" /\ In(g) \subseteq sweep.arrived]_voiceVars

=============================================================================
