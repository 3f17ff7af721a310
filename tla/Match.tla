------------------------------- MODULE Match -------------------------------
(***************************************************************************)
(* A game server from one match to the next: how it is configured, whom it *)
(* lets in, and what its log tells (src/games/services, src/log-receiver). *)
(*                                                                         *)
(* The games are played one after the other on one server.  What is sent   *)
(* over rcon is a change of the server, what runs on the server external.  *)
(* How a server is found, released and cleaned is in Servers, who replaces *)
(* whom in Games: here these are single steps.                             *)
(*                                                                         *)
(* Overlap = FALSE assumes that a server is configured once at a time, by  *)
(* an admin for a game in progress whose launch got so far as to give the  *)
(* server a log secret; that players are replaced one after another; and   *)
(* that both are done before the server is cleaned.                        *)
(***************************************************************************)
EXTENDS Naturals, FiniteSets

CONSTANTS
  Players,
  Size,               \* how many players a game needs
  MaxGames,           \* bound: games played
  MaxConfigurations,  \* bound: passwords set
  MaxReplacements,    \* bound: how often a player is replaced
  MaxLines,           \* bound: log lines on the way, and being handled
  Overlap             \* see above

ASSUME MatchAssumption ==
  /\ {Size, MaxGames, MaxConfigurations, MaxLines} \subseteq Nat \ {0}
  /\ MaxReplacements \in Nat
  /\ Overlap \in BOOLEAN

VARIABLES
  games,       \* the games collection
  server,      \* what the server was told, and the game it is assigned to
  configs,     \* configureServer() on behalf of launch() and of an admin
  passwords,   \* how many were generated
  replacings,  \* GameRuntimeService.replacePlayer() calls in progress
  failed,      \* players whose replacement did not reach the server
  replaced,    \* how many players were replaced
  raced,       \* players replaced while a configuration was about to add them
  lines,       \* log lines on the way to the log receiver
  handlings    \* lines whose game was found

vars == <<games, server, configs, passwords, replacings, failed, replaced,
          raced, lines, handlings>>

-----------------------------------------------------------------------------
GameIds == 1..MaxGames

NoGame == 0

\* Nobody knows a password that was not published.
NoPassword == 0

\* slots are the players of activeSlots(), toldBy the games whose log lines changed
\* this one.  Secrets are told apart by the game they were generated for.
Game == [state : {"none", "launching", "started", "over"}, slots : SUBSET Players,
         connectString : 0..MaxConfigurations, logSecret : GameIds \cup {NoGame},
         gameServer : BOOLEAN, toldBy : SUBSET GameIds]

NotCreated == [state |-> "none", slots |-> {}, connectString |-> NoPassword,
               logSecret |-> NoGame, gameServer |-> FALSE, toldBy |-> {}]

InProgress(g) == g # NoGame /\ games[g].state \in {"launching", "started"}

Server == [game : GameIds \cup {NoGame}, password : 0..MaxConfigurations,
           players : SUBSET Players, logSecret : GameIds \cup {NoGame},
           logAddress : BOOLEAN]

NewServer == [game |-> NoGame, password |-> NoPassword, players |-> {},
              logSecret |-> NoGame, logAddress |-> FALSE]

\* step is what is done next; slots are those of the game as it was read.
Config == [step : {"idle", "assign", "secret", "logSecret", "clear", "read", "log",
                   "map", "password", "players", "store"},
           game : GameIds \cup {NoGame}, slots : SUBSET Players,
           password : 0..MaxConfigurations]

NoConfig == [step |-> "idle", game |-> NoGame, slots |-> {}, password |-> NoPassword]

Replacing == [game : GameIds, in : Players, out : Players, step : {"add", "del"}]

GameEvent == {"match started", "match ended", "report"}

Line == [event : GameEvent, secret : GameIds \cup {NoGame}, told : GameIds]

Handling == [event : GameEvent, game : GameIds, told : GameIds]

TypeOK ==
  /\ games \in [GameIds -> Game]
  /\ server \in Server
  /\ \A g \in GameIds : server.game = g => games[g].gameServer
  /\ configs \in [{"launch", "admin"} -> Config]
  /\ \A by \in {"launch", "admin"} :
       configs[by].step = "idle" <=> configs[by].game = NoGame
  /\ passwords \in 0..MaxConfigurations
  /\ replacings \in SUBSET Replacing
  /\ {failed, raced} \subseteq SUBSET Players
  /\ replaced \in 0..MaxReplacements
  /\ lines \in SUBSET Line
  /\ handlings \in SUBSET Handling

Init ==
  /\ games = [g \in GameIds |-> NotCreated]
  /\ server = NewServer
  /\ configs = [by \in {"launch", "admin"} |-> NoConfig]
  /\ passwords = 0
  /\ replacings = {}
  /\ failed = {}
  /\ replaced = 0
  /\ raced = {}
  /\ lines = {}
  /\ handlings = {}

-----------------------------------------------------------------------------
Configuring(g) == \E by \in DOMAIN configs : configs[by].game = g

Replaced(g) == \E r \in replacings : r.game = g

Quiet(g) == ~Configuring(g) /\ ~Replaced(g)

\* The server is free, so the game launches on it; games are numbered in order.
CreateGame(g) ==
  /\ games[g].state = "none"
  /\ \A h \in GameIds : h < g => games[h].state = "over"
  /\ server.game = NoGame
  /\ configs["launch"] = NoConfig
  /\ \E slots \in SUBSET Players :
       /\ Cardinality(slots) = Size
       /\ games' = [games EXCEPT ![g].state = "launching", ![g].slots = slots]
  /\ configs' = [configs EXCEPT !["launch"] = [NoConfig EXCEPT !.step = "assign",
                                                               !.game = g]]
  /\ UNCHANGED <<server, passwords, replacings, failed, replaced, raced, lines,
                 handlings>>

\* The call goes on.
Go(by, step) == configs' = [configs EXCEPT ![by].step = step]

\* Mutant: the game is not told which server it has.
AssignServerOnly(g) ==
  /\ configs["launch"].step = "assign"
  /\ configs["launch"].game = g
  /\ server' = [server EXCEPT !.game = g]
  /\ Go("launch", "secret")
  /\ UNCHANGED <<games, passwords, replacings, failed, replaced, raced, lines,
                 handlings>>

AssignGameServer(g) ==
  /\ configs["launch"].step = "assign"
  /\ configs["launch"].game = g
  /\ server' = [server EXCEPT !.game = g]
  /\ games' = [games EXCEPT ![g].gameServer = TRUE]
  /\ Go("launch", "secret")
  /\ UNCHANGED <<passwords, replacings, failed, replaced, raced, lines, handlings>>
\* Mutant: a server keeps the secret it has.
KeepLogsecret(g) ==
  /\ configs["launch"].step = "secret"
  /\ configs["launch"].game = g
  /\ server' = [server EXCEPT !.logSecret = IF @ = NoGame THEN g ELSE @]
  /\ Go("launch", "logSecret")
  /\ UNCHANGED <<games, passwords, replacings, failed, replaced, raced, lines,
                 handlings>>

GetLogsecret(g) ==
  /\ configs["launch"].step = "secret"
  /\ configs["launch"].game = g
  /\ server' = [server EXCEPT !.logSecret = g]
  /\ Go("launch", "logSecret")
  /\ UNCHANGED <<games, passwords, replacings, failed, replaced, raced, lines,
                 handlings>>

StoreLogSecret(g) ==
  /\ configs["launch"].step = "logSecret"
  /\ configs["launch"].game = g
  /\ games' = [games EXCEPT ![g].logSecret = server.logSecret]
  /\ Go("launch", "read")
  /\ UNCHANGED <<server, passwords, replacings, failed, replaced, raced, lines,
                 handlings>>

\* An admin's reconfigure() only looks whether the game has a server.
Reconfigure(g) ==
  /\ games[g].gameServer
  /\ configs["admin"] = NoConfig
  /\ Overlap \/ (~Configuring(g) /\ InProgress(g) /\ games[g].logSecret # NoGame)
  /\ passwords < MaxConfigurations
  /\ configs' = [configs EXCEPT !["admin"] = [NoConfig EXCEPT !.step = "clear",
                                                              !.game = g]]
  /\ UNCHANGED <<games, server, passwords, replacings, failed, replaced, raced,
                 lines, handlings>>
\* Mutant: the connect strings stay until they are replaced.
KeepConnectString ==
  /\ configs["admin"].step = "clear"
  /\ Go("admin", "read")
  /\ UNCHANGED <<games, server, passwords, replacings, failed, replaced, raced,
                 lines, handlings>>

ClearConnectString ==
  /\ configs["admin"].step = "clear"
  /\ games' = [games EXCEPT ![configs["admin"].game].connectString = NoPassword]
  /\ Go("admin", "read")
  /\ UNCHANGED <<server, passwords, replacings, failed, replaced, raced, raced,
                 lines, handlings>>

-----------------------------------------------------------------------------
(* configureServer() *)

ReadGame(by) ==
  /\ configs[by].step = "read"
  /\ configs' = [configs EXCEPT ![by].step = "log",
                                ![by].slots = games[configs[by].game].slots]
  /\ UNCHANGED <<games, server, passwords, replacings, failed, replaced, raced,
                 lines, handlings>>

\* start(), rcon(), logaddress_add.
AddLogAddress(by) ==
  /\ configs[by].step = "log"
  /\ server' = [server EXCEPT !.logAddress = TRUE]
  /\ Go(by, "map")
  /\ UNCHANGED <<games, passwords, replacings, failed, replaced, raced, lines,
                 handlings>>

\* kickall, changelevel, ten seconds, the config lines, exec and tftrue_whitelist_id.
ChangeMap(by) ==
  /\ configs[by].step = "map"
  /\ Go(by, "password")
  /\ UNCHANGED <<games, server, passwords, replacings, failed, replaced, raced,
                 lines, handlings>>

SetPassword(by) ==
  /\ configs[by].step = "password"
  /\ passwords < MaxConfigurations
  /\ passwords' = passwords + 1
  /\ server' = [server EXCEPT !.password = passwords']
  /\ configs' = [configs EXCEPT ![by].step = "players", ![by].password = passwords']
  /\ UNCHANGED <<games, replacings, failed, replaced, raced, lines, handlings>>

\* sm_game_player_add
AddPlayer(by, p) ==
  /\ configs[by].step = "players"
  /\ p \in configs[by].slots
  /\ server' = [server EXCEPT !.players = @ \cup {p}]
  /\ failed' = failed \ {p}
  /\ configs' = [configs EXCEPT ![by].slots = @ \ {p}]
  /\ UNCHANGED <<games, passwords, replacings, replaced, raced, lines, handlings>>
\* sm_game_player_whitelist, logstf_title, tv_port and tv_password.
AnswerConfigured(by) ==
  /\ configs[by].step = "players"
  /\ configs[by].slots = {}
  /\ Go(by, "store")
  /\ UNCHANGED <<games, server, passwords, replacings, failed, replaced, raced,
                 lines, handlings>>

StoreConnectString(by) ==
  /\ configs[by].step = "store"
  /\ games' = [games EXCEPT ![configs[by].game].connectString = configs[by].password]
  /\ configs' = [configs EXCEPT ![by] = NoConfig]
  /\ UNCHANGED <<server, passwords, replacings, failed, replaced, raced, lines,
                 handlings>>

\* launch() and reconfigure() log the error.
ConfigurationFails(by) ==
  /\ configs[by].step \in {"secret", "log", "map", "password", "players"}
  /\ configs' = [configs EXCEPT ![by] = NoConfig]
  /\ UNCHANGED <<games, server, passwords, replacings, failed, replaced, raced,
                 raced, lines, handlings>>

-----------------------------------------------------------------------------
(* Substitutes *)

\* Once the game is stored, nobody waits for the server to be told.
ReplacePlayer(g, out, in) ==
  /\ InProgress(g)
  /\ out \in games[g].slots
  /\ in \notin games[g].slots
  /\ Overlap \/ ~Replaced(g)
  /\ replaced < MaxReplacements
  /\ replaced' = replaced + 1
  /\ games' = [games EXCEPT ![g].slots = (@ \ {out}) \cup {in}]
  /\ replacings' = IF games[g].gameServer
                   THEN replacings \cup {[game |-> g, in |-> in, out |-> out,
                                          step |-> "add"]}
                   ELSE replacings
  /\ raced' = IF \E by \in DOMAIN configs :
                     configs[by].game = g /\ out \in configs[by].slots
              THEN raced \cup {out} ELSE raced
  /\ UNCHANGED <<server, configs, passwords, failed, lines, handlings>>

AddReplacement(r) ==
  /\ r \in replacings
  /\ r.step = "add"
  /\ server' = [server EXCEPT !.players = @ \cup {r.in}]
  /\ failed' = failed \ {r.in}
  /\ replacings' = (replacings \ {r}) \cup {[r EXCEPT !.step = "del"]}
  /\ UNCHANGED <<games, configs, passwords, replaced, raced, lines, handlings>>
\* Mutant: the player who is deleted is the one who was added.
DelReplacement(r) ==
  /\ r \in replacings
  /\ r.step = "del"
  /\ server' = [server EXCEPT !.players = @ \ {r.in}]
  /\ replacings' = replacings \ {r}
  /\ UNCHANGED <<games, configs, passwords, failed, replaced, raced, lines, handlings>>

DelReplacee(r) ==
  /\ r \in replacings
  /\ r.step = "del"
  /\ server' = [server EXCEPT !.players = @ \ {r.out}]
  /\ failed' = failed \ {r.out}
  /\ replacings' = replacings \ {r}
  /\ UNCHANGED <<games, configs, passwords, replaced, raced, lines, handlings>>

\* The error is logged.
ReplacingFails(r) ==
  /\ r \in replacings
  /\ failed' = failed \cup (IF r.step = "add" THEN {r.in, r.out} ELSE {r.out})
  /\ replacings' = replacings \ {r}
  /\ UNCHANGED <<games, server, configs, passwords, replaced, raced, lines, handlings>>

-----------------------------------------------------------------------------
(* The log, over UDP *)

\* A server keeps what it was told until it is cleaned.
SendLine(event) ==
  /\ server.game # NoGame
  /\ server.logAddress
  /\ Cardinality(lines) < MaxLines
  /\ lines' = lines \cup {[event |-> event, secret |-> server.logSecret,
                           told |-> server.game]}
  /\ UNCHANGED <<games, server, configs, passwords, replacings, failed, replaced,
                 raced, handlings>>

LoseLine(line) ==
  /\ line \in lines
  /\ lines' = lines \ {line}
  /\ UNCHANGED <<games, server, configs, passwords, replacings, failed, replaced,
                 raced, handlings>>

WithoutSecret == {g \in GameIds : games[g].logSecret = NoGame}

\* testForGameEvent(); the line may arrive once more.
ReceiveLine(line, again) ==
  /\ line \in lines
  /\ Cardinality(handlings) < MaxLines
  /\ lines' = IF again THEN lines ELSE lines \ {line}
  /\ handlings' = handlings \cup
       {[event |-> line.event, game |-> g, told |-> line.told] :
          g \in {h \in GameIds : games[h].logSecret = line.secret} \ WithoutSecret}
  /\ UNCHANGED <<games, server, configs, passwords, replacings, failed, replaced,
                 raced>>

Told(h, state) ==
  games' = [games EXCEPT ![h.game].state = state, ![h.game].toldBy = @ \cup {h.told}]

StateBefore(event) == IF event = "match started" THEN "launching" ELSE "started"

\* The handlers of GameEventHandlerService; their writes match the game's state.
HandleLine(h) ==
  /\ h \in handlings
  /\ handlings' = handlings \ {h}
  /\ \/ /\ h.event = "match started"
        /\ games[h.game].state = "launching"
        /\ Told(h, "started")
     \/ /\ h.event = "match ended"
        /\ games[h.game].state = StateBefore(h.event)
        /\ Told(h, "over")
     \/ /\ h.event = "report"
        /\ Told(h, games[h.game].state)
     \/ /\ h.event \in {"match started", "match ended"}
        /\ games[h.game].state # StateBefore(h.event)
        /\ UNCHANGED games
  /\ UNCHANGED <<server, configs, passwords, replacings, failed, replaced, raced,
                 lines>>

ForceEnd(g) ==
  /\ InProgress(g)
  /\ games' = [games EXCEPT ![g].state = "over"]
  /\ UNCHANGED <<server, configs, passwords, replacings, failed, replaced, raced,
                 lines, handlings>>
\* The server is released and cleaned: the log address, the players and the whitelist.
\* It keeps its password and its log secret.
CleanUp ==
  /\ server.game # NoGame
  /\ games[server.game].state = "over"
  /\ Overlap \/ Quiet(server.game)
  /\ server' = [server EXCEPT !.game = NoGame, !.logAddress = FALSE, !.players = {}]
  /\ failed' = {}
  /\ raced' = {}
  /\ UNCHANGED <<games, configs, passwords, replacings, replaced, lines, handlings>>

Next ==
  \/ \E g \in GameIds :
       \/ CreateGame(g)
       \/ AssignGameServer(g)
       \/ GetLogsecret(g)
       \/ StoreLogSecret(g)
       \/ Reconfigure(g)
       \/ ForceEnd(g)
       \/ \E in, out \in Players : ReplacePlayer(g, out, in)
  \/ ClearConnectString
  \/ \E by \in {"launch", "admin"} :
       \/ ReadGame(by)
       \/ AddLogAddress(by)
       \/ ChangeMap(by)
       \/ SetPassword(by)
       \/ \E p \in Players : AddPlayer(by, p)
       \/ AnswerConfigured(by)
       \/ StoreConnectString(by)
       \/ ConfigurationFails(by)
  \/ \E r \in replacings :
       \/ AddReplacement(r)
       \/ DelReplacee(r)
       \/ ReplacingFails(r)
  \/ \E event \in GameEvent : SendLine(event)
  \/ \E line \in lines : LoseLine(line)
  \/ \E line \in lines, again \in BOOLEAN : ReceiveLine(line, again)
  \/ \E h \in handlings : HandleLine(h)
  \/ CleanUp

Spec == Init /\ [][Next]_vars

-----------------------------------------------------------------------------
\* Whoever reads the connect string of a game has the password of its server: it is
\* withdrawn before the server gets another one, and not published unless the
\* configuration has come to its end.
PublishedPasswordWorks ==
  \A g \in GameIds :
    server.game = g /\ games[g].connectString # NoPassword
      => games[g].connectString = server.password

\* When the connect string of a game is out and nobody is being replaced, the server
\* lets in the players of the game, substitutes too, and nobody else: neither those who
\* were replaced nor those of the game before.  Left out are those it was not told of
\* because rcon failed, and a player replaced while a configuration that has read him in
\* the game is still to add him (server-configurator.service.ts:108-117).
PlayersAreLetIn ==
  \A g \in GameIds :
    server.game = g /\ games[g].connectString # NoPassword /\ Quiet(g)
      => server.players \ (failed \cup raced) = games[g].slots \ (failed \cup raced)

\* What the log of a server tells during a game changes no other game, however late it
\* arrives.
LinesCountForTheirGame == \A g \in GameIds : games[g].toldBy \subseteq {g}

=============================================================================
