------------------------------ MODULE Servers ------------------------------
(***************************************************************************)
(* Game servers: GameLauncherService takes a server for a game,            *)
(* GameServersService gives it back when the game is over, and             *)
(* StaticGameServersService cleans it up two minutes later.                *)
(*                                                                         *)
(* A step is what one await separates from the next; reads in a row of     *)
(* which one decides are one step.  A game that plays counts as launching: *)
(* to play it needs its server, and only games without one are orphans.    *)
(* What is sent to a server over rcon is external.  Which servers are      *)
(* online is left out: any free server may be found or not.                *)
(*                                                                         *)
(* Overlap = FALSE assumes that two updates of one document do not         *)
(* overlap: the cron job does not release a server that is being released, *)
(* no other update announces the same release, forceEnd() does not end a   *)
(* game within an update of it, and a server that was taken is marked      *)
(* dirty before it is released or the process dies.                        *)
(***************************************************************************)
EXTENDS Naturals, Sequences, FiniteSets, SequencesExt

CONSTANTS
  GameIds,
  ServerIds,    \* ids of the static game servers
  NoGame,
  NoServer,
  Cron,        \* launchOrphanedGames() among those waiting for the mutex
  Overlap,     \* see above
  MaxCrashes   \* bound: how often the process dies

ASSUME ServersAssumption ==
  /\ NoGame \notin GameIds
  /\ Cron \notin GameIds
  /\ NoServer \notin ServerIds
  /\ Overlap \in BOOLEAN
  /\ MaxCrashes \in Nat

VARIABLES
  games,     \* whether they are over, and their gameServer
  servers,   \* game and isClean
  used,      \* servers with a game since they were cleaned, or found dirty at the start
  created,   \* games whose creator is going to call launch()
  waiting,   \* the queue of the launcher's mutex
  orphans,   \* games that the cron job has still to launch
  launch,    \* doLaunch(), under the mutex
  releases,  \* updates that set servers free
  updates,   \* the queue of the static servers' mutex
  cleanups,  \* clean-ups scheduled
  crashes

launchVars == <<created, waiting, orphans, launch>>
vars == <<games, servers, used, created, waiting, orphans, launch, releases, updates,
          cleanups, crashes>>

-----------------------------------------------------------------------------
Game == [state : {"none", "launching", "over"}, server : ServerIds \cup {NoServer}]

GameServer == [game : GameIds \cup {NoGame}, clean : BOOLEAN]

InProgress(g) == games[g].state = "launching"

Over(g) == games[g].state = "over"

Launch == [step : {"idle", "find", "assign", "tell", "configure"},
           game : GameIds \cup {NoGame}, server : ServerIds \cup {NoServer},
           read : {"no", "inProgress", "over"}]

NoLaunch == [step |-> "idle", game |-> NoGame, server |-> NoServer, read |-> "no"]

\* A release of "server", because "game" is over.
Release == [by : {"end", "launch", "cron"}, game : GameIds, server : ServerIds,
            step : {"check", "write"}, taken : BOOLEAN]

StaticUpdate == [server : ServerIds, set : {"dirty", "clean"}]

TypeOK ==
  /\ games \in [GameIds -> Game]
  /\ servers \in [ServerIds -> GameServer]
  /\ used \in SUBSET ServerIds
  /\ created \in SUBSET GameIds
  /\ waiting \in Seq(GameIds \cup {Cron})
  /\ orphans \in SUBSET GameIds
  /\ launch \in Launch
  /\ launch.step = "idle" <=> launch.game = NoGame
  /\ launch.step \in {"idle", "find"} <=> launch.server = NoServer
  /\ releases \in SUBSET Release
  /\ updates \in Seq(StaticUpdate)
  /\ cleanups \in [ServerIds -> Nat]
  /\ crashes \in 0..MaxCrashes

Init ==
  /\ games = [g \in GameIds |-> [state |-> "none", server |-> NoServer]]
  /\ servers = [s \in ServerIds |-> [game |-> NoGame, clean |-> TRUE]]
  /\ used = {}
  /\ created = {}
  /\ waiting = <<>>
  /\ orphans = {}
  /\ launch = NoLaunch
  /\ releases = {}
  /\ updates = <<>>
  /\ cleanups = [s \in ServerIds |-> 0]
  /\ crashes = 0

-----------------------------------------------------------------------------
(* Games *)

CreateGame(g) ==
  /\ games[g].state = "none"
  /\ games' = [games EXCEPT ![g].state = "launching"]
  /\ created' = created \cup {g}
  /\ UNCHANGED <<servers, used, waiting, orphans, launch, releases, updates, cleanups,
                 crashes>>

\* gameChanges: a game with a server is over.
EndOf(by, g, s) ==
  IF s = NoServer THEN {}
  ELSE {[by |-> by, game |-> g, server |-> s, step |-> "check", taken |-> FALSE]}

GameEnds(g) ==
  /\ InProgress(g)
  /\ Overlap \/ launch.game # g \/ launch.read = "no"
  /\ games' = [games EXCEPT ![g].state = "over"]
  /\ releases' = releases \cup EndOf("end", g, games[g].server)
  /\ UNCHANGED <<servers, used, launchVars, updates, cleanups, crashes>>

-----------------------------------------------------------------------------
(* The game launcher *)

LaunchGame(g) ==
  /\ g \in created
  /\ created' = created \ {g}
  /\ waiting' = Append(waiting, g)
  /\ UNCHANGED <<games, servers, used, orphans, launch, releases, updates, cleanups,
                 crashes>>

\* Bound: one launchOrphanedGames() waits at a time.
LaunchOrphanedGames ==
  /\ Cron \notin ToSet(waiting)
  /\ waiting' = Append(waiting, Cron)
  /\ UNCHANGED <<games, servers, used, created, orphans, launch, releases, updates,
                 cleanups, crashes>>

DoLaunch(g) == launch' = [NoLaunch EXCEPT !.step = "find", !.game = g]

\* The mutex is free.  Whether the game is in progress only makes a warning.
Acquire ==
  /\ launch = NoLaunch
  /\ orphans = {}
  /\ waiting # <<>>
  /\ waiting' = Tail(waiting)
  /\ IF Head(waiting) = Cron
     THEN /\ orphans' = {g \in GameIds : InProgress(g) /\ games[g].server = NoServer}
          /\ UNCHANGED launch
     ELSE /\ DoLaunch(Head(waiting))
          /\ UNCHANGED orphans
  /\ UNCHANGED <<games, servers, used, created, releases, updates, cleanups, crashes>>

NextOrphan(g) ==
  /\ launch = NoLaunch
  /\ g \in orphans
  /\ orphans' = orphans \ {g}
  /\ DoLaunch(g)
  /\ UNCHANGED <<games, servers, used, created, waiting, releases, updates, cleanups,
                 crashes>>

\* Mutant: servers with a game are found, too.
FindTakenServer ==
  /\ launch.step = "find"
  /\ \E s \in ServerIds :
       /\ servers[s].clean
       /\ launch' = [launch EXCEPT !.step = "assign", !.server = s]
  /\ UNCHANGED <<games, servers, used, created, waiting, orphans, releases, updates,
                 cleanups, crashes>>

\* Mutant: dirty servers are found, too.
FindDirtyServer ==
  /\ launch.step = "find"
  /\ \E s \in ServerIds :
       /\ servers[s].game = NoGame
       /\ launch' = [launch EXCEPT !.step = "assign", !.server = s]
  /\ UNCHANGED <<games, servers, used, created, waiting, orphans, releases, updates,
                 cleanups, crashes>>

FindServer ==
  /\ launch.step = "find"
  /\ \E s \in ServerIds :
       /\ servers[s].clean /\ servers[s].game = NoGame
       /\ launch' = [launch EXCEPT !.step = "assign", !.server = s]
  /\ UNCHANGED <<games, servers, used, created, waiting, orphans, releases, updates,
                 cleanups, crashes>>

\* Mutant: findFirstFreeGameServer() returns the first of no servers.
GoOnWithoutServer ==
  /\ launch.step = "find"
  /\ launch' = [launch EXCEPT !.step = "assign"]
  /\ UNCHANGED <<games, servers, used, created, waiting, orphans, releases, updates,
                 cleanups, crashes>>

\* No server is free, clean and online: doLaunch() catches and logs the error.
GiveUpLaunch ==
  /\ launch.step = "find"
  /\ launch' = NoLaunch
  /\ UNCHANGED <<games, servers, used, created, waiting, orphans, releases, updates,
                 cleanups, crashes>>

\* The server gets the game; when it had none, it is going to be marked dirty.
AssignGameServer ==
  /\ launch.step = "assign"
  /\ servers' = [servers EXCEPT ![launch.server].game = launch.game]
  /\ used' = used \cup {launch.server}
  /\ updates' = IF servers[launch.server].game = NoGame
                THEN Append(updates, [server |-> launch.server, set |-> "dirty"])
                ELSE updates
  /\ launch' = [launch EXCEPT !.step = "tell"]
  /\ UNCHANGED <<games, created, waiting, orphans, releases, cleanups, crashes>>

\* doLaunch() updates the game with the server and then, in two updates of which one
\* is kept, with what the server was configured with.  GamesService.update() reads
\* the game, ...
ReadGame ==
  /\ launch.step \in {"tell", "configure"}
  /\ launch.read = "no"
  /\ launch' = [launch EXCEPT !.read = IF InProgress(launch.game) THEN "inProgress"
                                       ELSE "over"]
  /\ UNCHANGED <<games, servers, used, created, waiting, orphans, releases, updates,
                 cleanups, crashes>>

\* ... writes it and announces the change.
UpdateGame ==
  /\ launch.read # "no"
  /\ games' = [games EXCEPT ![launch.game].server = launch.server]
  /\ releases' = IF launch.read = "inProgress" /\ Over(launch.game)
                 THEN releases \cup EndOf("launch", launch.game, launch.server)
                 ELSE releases
  /\ launch' = IF launch.step = "tell"
               THEN [launch EXCEPT !.step = "configure", !.read = "no"] ELSE NoLaunch
  /\ UNCHANGED <<servers, used, created, waiting, orphans, updates, cleanups, crashes>>

\* getLogsecret() or configureServer() cannot talk to the server.
LaunchFails ==
  /\ launch.step = "configure"
  /\ launch.read = "no"
  /\ launch' = NoLaunch
  /\ UNCHANGED <<games, servers, used, created, waiting, orphans, releases, updates,
                 cleanups, crashes>>

-----------------------------------------------------------------------------
(* Releasing servers *)

Releasing(s) == \E r \in releases : r.server = s

ToBeDirty(s) == [server |-> s, set |-> "dirty"] \in ToSet(updates)

\* The server is dirty and no other release of it has got as far.
Alone(r) ==
  \/ Overlap
  \/ /\ ~ ToBeDirty(r.server)
     /\ \A q \in releases \ {r} :
          q.server = r.server => q.step = "check" /\ q.by # "cron"

GoOn(r, taken) ==
  releases' = (releases \ {r}) \cup {[r EXCEPT !.step = "write", !.taken = taken]}

\* maybeReleaseGameServer() reads the server.
CheckServer(r) ==
  /\ r.step = "check" /\ r.by # "cron"
  /\ Alone(r)
  /\ IF servers[r.server].game = r.game
     THEN GoOn(r, TRUE) ELSE releases' = releases \ {r}
  /\ UNCHANGED <<games, servers, used, launchVars, updates, cleanups, crashes>>

\* checkForGameServersToRelease() finds the server taken, ...
CheckTakenServer(s) ==
  /\ servers[s].game # NoGame
  /\ \A r \in releases : r.server = s => Overlap /\ r.by # "cron"
  /\ Overlap \/ ~ ToBeDirty(s)
  /\ releases' = releases \cup {[by |-> "cron", game |-> servers[s].game, server |-> s,
                                 step |-> "check", taken |-> FALSE]}
  /\ UNCHANGED <<games, servers, used, launchVars, updates, cleanups, crashes>>

\* Mutant: only the server the game knows of is released.
CheckGameAndItsServer(r) ==
  /\ r.step = "check" /\ r.by = "cron"
  /\ IF Over(r.game) /\ games[r.game].server = r.server
     THEN GoOn(r, servers[r.server].game # NoGame) ELSE releases' = releases \ {r}
  /\ UNCHANGED <<games, servers, used, launchVars, updates, cleanups, crashes>>

\* ... and reads its game.
CheckGame(r) ==
  /\ r.step = "check" /\ r.by = "cron"
  /\ IF Over(r.game)
     THEN GoOn(r, servers[r.server].game # NoGame) ELSE releases' = releases \ {r}
  /\ UNCHANGED <<games, servers, used, launchVars, updates, cleanups, crashes>>

\* The update is announced once, and again by every update of the server that has
\* read it before and writes it after.
Announcements(r) == IF ~ r.taken THEN {0} ELSE IF Overlap THEN {1, 2} ELSE {1}

\* $unset of the game, whichever it is by now; a clean-up is scheduled.
ReleaseServer(r) ==
  /\ r.step = "write"
  /\ releases' = releases \ {r}
  /\ servers' = [servers EXCEPT ![r.server].game = NoGame]
  /\ \E n \in Announcements(r) :
       cleanups' = [cleanups EXCEPT ![r.server] = @ + n]
  /\ UNCHANGED <<games, used, launchVars, updates, crashes>>

-----------------------------------------------------------------------------
(* Static game servers *)

\* Bound: what began before serverCleanupDelay has ended after it.
CleanupServer(s) ==
  /\ cleanups[s] > 0
  /\ ~ Releasing(s) /\ launch.server # s
  /\ cleanups' = [cleanups EXCEPT ![s] = @ - 1]
  /\ used' = used \ {s}
  /\ updates' = Append(updates, [server |-> s, set |-> "clean"])
  /\ UNCHANGED <<games, servers, launchVars, releases, crashes>>

UpdateStaticServer ==
  /\ updates # <<>>
  /\ LET u == Head(updates)
     IN  servers' = [servers EXCEPT ![u.server].clean = u.set = "clean"]
  /\ updates' = Tail(updates)
  /\ UNCHANGED <<games, used, launchVars, releases, cleanups, crashes>>

\* The process dies, for instance of a clean-up that fails.  At the start dirty
\* servers without a game count as clean.
Restart ==
  /\ crashes < MaxCrashes
  /\ Overlap \/ \A u \in ToSet(updates) : u.set # "dirty"
  /\ servers' = [s \in ServerIds |->
                   [servers[s] EXCEPT !.clean = @ \/ servers[s].game = NoGame]]
  /\ used' = {s \in used : servers[s].game # NoGame}
  /\ created' = {}
  /\ waiting' = <<>>
  /\ orphans' = {}
  /\ launch' = NoLaunch
  /\ releases' = {}
  /\ updates' = <<>>
  /\ cleanups' = [s \in ServerIds |-> 0]
  /\ crashes' = crashes + 1
  /\ UNCHANGED games

-----------------------------------------------------------------------------
LaunchStep ==
  \/ Acquire
  \/ \E g \in GameIds : NextOrphan(g)
  \/ FindServer
  \/ GiveUpLaunch
  \/ AssignGameServer
  \/ ReadGame
  \/ UpdateGame
  \/ LaunchFails

ReleaseStep(s) ==
  \E r \in releases :
    r.server = s /\ (CheckServer(r) \/ CheckGame(r) \/ ReleaseServer(r))

Next ==
  \/ \E g \in GameIds : CreateGame(g) \/ GameEnds(g) \/ LaunchGame(g)
  \/ LaunchOrphanedGames
  \/ LaunchStep
  \/ \E s \in ServerIds :
       \/ CheckTakenServer(s)
       \/ ReleaseStep(s)
       \/ CleanupServer(s)
  \/ UpdateStaticServer
  \/ Restart

Spec == Init /\ [][Next]_vars

\* Every awaited call returns, the cron job runs every minute and the timers fire.
Fairness ==
  /\ WF_vars(LaunchStep)
  /\ WF_vars(UpdateStaticServer)
  /\ \A s \in ServerIds :
       /\ WF_vars(CheckTakenServer(s))
       /\ WF_vars(ReleaseStep(s))
       /\ WF_vars(CleanupServer(s))

FairSpec == Spec /\ Fairness

-----------------------------------------------------------------------------
\* The server a game in progress knows of has that game: it is neither set free nor
\* given to another game before.
GameKeepsServer ==
  \A g \in GameIds :
    InProgress(g) /\ games[g].server # NoServer => servers[games[g].server].game = g

\* Between two games of a server there is one clean-up: it does not reach the server
\* in its next game, and a server that counts as clean was cleaned after its last game,
\* but for one that is still going to be marked dirty.
CleanupSparesGames ==
  /\ \A s \in ServerIds :
       servers[s].game # NoGame => s \in used \/ Over(servers[s].game)
  /\ \A s \in used : servers[s].clean => ToBeDirty(s)

InUse(s) == servers[s].game # NoGame /\ InProgress(servers[s].game)

\* A server without a game in progress becomes free and clean again, though its game
\* may have ended before it had the server, may know of another server, or its
\* release or clean-up may have been lost in a crash.
ServersComeBack ==
  \A s \in ServerIds :
    ~ InUse(s) ~> servers[s].game = NoGame /\ servers[s].clean

-----------------------------------------------------------------------------
\* "currently running game" (game-server.ts:40): one server runs a game.
OneServerPerGame ==
  \A s, t \in ServerIds :
    servers[s].game = servers[t].game /\ servers[s].game # NoGame => s = t
=============================================================================
