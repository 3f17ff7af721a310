# tf2pickup-server: a formal model

tf2pickup-server lets players queue for a Team Fortress 2 match, makes two teams of them,
takes a game server for the match and follows it until it is over. It is one Node process
(NestJS) over MongoDB, a cache, game servers reached by rcon, and several optional services.

This directory models it in TLA+. The core is where players, games and servers meet: the
queue, the lobby around it (friends, map vote, map pool), the launch, the life of a game
with its substitutions, the game servers, and the team picker. Around it stand what a game
server goes through (configuration, log lines, heartbeats, diagnostics, reservations at
serveme.tf) and what happens around the players (sockets, bans, sessions, voice channels,
Discord, Twitch). TLC checks all of it on small instances; TLAPS proves theorems for every
value of the constants.

Paths are relative to the repository's `src/`, so that `queue/...` is `src/queue/...`.

## 1. The system

### 1.1 How the parts interact

    websocket / REST          playerJoinsGame, gameCreated, gameChanges, ... (events/events.ts)
          |                                      ^
          v                                      |
       QueueService --queueStateChange--> AutoGameLauncher --create()--> GamesService
        |      ^                            |     |                        |   ^
        |      |kick()                      |     |reset()                 |   |
        v      |                            v     v                        v   |
     cache   PlayerBans, OnlinePlayers   MapVote, Friends, PickTeams   Players.activeGame
                                            |                              ^
                                         MapPool                           |
     GameLauncher --takes a server--> GameServers <--release-- game over --+
          |                               |                                |
     ServerConfigurator (rcon)    StaticGameServers (clean-up)     GameEventHandler,
                                                                   GameRuntime,
                                                                   PlayerSubstitution

    websockets --> OnlinePlayers        log lines (UDP) --> LogReceiver --> GameEventListener
    heartbeats --> StaticGameServers --events--> Discord     serveme.tf <--> ServemeTf
    gameCreated, gameChanges --> MumbleBot    queueSlotsChange --> QueuePrompts (Discord)
    playerBan*, linked profiles --> Twitch    playerUpdates, ... --> AdminNotifications

Four mechanisms carry all of it and are where it is hard:

- **The event loop.** A callback runs to completion; an `await` lets every other callback
  in. Whatever was read before an `await` may be stale after it. Subscribers of an event
  run *inside* the `next()` that emits it (rxjs), so a step of a model contains them.
- **Documents.** `GamesService.update()` reads a game, writes it and announces the pair;
  the read and the write are two awaits, and other updates fit in between. Several mutexes
  exist (queue join, game model, substitution, launcher, static servers, the prompt), each
  private to its own operations.
- **Timers and the process.** Ready-up timers, the release of players five seconds after a
  game, a player away for ten seconds, the clean-up of a server minutes after a game, the end
  of a reservation, cron jobs every minute. None of them survives a restart; documents do.
- **Other programs.** Game servers are told by rcon commands of which any may fail, and
  answer by UDP lines that are lost, repeated and late; serveme.tf, Discord, Twitch and Mumble
  keep state of their own, and an answer of theirs may be lost after they have acted.

### 1.2 Inventory

| Component | State | Operations | What makes it correct |
|---|---|---|---|
| Pickup queue `queue/services/queue.service.ts` | slots, state, timer, join mutex | join, leave, readyUp, kick, reset, the state update run by setImmediate, both ready-up timers, restore from the cache | a player is in one slot; a complete and ready roster is handed over whole; no wake-up is lost; ready and launching end |
| Automatic launcher `queue/services/auto-game-launcher.service.ts` | none but what its call holds across awaits | launchGame() on the change to launching | the roster it creates a game for is that of the queue |
| Friends `queue/services/friends.service.ts` | friendships | markFriend, clean-up at every slot change, reset | at most one friend per medic and one medic per friend; a launch can honour them |
| Map vote, map pool `queue/services/map-vote.service.ts`, `map-pool.service.ts` | options, votes; maps with cooldowns | vote, scramble, getWinner; add, remove, set maps | a vote counts for an option; options are rested maps; options never run out for good |
| Games `games/services/games.service.ts`, `games/models/game.ts` | games with state and slots | create, update, queries | a game that is over stays over; its end is announced |
| Event handler `games/services/game-event-handler.service.ts` | timers that release players | match started, ended, connected, scores, logs | the players of a game that is over are released, and only they |
| Runtime `games/services/game-runtime.service.ts` | none | forceEnd, reconfigure, replacePlayer over rcon | ends a game like the match would |
| Substitution `games/services/player-substitution.service.ts` | its mutex | substitute, cancel, replace | every place stays taken, by one player; nobody plays in two games |
| Game launcher `games/services/game-launcher.service.ts` | its mutex | launch, launchOrphanedGames (every minute) | one server per game, none lost |
| Server configurator `games/services/server-configurator.service.ts` | none | a sequence of rcon commands | fails as a whole |
| Event listener, log receiver `games/services/game-event-listener.service.ts` | none | log line -> event | (regular expressions) |
| Team picker `games/utils/pick-teams.ts` | none | pickTeams | even teams, friends together, small difference |
| Game servers `game-servers/services/game-servers.service.ts` | servers with the game they have | find, assign, release, the cron job that releases | a server is not given away while it is played on, and comes back afterwards |
| Static servers `.../static-game-server/services/static-game-servers.service.ts` | isClean, isOnline, heartbeats | heartbeat, taken -> dirty, released -> clean-up after a delay | no clean-up during a game; clean means cleaned |
| Diagnostics `.../static-game-server/diagnostics` | a run, its two checks, its snapshots | start, rcon check, log forwarding check | what is stored is what the run came to |
| serveme.tf `.../serveme-tf/services` | reservations, a timer for each end | find, reserve, wait, end | a reservation ends with its game, not before |
| Players, bans `players/services/players.service.ts`, `player-bans.service.ts` | activeGame, bans | updates, release at the start; add, expire, revoke | activeGame is right; a banned player is out of the queue and knows it |
| Online players `players/services/online-players.service.ts`, `players/gateways` | sockets per player | connect, disconnect, a timer for each disconnection | who is away leaves the queue |
| Authentication `auth/services`, `auth/providers` | keys, refresh tokens, accounts | Steam login, forced creation, refresh | a token is exchanged once; sessions outlive restarts; a player registers once |
| Voice servers `voice-servers/mumble-bot.service.ts` | connection, channels | create, link, remove | channels outlive their game, and the people in them |
| Discord `plugins/discord/services` | id of the prompt; none | refresh and move the prompt; notices | the prompt tells the queue's size; no change goes unnoticed |
| Twitch `plugins/twitch/services` | profiles, token, streams shown | link, poll every minute | no stream of a banned player |
| Documents, certificates, game configs, migrations, statistics, profiles | documents | CRUD and queries | no protocol |

`PROJECT.json` lists the same components with their status, and every hazard of the code
at its line with the properties that look for it.

## 2. The modules

| Module | Models | Composition |
|---|---|---|
| `Roster` | the abstract queue: members, readied, phase | refined by `Queue` |
| `Queue` | queue, automatic launcher, the cache and restart | `R == INSTANCE Roster WITH ...` |
| `Lobby` | friends, map vote, map pool around launchGame() | takes two results of others, see 2.3 |
| `PickTeams` | the team picker | |
| `Games` | create(), the match, forced ends, substitution, activeGame | takes the launch as `Queue` shows it |
| `Servers` | game launcher, game servers, static servers | takes games as created and ended |
| `Match` | one game server from match to match: configurator, runtime, log lines | takes finding, releasing and substituting as single steps |
| `Heartbeats` | heartbeats, the cron job for dead servers, their notices | |
| `Diagnostics` | a diagnostic run | |
| `Serveme` | reservations at serveme.tf | takes the end of a game as a step |
| `Presence` | sockets, online players, bans, and the queue they must leave | takes the queue as a set with a join and a launch |
| `Accounts` | keys, logins, refresh tokens | |
| `Voice` | the Mumble bot | |
| `Prompts`, `Notices` | the queue prompt and the admins' notices on Discord | |
| `Streams` | Twitch profiles, polls, streams | |
| `MCQueue`, `MCLobby`, `MCGames`, `MCServers` | instances for TLC | extend the above |
| `MCGameServers` | instance of `Match`, `Heartbeats`, `Diagnostics`, `Serveme` | a behaviour is of one part |
| `MCMembers` | instance of `Presence`, `Accounts`, `Voice`, `Prompts`, `Streams`, `Notices` | a behaviour is of one part |
| `QueueProofs`, `GamesProofs`, `LobbyProofs`, `PickTeamsProofs`, `ServersProofs`, `PresenceProofs` | theorems about one module each | extend it |
| `GameServersProofs` | theorems about `Match`, `Heartbeats`, `Diagnostics`, `Serveme` | extends `MCGameServers` |
| `MembersProofs` | theorems about `Accounts`, `Voice`, `Prompts`, `Streams`, `Notices` | extends `MCMembers`, `PresenceProofs` |

### 2.1 Queue and Roster

A step is one callback of the event loop. `queued` counts the setImmediate callbacks since
the last check phase, `running` those left of the phase being run; while `running > 0` no
other callback starts (`Turn`). join() is five steps: `JoinBegin` (the synchronous checks),
`JoinReadPlayer`, `JoinReadBans` (two awaits), and `JoinReject` or `JoinFinish`. The body of
maybeUpdateState() is `QueueFills`, `QueueEmpties`, `StartLaunch`, `LaunchingEnds` and
`NothingToUpdate`. launchGame() is `StartLaunch`, `CreateGame`, `SetActiveGames`, `Reset`,
or `LaunchFails`: it keeps a *reference* to the slots array, which `live` says is still
the queue's own; reset() replaces the array. `ReadyUpTimeout` and `UnreadyQueue` are the two
timers. `Kick` is the common part of kick(), a ban and a disconnection. `StoreQueue` and
`CacheExpires` lag behind `cache`, and `Restart` restores what the store holds.

`Roster` knows only members, who has readied, and the phase. `Queue!RefinesRoster` says that
slots, timers, callbacks and awaits implement it.

### 2.2 Games

A step is what one await separates from the next. `launch` is the create() of the launcher,
`sub` the holder of the substitution mutex, `model` the holder of GAME_MODEL_MUTEX,
`forcing` the forceEnd() of each game with the copy it compares with later, `timers` the
games whose players are released in five seconds, `unsets` the updates of activeGame in
flight. `slots` is a sequence because findPlayerSlot() takes the first slot of a player.

`Overlap = FALSE` restricts the environment to one operation at a time on a game and on a
player: no forced end of a game while it is created, updated or substituted in, and no join
or substitution of a player whom an unfinished release still concerns. What holds only so
is checked so (section 4); with `Overlap = TRUE` everything interleaves.

Left out: calls that throw and change nothing, bans (Queue has them), connection states,
game numbers, scores. join() is one step. A write and its event are one step, so that a
crash between them is outside the model.

### 2.3 Lobby

Of the queue only who sits where. `asked` counts scrambles whose query has not run, `found`
holds the answers under way; setMaps() is `DeleteMaps`, `InsertMaps`, `RefreshMaps`. Nobody
leaves during a launch (`Queue!LaunchIsUndisturbed`), and create() finds teams unless two
friends are medics of opposite teams (`PickTeams!LineupIsFound`). Changes of the
admins that leave no more maps than the cooldown are outside the model (`Enough`): the vote
may then have no option at all. A launch without options or without a line-up ends the
process; `Restart` is then its next step.

### 2.4 Servers

`waiting` is the queue of the launcher's mutex, `launch` the doLaunch() that holds it,
`orphans` the games the cron job has still to launch. doLaunch() is `FindServer`,
`AssignGameServer`, then two updates of the game (`ReadGame`, `UpdateGame`), with
`GiveUpLaunch` and `LaunchFails`. A release is `CheckServer` or `CheckTakenServer` and
`CheckGame`, then `ReleaseServer`. `updates` is the queue of the static servers' mutex.
`used` is history: the servers that had a game since they were cleaned.

Abstractions: isOnline is left out (any free, clean server may be found or not; heartbeats
are in `Heartbeats`), log secret and connect strings are one update, the clean-up timer waits for what began
before the release (its delay is minutes, an await is not), at the start a dirty free server
counts as clean as the code does, and there is one provider (the other is `Serveme`). `Overlap = FALSE` excludes two
releases of one server at once, a game ended within an update of it, and a server released
before it was marked dirty.

### 2.5 PickTeams

The line-ups the code enumerates, the filter for friends, and the smallest difference. It
is an action from arbitrary skills and friends to the teams, so that TLC runs it on every
input.

### 2.6 Match

The games are played one after the other on one server. `configs` holds configureServer()
for the launch and for an admin, each with its next rcon command and the slots it has read;
`server` is what the commands changed. A launch is `AssignGameServer`, `GetLogsecret`,
`StoreLogSecret`, `ClearConnectString`, `ReadGame`, `AddLogAddress`, `ChangeMap`,
`SetPassword`, `AddPlayer` for each player, `AnswerConfigured`, `StoreConnectString`; an admin
enters at `Reconfigure`, and `ConfigurationFails` at any command. `replacings` are the
replacePlayer() calls that tell the server of a substitution. `SendLine`, `LoseLine` and
`ReceiveLine` are the UDP log, `HandleLine` the handler whose game was found by the log
secret. `raced` is history: players replaced while a configuration that had read them was
still to add them. `Overlap = FALSE` assumes one configuration at a time.

### 2.7 Heartbeats, Diagnostics, Serveme

`Heartbeats`: heartbeat() is `ReceiveHeartbeat`, `StoreHeartbeat`, `AnnounceHeartbeat`, without
the mutex; the cron job is `FindDeadServers`, then for each one `ReadDeadServer`,
`MarkAsOffline`, `AnnounceDeadServer` under it. `missed` is history: servers of which something
could not be told (Discord not connected, a restart), or not in order (the two calls overlapped).

`Diagnostics`: every change of a run is a snapshot whose update is stored later, in order. The
log forwarding check sends five commands while its five seconds pass; its promise is settled
once, by the line or the timeout, whichever comes first. The subscription ends with the last
command; when a command fails, nobody ends it.

`Serveme`: a reservation is created, polled until it runs, stored with the server, and ended
half a minute after the release. An answer may be lost when the reservation exists
(`CreateReservation` with `answered = FALSE`), an API call fail, the process die: `forgotten`
collects what is then lost track of.

### 2.8 Presence

Time is counted in ticks, `Timeout` of which are the ten seconds after which verifyPlayer()
looks. Every `Disconnect` sets a timer; a timer says only how many ticks it has left. Messages
to the clients (`messages`, `profiles`) are prepared by an await and sent later. `JoinQueue` and
`TakeSlot` are the two ends of join(); `AnnounceBan` and `VerifyPlayer` kick, which does nothing
while the queue is launching. A ban is `created` until its event, `announced`, then `checked` and
`revoked` by an admin until that event, or `expired`. `Overlap = FALSE` assumes that join() takes
less than a tick and that messages to one client keep their order. `missed` marks a ban
announced while a join() of its player was under way.

### 2.9 Accounts, Voice, Streams

`Accounts`: the process imports or generates its keys, a login is find, hours, ETF2L, create,
register, issue, with an await before each; a refresh is `DeleteToken`, `VerifyToken`,
`StoreToken`. A key is the start it was generated in, a token its number in its session.
`sessions` is the clients' side: a session is kept as long as its client got every answer.

`Voice`: the bot connects with a certificate it creates once; the channels of a game are created
one by one, linked when it is over, and swept. A sweep reads the game, counts the users and
removes, an await each; `arrived` is who has entered since the count.

`Streams`: a poll fetches the streams of linked and promoted accounts, then finds the profile and
reads the bans of each, one by one; polls overlap and finish in any order. `hidden` is history:
who was linked and banned all the while the poll that is shown ran.

### 2.10 Prompts, Notices

`Prompts`: refreshPrompt() takes its mutex, reads the cached id, fetches the message, and edits it
or sends another one and stores its id. The check for visibility takes no mutex: it fetches
the newest message, then its own, deletes it and its cached id, and refreshes. Discord executes
in the order of sending.

`Notices` is about one aspect at a time (name, roles, skill, ban, a game's state, a player's
place), with two values. A deed reads the old value, stores the new one, emits its event, and
the notice is sent if the two differ; deeds overlap. `noticed` and `silent` are history.

## 3. What is checked

| Run | Instance | Distinct states | What it shows |
|---|---|---|---|
| `queue_quiet` | 3 players, 2 slots, 1 bannable, 1 slot change per turn, no crash, fairness | 57 332 | the queue implements `Roster`; launches are undisturbed and hand their roster over; no lost wake-ups; ready and launching end |
| `queue_burst` | 2 players, 2 slots, 2 slot changes per turn, a crash | 1 742 085 | what survives bursts, failing launches and restarts: one slot per player, complete rosters |
| `queue_restart` | 2 players, 1 crash, fairness | violated | a restored launching state never ends |
| `games_match` | 1 game, 3 players, everything overlaps, slots <= 4 | 1 270 308 | activeGame is a game of the player's; replaced slots stay so |
| `games_serial` | 2 games, 4 players, one operation at a time | 603 390 | nobody plays in two games; places stay taken; requests end; who plays is assigned |
| `games_freed` | 1 game, 3 players, a crash, fairness | 125 942 | players of a game that is over are released |
| `lobby` | 3 players, 2 medic slots of 3, 3 maps, cooldown 1, 2 scrambles | 650 725 | friendships, votes, options and the pool |
| `lobby_lineup` | the same | violated | a launch without a line-up |
| `pick_teams` | 2 classes of four and the medics, skills 0/1, all friendships | 621 664 | a line-up exists, is even, keeps friends together, and cannot be improved by exchanging the medics |
| `servers` | 2 games, 2 servers, a crash, fairness | 510 028 | a game keeps its server; clean-ups spare games; every server comes back |
| `gameservers` | 2 games on a server, 3 players, 2 passwords, 1 replacement, 1 log line at a time; 2 heartbeating servers; a diagnostic run; 2 reservations; a crash | 1 511 625 | the published password works and lets the players in; late lines change no other game; notices tell the status; reservations end with their game; the stored run is the latest |
| `members` | 2 players with 2 sockets, a ban, a crash; 2 logins, 2 sessions; 2 games and 2 speakers; 2 prompts, 2 refreshes; 2 polls; 2 deeds | 2 305 884 | away and banned players are out; profiles show bans; sessions go on; channels outlive games; the prompt shows the queue; no banned streams; changes are noticed |

Every property of a passing run has a mutant in `PROJECT.json`: a plausible bug of the code,
defined next to the original in its module (`\* Mutant: ...`), that violates it.

In `gameservers` and `members` the parts share no state, and a behaviour is of one part only:
their states add up instead of being multiplied, and nothing is lost since no step of one part
can disable or change another.

**Bounds.** Two slots are the fewest with a difference between the last and another player;
a third player is there to be left out. `MaxImmediates` bounds the slot changes in one turn:
two are enough for a callback left over from the change before, more repeat it. One launcher
suffices in the quiet runs (proved: at most one launch is in progress). `MaxCrashes`,
`MaxRestarts`, `MaxDeaths` = 1: what a restart leaves behind is what the next one finds;
`MaxStarts = 2` is the start that generates the keys and one that imports them. In Games
`Size = 2` with one medic has one player released early and one late; a game with four slots
has room for a player replaced and returning. Two scrambles are the fewest with an order. Two
servers and two games let a game have two servers and a server two games. Skills of 0 and 1
distinguish all orders of pairs; larger ones change the differences, not which line-ups exist.

In `Match`, `MaxGames = 2` is the fewest with a late line of an earlier game,
`MaxConfigurations = 2` lets a password replace another, `MaxReplacements = 1` has one player
leave and one come, `MaxLines = 1` bounds lines on the way and being handled at a time. In
`Presence`, two sockets let one go while the other stays, `Timeout = 1` leaves time between a
disconnection and its timer, `MaxMessages = 1` bounds a message being prepared when another
one is added. In `Accounts`, two requests race for one token, `MaxSessions` and `MaxRefreshes` = 2
allow a successor and another session. In `Prompts`, `PromptIds = {1, 2}` allows a prompt and
its replacement, `MaxEdits = 1` an edit under way when another is sent. `MaxConnects`, `MaxLinks`,
`Polls`, `Refreshes` and `Deeds` are two each: one call and another that overlaps it.

**Deadlock** is checked in `queue_quiet`, `queue_restart` and `servers`. The others stop at
their bounds: launches and crashes in `queue_burst`, games that end once in `games_*` and
`gameservers`, scrambles in `lobby*`, one call in `pick_teams`, prompts in `members`.

**Symmetry** is used only in runs without liveness properties.

**Fairness.** The code has no scheduler of its own; fairness says that the event loop runs.
Awaited calls return, timers fire, setImmediate callbacks run, the cron jobs run every
minute. Weak fairness suffices where nothing disables the step; the timers and the launch
of `Queue` get strong fairness because each check phase disables them for its length.
Nothing is assumed of players, admins or matches. A launch that fails ends the process, so
that `queue_quiet`, without crashes, has none; in `Servers` a launch may fail at any time. The
modules of `gameservers` and `members` state safety only: what must happen there waits for
other programs that may never answer.

## 4. Findings and limits of what holds

Runs that show the code differ from what it says (quoted in `PROJECT.json`):

- **`queue_restart`.** onModuleInit() restores `launching` by assignment: no event reaches
  the launcher and every operation is refused in that state.
- **`lobby_lineup`.** cleanupFriendships() looks at the medic only. A friend who moves to the
  other medic slot leaves pickTeams() without a line-up, create() throws, and nobody awaits
  launchGame().

Others that an instance of the same modules shows, without a run of their own:

- `Queue!LaunchingStateCoversLaunch` fails with two slot changes in one turn of the event loop,
  which schedule two maybeUpdateState() callbacks. The first turns ready to launching and
  launchGame() starts; the second finds launching and goes back to waiting
  (`queue.service.ts:260`).
- `Servers!OneServerPerGame` fails: a game counts as an orphan until its server is assigned,
  also while its own launch() waits for the mutex. doLaunch() does not look again.
- `Games!PlayersAreFreed` fails on `games_freed` with `Overlap = TRUE`: forceEnd() while
  create() is still assigning the game (`game-runtime.service.ts:92`).
- `Games!OneGameAtATime` fails with `Overlap = TRUE`: a replacement can join the queue
  between the kick and the assignment of his game (`player-substitution.service.ts:316`).
- `Games!NobodyQueuesWhilePlaying` fails (players {p1,p2,p3}, three games, Size 2, Medics
  {1}, Overlap TRUE, MaxSlots 2, no crash): freeAllPlayers() of an earlier game clears the
  activeGame of a later one. The test "when the player is playing a game"
  (`queue.service.spec.ts:283`) has it refused.
- `Servers!CleanupSparesGames` fails on `servers` with `Overlap = TRUE`: two releases of one
  server schedule two clean-ups, and the second meets the next game.
- `PickTeams!DifferenceIsSmallest` fails with two classes of four players, as 6v6 has, and
  holds with one: the code lists four of the six ordered splits
  (`pick-teams.ts:59-76`), while the comment at line 165 promises the smallest difference.
- In `Lobby` a vote can belong to nobody in the queue: cast between the scramble that
  follows getWinner() and the reset, it survives the reset, which does not say that
  the players leave (`map-vote.service.spec.ts:107` has the vote go with the player).
- `Match!PublishedPasswordWorks` fails on `gameservers` with `Overlap = TRUE`: of two configurations
  at once one publishes its connect string while the other sets another password, and the
  string that is stored last need not be that of the password set last.

What the properties had to leave out, because the code does otherwise (each exception is a
history variable of its module, so that everything else is still checked):

- `PlayersAreLetIn`: a player who is replaced while a configuration that has read him is still
  to add him is added after delReplacee() has told the server to drop him
  (`server-configurator.service.ts:108-117`), and the commands of replacePlayer() are not
  awaited by who asks for them (`player-substitution.service.ts:344`), so that a failure of
  theirs is only logged.
- `BannedPlayersAreOut`: a ban announced while its player's join() is between the check of the
  bans and the slot kicks nobody, and the join succeeds (`queue.service.ts:133`).
- `AwayPlayersAreOut` says that some timer finds a player who is away. It is not the timer of his
  last disconnection: the first one may find the second absence
  (`online-players.service.ts:76`) and end his stay early. Nobody looks at players whom a
  restart restored into the queue and who never came back.
- `NoticesTellStatus`: a heartbeat and markAsOffline() of the same server may be told in the
  wrong order.
- `ChangesAreNoticed`: a change of roles is never noticed, as onPlayerUpdates() compares the old
  roles with themselves (`admin-notifications.service.ts:152`).
- `PromptShowsQueue`: a prompt deleted by somebody else is never replaced, because its cached id
  stays and cannot be fetched; a check that read no cached id deletes the id stored
  meanwhile and leaves two prompts (`queue-prompts.service.ts:128-137`). Before the first refresh
  requiredPlayerCount is 0, so that the first prompt needs no threshold.
- `ReservationsEndWithGame`: a reservation whose answer is lost, or whose end fails or falls into a
  restart, is ended by serveme.tf alone.

Seen while modelling, and in no module: create() reads the next game number before it stores the
game (`games.service.ts:355`), which only the launcher's single launch keeps from giving one
number twice; overlapping tryConnect() calls of the Mumble bot (`mumble-bot.service.ts:64`) leave
a client nobody refers to (`Voice` makes attempts one after another).

## 5. What is proved

Every invariant and every safety action property a passing run checks is a theorem, for all
values of the constants, and so is the refinement of `Roster`. The proofs assume what each
module's named `ASSUME` says and nothing else; a theorem with a further hypothesis states it.
There are three such hypotheses:

- `Overlap = FALSE`, the restriction of the environment that section 2 describes for each module.
  Section 4 has counterexamples of TLC without it.
- `Quiet` (`QueueProofs`): one slot change per turn of the event loop, no crash. Both halves are
  needed: a second slot change in a turn ends the launching state during the launch.
- `crashes = 0 =>` in four theorems of `GamesProofs`: until the process dies. A crash loses the
  writes that create() and replacePlayer() had still to make, and the restart, which releases the
  players of games that are over, does not make up for them.

The inductive invariants, and why they are needed:

- **`QueueProofs`** (any players, slots, bounds, crashes). `SeatInv`: the slots, the cached and the
  stored queue are well seated, and a pending timer implies ready; the cache is part of it since
  a restart makes it the queue. From it `OneSlotPerPlayer`, `NoReadyFreeSlot` and
  `TimersBelongToReadyUp`. `RosterInv` adds that slots a launch kept after somebody else's reset
  stay well seated; then `RostersAreComplete` counts: full slots without a player twice have as
  many players as slots, which is why there must be finitely many. Under `Quiet`, `QuietInv`
  adds to the launch what surrounds it: at most one batch of callbacks (`OneBatch`), full and
  ready slots and nothing pending during a launch (`LaunchPart`), an empty queue with a callback
  pending after it (`DrainPart`), and who must have a wake-up in waiting and in ready
  (`WaitingPart`, `ReadyPart`). From it `LaunchUndisturbed`, `LaunchOnlyInLaunching`,
  `WakeupsAreNotLost`, `ReadyStateIsTimed`, `ResetHandsOverRoster` and `QueueImplementsRoster`: the
  initial states map to the roster's, and each callback to one of its steps or to none.
- **`GamesProofs`** (any players, games, crashes). `TInv` strengthens the types with
  what the operations hold across awaits. Whatever overlaps: `GameOverStays` needs only that every
  writer matches the state or works on a game that cannot come back; `EndsAreAnnounced` uses
  `EndInv` (a forceEnd() that read a game as over read one whose end had been announced);
  `AssignmentsAreOwn` uses `OwnInv` (launch and substitution hold players of the game they
  name); `ReplacementsAreFinal` uses `ReplacedInv`: in every game a player's replaced slots
  come first (`Ordered`), so that an operation that asks findPlayerSlot() and sees none
  replaced may mark all slots of the player. With `Overlap = FALSE`: `RequestsEnd` by `RequestInv`
  (nobody is substituted in a game forceEnd() has read), also through crashes. `SerialInv` is what
  keeps players apart: a player is bound to one game, from his slot until the release of the
  game's players is done, and to none while he is in the queue, but for the launch or the
  substitution under way (`BoundInv`, `QueueInv`); what a substitution has read is still so at
  each of its awaits (`SubInv`); every place is held, and shared only between the two writes of
  replacePlayer() (`TeamInv`). From it `PlayersAreAssigned`, `PlayersPlayOnce`, `PlacesAreTaken`.
  `FreedInv` adds that no game ends before its players are assigned (`CreatingInv`), which gives
  `NobodyIsStuck`, the safety half of the liveness property `PlayersAreFreed`: a player's game is in
  progress or what will release him is on its way, also after a crash, whose restart releases
  him. Together with `SerialInv` it gives `ReleasesSpareOthers`: the updates that unset activeGame
  without looking at it find that game there, or none.
- **`LobbyProofs`** (any players, slots, maps, cooldown, options, scrambles).
  `SoundFriendships` and `CountedVotes` are inductive by themselves. `AlwaysSomeMapRested`
  rests on `PoolInv`: maps wake one by one, no two with the same cooldown, and the winner
  finds room; more maps than the cooldown then leave one rested (pigeonhole).
  `RestedOptions` and `EmptyVotesEnd` follow from `OptionsInv`, about the last answer found.
- **`PickTeamsProofs`** (any classes, skills, friends). `LineupsAreFound`: of the four ordered splits
  of a class of four that the code lists, one puts any two friends of different medics right,
  but for one case (`Crossed`), in which the medics change teams; this is why four are enough.
  All line-ups are even, so that `FriendsPlayTogether`: of two friends neither of whom is in one
  team, both are in the other. `ExchangesDoNotHelp`: the exchange of a class of two is among the line-ups, and the
  chosen one is least. That the sum of the skills is an integer is an induction over the fold of
  the community modules; it is proved by a least counterexample (`SomeAdds`, `SumIsInteger`).
- **`ServersProofs`** (any games, servers, crashes). With `Overlap = FALSE`, `SerialInv`: a server that
  was found stays free and clean until it is assigned (`FoundInv`); a release that may still
  write is the only one of its server (`ReleaseInv`); each server has one update waiting
  (`OneUpdateEach`), which agrees with its game (`UpdateInv`); a scheduled clean-up is the only
  one, of a free and dirty server without an update (`ServerInv`). From it `GamesKeepServers` and
  `CleanupsSpareGames`, which are not inductive without each other.
- **`GameServersProofs`** (any games, players, servers, reservations, failures). `PasswordsWork`,
  `PlayersGetIn` and `LinesCount`, with `Overlap = FALSE`: `MatchInv` follows the one configuration
  through its commands; whoever is to be let in is on the server, known not to be, read by the
  configuration, or about to be added (`LetInInv`), and a line carries the secret of its
  game (`LinesInv`). `AdminsKnowStatus`: `CallInv`, a call that met no other of its server still
  knows what is stored or what was announced. `StoredRunLatest`: the updates on their way end
  with the run as it is. `ReservationsEnd`: `RentInv` goes through the life of a reservation.
- **`PresenceProofs`** (any players, bans, sockets, timers, crashes). `AwayPlayersLeave`, with
  `Overlap = FALSE`: `AwayInv` adds that the player whose join() is under way has a socket or a timer
  that is not due yet; without it the timer could be spent before he takes his slot.
  `BannedPlayersLeave`, without that hypothesis: `BanInv` adds that no join() of the banned player
  is under way, and lets the queue be wrong only while it launches, since the reset empties
  it. `ProfilesShowBans`, with `Overlap = FALSE`: the last profile on its way to a client is right,
  whatever the ones before it say (`ProfileInv`).
- **`MembersProofs`** (any Steam IDs, requests, sessions, games, polls, deeds, refreshes).
  `SessionsContinue`: `KeyInv`, a process that is up signs with the stored key, which nobody replaces,
  and all tokens are signed with it; `RefreshInv`, who has a token or exchanges one has a session
  that has begun. `PlayersRegisterOnce` states `RegistersOnce`, which no run checks: the unique
  index on steamId lets one of several overlapping creations through. `ChangesNoticed`: by
  `NoticesInv` an old value that a deed has read is known in the same sense as what is stored, so
  that a comparison with a stale value hides no change. `BannedStreamsHidden`: no poll has found a
  stream of who was linked and banned since it began. `ChannelsStay`: `SweepInv`, the channel about
  to be removed has only users who came after the count. `PromptsShowQueue`: `PromptsInv`, the
  prompts there are are the cached one and the one about to be cached, the last edit is of the
  cached one, and what it is going to say is the queue's size unless a refresh waits.

`GameOverStays`, `EndsAreAnnounced`, `EmptyVotesEnd`, `ReadyStateIsTimed` and the like are proved
and need no run. The theorems named `...TypeCorrect` prove the type invariants; in
`GameServersProofs` and `MembersProofs` a last one puts the parts together as the run does.

**Only model-checked.** Liveness (`StatesEnd`, `PlayersAreFreed`, `ServersComeBack`): the prover has
no ENABLED, so that fairness cannot be used in a proof. The properties of the two runs that expect
a violation are false. The claims of section 4 about `Overlap = TRUE` are counterexamples of TLC.

## 6. Plan

The models are complete as far as section 7 says, and the safety properties of the runs are
proved. What is left:

1. The safety half of `ServersComeBack`: that a server that is not free has a game in progress, a
   release or a clean-up to come, as an invariant of `Servers`. Those of the other two liveness
   properties are proved (`WakeupsAreNotLost` and `ReadyStateIsTimed`; `NobodyIsStuck`).
2. Connection states of players in `Games`, and the game number.

## 7. Not modelled

The text of log lines, rcon commands and messages (parsing, formatting, layout), statistics,
preferences, documents and game configs (CRUD without a protocol), the read-only queries and
projections (announcements, profiles), migrations (run by a library at the start), the numbers
of skills and the providers of linked profiles, and Steam, ETF2L, Twitch, Discord, serveme.tf and
Mumble as services beyond what the code sees of them. `PROJECT.json` says so for each component.
