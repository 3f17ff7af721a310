------------------------------- MODULE Queue -------------------------------
(***************************************************************************)
(* The pickup queue: src/queue/services/queue.service.ts together with the *)
(* launcher that serves it, src/queue/services/auto-game-launcher.service. *)
(*                                                                         *)
(* The server is one Node process.  A step of this module is one callback  *)
(* of its event loop, run to completion: a websocket message, a timer, the *)
(* continuation of an awaited database call, or one setImmediate callback. *)
(* setImmediate callbacks run in batches (the check phase): those queued   *)
(* when the phase starts run back to back, with no other callback between  *)
(* them; queued and running count the two groups.                          *)
(***************************************************************************)
EXTENDS Naturals, FiniteSets

CONSTANTS
  Players,        \* players who have accepted the rules
  Slots,          \* ids of the queue slots
  NoPlayer,       \* the null of slot.playerId
  Bannable,       \* players an admin may ban in this instance
  MaxImmediates,  \* bound: slot changes in one turn of the event loop
  Launchers,      \* bound: launchGame() calls that can be in progress at once
  MaxCrashes      \* bound: how often the process dies

ASSUME QueueAssumption ==
  /\ IsFiniteSet(Slots)
  /\ \E s, t \in Slots : s # t    \* there are always two teams (queue-config.ts)
  /\ NoPlayer \notin Players
  /\ Bannable \subseteq Players
  /\ MaxImmediates \in Nat \ {0}
  /\ MaxCrashes \in Nat

VARIABLES
  slots,     \* QueueService.slots
  state,     \* QueueService.state
  timer,     \* QueueService.timer: what it will run when it fires
  queued,    \* setImmediate(maybeUpdateState) calls since the last check phase
  running,   \* callbacks left in the check phase being run
  joining,   \* the join() that holds QueueService.mutex
  launches,  \* the launchGame() calls
  inGame,    \* players whose activeGame is set (players collection)
  banned,    \* players with an active ban (playerbans collection)
  cache,     \* the queue last handed to cache.set()
  stored,    \* the queue the cache store holds
  crashes    \* how often the process died so far

queueVars == <<slots, state, timer, queued, running>>
storeVars == <<cache, stored>>
vars == <<slots, state, timer, queued, running, joining, launches, inGame,
          banned, cache, stored, crashes>>

-----------------------------------------------------------------------------
(* Slots.  The service only ever compares the counts with each other or with
   zero, so they are stated with quantifiers. *)

QueueState == {"waiting", "ready", "launching"}

QueueSlot == [player : Players \cup {NoPlayer}, ready : BOOLEAN]

FreeSlot == [player |-> NoPlayer, ready |-> FALSE]

EmptyQueue == [s \in Slots |-> FreeSlot]

PlayersOf(sl) == {sl[s].player : s \in Slots} \ {NoPlayer}

\* playerCount === requiredPlayerCount
IsFull(sl) == \A s \in Slots : sl[s].player # NoPlayer

\* playerCount === 0
IsEmpty(sl) == \A s \in Slots : sl[s].player = NoPlayer

\* Mutant: playerCount compared in place of readyPlayerCount.
AllTaken(sl) == \A s \in Slots : sl[s].player # NoPlayer

\* readyPlayerCount === requiredPlayerCount
AllReady(sl) == \A s \in Slots : sl[s].ready

\* The slots after the slots of the players of P are cleared.
Without(sl, P) ==
  [s \in Slots |-> IF sl[s].player \in P THEN FreeSlot ELSE sl[s]]

-----------------------------------------------------------------------------
NoJoin == [step |-> "none"]

\* join() suspends twice: for the player document and for his active bans.
JoinRequest ==
  [step : {"getById", "getPlayerActiveBans", "checks"}, player : Players,
   slot : Slots, busy : BOOLEAN, banned : BOOLEAN]

\* launchGame() keeps a reference to the slots array: live is TRUE while that
\* is still the array of the queue; reset() replaces it and freezes the copy.
Launch ==
  [step : {"idle", "getWinner", "create", "created"}, live : BOOLEAN,
   slots : [Slots -> QueueSlot], roster : SUBSET Players]

Idle == [step |-> "idle", live |-> FALSE, slots |-> EmptyQueue, roster |-> {}]

CachedQueue == [slots : [Slots -> QueueSlot], state : QueueState]

DefaultQueue == [slots |-> EmptyQueue, state |-> "waiting"]

TypeOK ==
  /\ slots \in [Slots -> QueueSlot]
  /\ state \in QueueState
  /\ timer \in {"none", "readyUp", "unready"}
  /\ queued \in 0..MaxImmediates
  /\ running \in 0..MaxImmediates
  /\ joining \in JoinRequest \cup {NoJoin}
  /\ launches \in [Launchers -> Launch]
  /\ inGame \in SUBSET Players
  /\ banned \in SUBSET Bannable
  /\ cache \in CachedQueue
  /\ stored \in CachedQueue
  /\ crashes \in 0..MaxCrashes

Init ==
  /\ slots = EmptyQueue
  /\ state = "waiting"
  /\ timer = "none"
  /\ queued = 0
  /\ running = 0
  /\ joining = NoJoin
  /\ launches = [l \in Launchers |-> Idle]
  /\ inGame = {}
  /\ banned = {}
  /\ cache = DefaultQueue
  /\ stored = DefaultQueue
  /\ crashes = 0

-----------------------------------------------------------------------------
(* Events.  Subscribers run synchronously inside next(). *)

\* A callback other than a setImmediate one starts: no check phase is running.
Turn == running = 0

\* queueSlotsChange.next(): one more setImmediate(maybeUpdateState), ...
ScheduleUpdate ==
  /\ queued < MaxImmediates
  /\ queued' = queued + 1

\* ... and the queue is handed to the cache.
SlotsChange ==
  /\ ScheduleUpdate
  /\ cache' = [slots |-> slots', state |-> state]

\* Mutant: entering the ready state sets no timer.
SetStateUntimed(st) ==
  /\ state' = st
  /\ timer' = "none"
  /\ cache' = [slots |-> slots', state |-> st]

\* setState(): the state changes, onStateChange() sets or clears the timer, and
\* the queue is handed to the cache.
SetState(st) ==
  /\ state' = st
  /\ timer' = IF st = "ready" THEN "readyUp" ELSE "none"
  /\ cache' = [slots |-> slots', state |-> st]

-----------------------------------------------------------------------------
(* join().  The checks of the state and of the mutex come first; the player and
   his bans are read while other callbacks run; everything after the second
   await happens in one turn. *)

JoinBegin(p, s) ==
  /\ Turn
  /\ joining = NoJoin
  /\ state # "launching"
  /\ joining' = [step |-> "getById", player |-> p, slot |-> s,
                 busy |-> FALSE, banned |-> FALSE]
  /\ UNCHANGED <<queueVars, launches, inGame, banned, storeVars, crashes>>

JoinReadPlayer ==
  /\ Turn
  /\ joining.step = "getById"
  /\ joining' = [joining EXCEPT !.step = "getPlayerActiveBans",
                                !.busy = joining.player \in inGame]
  /\ UNCHANGED <<queueVars, launches, inGame, banned, storeVars, crashes>>

JoinReadBans ==
  /\ Turn
  /\ joining.step = "getPlayerActiveBans"
  /\ joining' = [joining EXCEPT !.step = "checks",
                                !.banned = joining.player \in banned]
  /\ UNCHANGED <<queueVars, launches, inGame, banned, storeVars, crashes>>

\* PlayerIsBannedError, PlayerInvolvedInGameError, SlotOccupiedError
JoinRefused ==
  \/ joining.banned
  \/ joining.busy
  \/ slots[joining.slot].player # NoPlayer

JoinReject ==
  /\ Turn
  /\ joining.step = "checks"
  /\ JoinRefused
  /\ joining' = NoJoin
  /\ UNCHANGED <<queueVars, launches, inGame, banned, storeVars, crashes>>

\* Mutant: the player's old slots are not cleared.
JoinFinishTwice ==
  /\ Turn
  /\ joining.step = "checks"
  /\ ~ JoinRefused
  /\ slots' = [slots EXCEPT ![joining.slot].player = joining.player,
                            ![joining.slot].ready = (state = "ready")]
  /\ SlotsChange
  /\ joining' = NoJoin
  /\ UNCHANGED <<state, timer, running, launches, inGame, banned, stored,
                 crashes>>

JoinFinish ==
  /\ Turn
  /\ joining.step = "checks"
  /\ ~ JoinRefused
  /\ LET p     == joining.player
         moved == [Without(slots, {p}) EXCEPT ![joining.slot].player = p]
     IN  slots' = [moved EXCEPT ![joining.slot].ready =
                                  (state = "ready" \/ IsFull(moved))]
  /\ SlotsChange
  /\ joining' = NoJoin
  /\ UNCHANGED <<state, timer, running, launches, inGame, banned, stored,
                 crashes>>

-----------------------------------------------------------------------------
(* leave(), readyUp() and kick().  A call that throws changes nothing. *)

\* Mutant: leave() does not emit the slots change.
LeaveSilently(p) ==
  /\ Turn
  /\ \E s \in Slots :
       /\ slots[s].player = p
       /\ slots[s].ready => state = "waiting"
  /\ slots' = Without(slots, {p})
  /\ UNCHANGED <<queued, cache, state, timer, running, joining, launches, inGame,
                 banned, stored, crashes>>

Leave(p) ==
  /\ Turn
  /\ \E s \in Slots :
       /\ slots[s].player = p
       /\ slots[s].ready => state = "waiting"
  /\ slots' = Without(slots, {p})
  /\ SlotsChange
  /\ UNCHANGED <<state, timer, running, joining, launches, inGame, banned,
                 stored, crashes>>

ReadyUp(p) ==
  /\ Turn
  /\ state = "ready"
  /\ p \in PlayersOf(slots)
  /\ slots' = [s \in Slots |-> IF slots[s].player = p
                               THEN [slots[s] EXCEPT !.ready = TRUE]
                               ELSE slots[s]]
  /\ SlotsChange
  /\ UNCHANGED <<state, timer, running, joining, launches, inGame, banned,
                 stored, crashes>>

\* Mutant: kick() works in the launching state as well.
KickAlways(p) ==
  /\ Turn
  /\ slots' = Without(slots, {p})
  /\ SlotsChange
  /\ UNCHANGED <<state, timer, running, joining, launches, inGame, stored,
                 crashes>>

\* kick() is a no-op in the launching state; otherwise it emits a slots change
\* even if the player was not in the queue.
Kick(p) ==
  /\ Turn
  /\ \/ /\ state = "launching"
        /\ UNCHANGED <<slots, queued, cache>>
     \/ /\ state # "launching"
        /\ slots' = Without(slots, {p})
        /\ SlotsChange
  /\ UNCHANGED <<state, timer, running, joining, launches, inGame, stored,
                 crashes>>

Disconnect(p) ==
  /\ Kick(p)
  /\ UNCHANGED banned

\* addPlayerBan() stores the ban and announces it; the read between the two is
\* left out, as join() is the only one to look at the bans.
AddBan(p) ==
  /\ p \in Bannable \ banned
  /\ banned' = banned \cup {p}
  /\ Kick(p)

-----------------------------------------------------------------------------
(* maybeUpdateState(), the setImmediate callback *)

StartCheckPhase ==
  /\ Turn
  /\ queued > 0
  /\ running' = queued
  /\ queued' = 0
  /\ UNCHANGED <<slots, state, timer, joining, launches, inGame, banned,
                 storeVars, crashes>>

\* One callback of the check phase, all but the body of maybeUpdateState().
Immediate ==
  /\ running > 0
  /\ running' = running - 1
  /\ UNCHANGED <<slots, queued, joining, inGame, banned, stored, crashes>>

QueueFills ==
  /\ Immediate
  /\ state = "waiting"
  /\ IsFull(slots)
  /\ SetState("ready")
  /\ UNCHANGED launches

QueueEmpties ==
  /\ Immediate
  /\ state = "ready"
  /\ IsEmpty(slots)
  /\ SetState("waiting")
  /\ UNCHANGED launches

\* AutoGameLauncherService subscribes to the change to launching: launchGame()
\* runs up to its first await, holding a reference to the slots.
StartLaunch ==
  /\ Immediate
  /\ state = "ready"
  /\ AllReady(slots)
  /\ SetState("launching")
  /\ \E l \in Launchers :
       /\ launches[l] = Idle
       /\ launches' = [launches EXCEPT ![l] = [Idle EXCEPT !.step = "getWinner",
                                                          !.live = TRUE]]

LaunchingEnds ==
  /\ Immediate
  /\ state = "launching"
  /\ SetState("waiting")
  /\ UNCHANGED launches

NothingToUpdate ==
  /\ Immediate
  /\ \/ state = "waiting" /\ ~ IsFull(slots)
     \/ state = "ready" /\ ~ IsEmpty(slots) /\ ~ AllReady(slots)
  /\ UNCHANGED <<state, timer, launches, cache>>

-----------------------------------------------------------------------------
(* The two timers of the ready-up state.  readyUpTimeout is 40 s and
   readyStateTimeout 60 s (configs/queue.ts:5,11), so that the second timer
   always has 20 s to run. *)

\* kickUnreadyPlayers() also passes the null ids of the free slots to kick(),
\* which finds a free slot and clears it again.
ReadyUpTimeout ==
  /\ Turn
  /\ timer = "readyUp"
  /\ IF AllReady(slots)
     THEN UNCHANGED <<slots, queued, cache>>
     ELSE /\ slots' = [s \in Slots |-> IF slots[s].ready THEN slots[s]
                                                         ELSE FreeSlot]
          /\ SlotsChange
  /\ timer' = "unready"
  /\ UNCHANGED <<state, running, joining, launches, inGame, banned, stored,
                 crashes>>

\* Mutant: the ready flags stay.
UnreadyKeepingFlags ==
  /\ Turn
  /\ timer = "unready"
  /\ slots' = slots
  /\ ScheduleUpdate
  /\ SetState("waiting")
  /\ UNCHANGED <<running, joining, launches, inGame, banned, stored, crashes>>

\* unreadyQueue()
UnreadyQueue ==
  /\ Turn
  /\ timer = "unready"
  /\ slots' = [s \in Slots |-> [slots[s] EXCEPT !.ready = FALSE]]
  /\ ScheduleUpdate
  /\ SetState("waiting")
  /\ UNCHANGED <<running, joining, launches, inGame, banned, stored, crashes>>

-----------------------------------------------------------------------------
(* launchGame() *)

\* The launches that have not ended.
InProgress == {l \in Launchers : launches[l].step # "idle"}

\* The slots a launch refers to.
SlotsOf(l) == IF launches[l].live THEN slots ELSE launches[l].slots

\* Mutant: create() does not check that the queue is full.
CreateAnyGame(l) ==
  /\ Turn
  /\ launches[l].step = "getWinner"
  /\ launches' = [launches EXCEPT ![l].step = "create",
                                  ![l].roster = PlayersOf(SlotsOf(l))]
  /\ UNCHANGED <<queueVars, joining, inGame, banned, storeVars, crashes>>

\* getWinner() resolves and gamesService.create() starts: it requires a full
\* queue and reads the players of all the slots in the same turn.
CreateGame(l) ==
  /\ Turn
  /\ launches[l].step = "getWinner"
  /\ IsFull(SlotsOf(l))
  /\ launches' = [launches EXCEPT ![l].step = "create",
                                  ![l].roster = PlayersOf(SlotsOf(l))]
  /\ UNCHANGED <<queueVars, joining, inGame, banned, storeVars, crashes>>

\* The game is in the database and every player's activeGame is set.
SetActiveGames(l) ==
  /\ Turn
  /\ launches[l].step = "create"
  /\ inGame' = inGame \cup launches[l].roster
  /\ launches' = [launches EXCEPT ![l].step = "created"]
  /\ UNCHANGED <<queueVars, joining, banned, storeVars, crashes>>

\* create() resolves and queueService.reset() replaces the slots; the launches
\* that still refer to the old array keep it.
Reset(l) ==
  /\ Turn
  /\ launches[l].step = "created"
  /\ slots' = EmptyQueue
  /\ SlotsChange
  /\ launches' = [k \in Launchers |->
                     IF k = l THEN Idle
                     ELSE IF launches[k].live
                          THEN [launches[k] EXCEPT !.live = FALSE, !.slots = slots]
                          ELSE launches[k]]
  /\ UNCHANGED <<state, timer, running, joining, inGame, banned, stored,
                 crashes>>

-----------------------------------------------------------------------------
(* The players' other documents, and the process itself *)

\* A game is over for a player: his activeGame is unset.
LeaveGame(p) ==
  /\ Turn
  /\ p \in inGame
  /\ inGame' = inGame \ {p}
  /\ UNCHANGED <<queueVars, joining, launches, banned, storeVars, crashes>>

BanExpires(p) ==
  /\ Turn
  /\ p \in banned
  /\ banned' = banned \ {p}
  /\ UNCHANGED <<queueVars, joining, launches, inGame, storeVars, crashes>>

\* cacheQueue()'s write reaches the store.  (It matters only before a crash.)
StoreQueue ==
  /\ Turn
  /\ crashes < MaxCrashes
  /\ stored # cache
  /\ stored' = cache
  /\ UNCHANGED <<queueVars, joining, launches, inGame, banned, cache, crashes>>

\* The entry outlives its ttl of 180 s.
CacheExpires ==
  /\ Turn
  /\ crashes < MaxCrashes
  /\ stored # DefaultQueue
  /\ stored' = DefaultQueue
  /\ UNCHANGED <<queueVars, joining, launches, inGame, banned, cache, crashes>>

\* The process dies and starts again: onModuleInit() restores the slots and the
\* state from the cache.  No timer and no immediate survives, and the restored
\* state is set without an event.
Boot ==
  /\ crashes < MaxCrashes
  /\ crashes' = crashes + 1
  /\ slots' = stored.slots
  /\ state' = stored.state
  /\ timer' = "none"
  /\ queued' = 0
  /\ running' = 0
  /\ joining' = NoJoin
  /\ launches' = [l \in Launchers |-> Idle]
  /\ cache' = stored
  /\ UNCHANGED <<inGame, banned, stored>>

Restart == Boot

\* launchGame() fails: create() throws 'queue not full', or finds no line-up, or
\* a database call fails.  Nothing awaits or catches launchGame(), so that the
\* rejection ends the process (node:lts-alpine, Dockerfile:25).
LaunchFails(l) ==
  /\ Turn
  /\ launches[l].step \in {"getWinner", "create"}
  /\ Boot

-----------------------------------------------------------------------------
Next ==
  \/ \E p \in Players, s \in Slots : JoinBegin(p, s)
  \/ JoinReadPlayer
  \/ JoinReadBans
  \/ JoinReject
  \/ JoinFinish
  \/ \E p \in Players :
       Leave(p) \/ ReadyUp(p) \/ Disconnect(p) \/ AddBan(p)
         \/ LeaveGame(p) \/ BanExpires(p)
  \/ StartCheckPhase
  \/ QueueFills
  \/ QueueEmpties
  \/ StartLaunch
  \/ LaunchingEnds
  \/ NothingToUpdate
  \/ ReadyUpTimeout
  \/ UnreadyQueue
  \/ \E l \in Launchers :
       CreateGame(l) \/ SetActiveGames(l) \/ Reset(l) \/ LaunchFails(l)
  \/ StoreQueue
  \/ CacheExpires
  \/ Restart

Spec == Init /\ [][Next]_vars

\* What the runtime owes the queue: the event loop reaches its check phase and
\* runs it to the end; a timer that is due fires and an awaited call returns
\* however many other callbacks the loop serves in between (strong fairness:
\* each of those callbacks disables them for the length of a turn).
Fairness ==
  /\ WF_vars(StartCheckPhase)
  /\ WF_vars(QueueFills \/ QueueEmpties \/ StartLaunch \/ LaunchingEnds
               \/ NothingToUpdate)
  /\ SF_vars(ReadyUpTimeout)
  /\ SF_vars(UnreadyQueue)
  /\ \A l \in Launchers :
       SF_vars(CreateGame(l) \/ SetActiveGames(l) \/ Reset(l))

FairSpec == Spec /\ Fairness

-----------------------------------------------------------------------------
(* Safety, whatever the order of events, and across crashes *)

\* A player never occupies two slots, although join() moves him between slots
\* and a whole launch may pass while it waits for the database.
PlayerInOneSlot ==
  \A s, t \in Slots :
    slots[s].player = slots[t].player /\ slots[s].player # NoPlayer => s = t

\* A free slot is never ready: otherwise readyPlayerCount would count it and the
\* queue could launch with a hole in it.
ReadySlotIsTaken == \A s \in Slots : slots[s].ready => slots[s].player # NoPlayer

\* A game is created for as many different players as the queue has slots, even
\* by a launch whose slots were replaced or changed while it was waiting.
RosterIsComplete ==
  \A l \in Launchers :
    launches[l].step \in {"create", "created"} =>
      Cardinality(launches[l].roster) = Cardinality(Slots)

\* Both timers belong to the ready state: none of them can fire into a launch.
TimerOnlyWhenReady == timer # "none" => state = "ready"

-----------------------------------------------------------------------------
(* Safety when the event loop reaches its check phase after every slot change
   and the process does not die (MaxImmediates = 1, MaxCrashes = 0) *)

\* The queue never rests in a state maybeUpdateState() would leave: a callback
\* is pending, or a launch that will reset the queue is in progress.
NoLostWakeup ==
  queued = 0 /\ running = 0 =>
    /\ state = "waiting" => ~ IsFull(slots)
    /\ state = "ready" => ~ IsEmpty(slots) /\ ~ AllReady(slots)
    /\ state = "launching" => InProgress # {}

\* From the change to launching until the reset, one launch is in progress and
\* the slots it refers to stay full and ready: its create() never finds a hole.
LaunchIsUndisturbed ==
  /\ \A k, l \in InProgress : k = l
  /\ \A l \in InProgress : /\ state = "launching"
                           /\ launches[l].live
                           /\ IsFull(slots)
                           /\ AllReady(slots)

\* The ready state always has a timer that will end it.
ReadyHasTimer == state = "ready" => timer # "none"

\* The reset after a launch drops the players of the created game and nobody
\* else, although the game was created from slots read several awaits earlier.
ResetDropsOnlyLaunched ==
  [][\A l \in Launchers :
       Reset(l) => PlayersOf(slots) = launches[l].roster]_vars

\* A launch is in progress only in the launching state: "everybody has readied
\* up, the game is being launched" (queue-state.ts).
LaunchingStateCoversLaunch == InProgress # {} => state = "launching"

\* The ready-up state ends, for everyone readies up or the second timer fires ("Time
\* the queue stays in ready-up state before going back to the 'waiting' state",
\* configs/queue.ts); a launch ends and gives the queue back ("Automatically launches
\* a game once the queue is ready to play it", auto-game-launcher.service.ts).
StatesEnd ==
  /\ state = "ready" ~> state # "ready"
  /\ state = "launching" ~> state = "waiting"

\* A launch that a restart of the process interrupted ends, too.
RestoredLaunchEnds == state = "launching" /\ crashes > 0 ~> state = "waiting"

-----------------------------------------------------------------------------
(* The abstract queue *)

R == INSTANCE Roster WITH
       Size <- Cardinality(Slots),
       phase <- state,
       members <- PlayersOf(slots),
       readied <- {slots[s].player : s \in {t \in Slots : slots[t].ready}}

\* The service hands whole rosters over: the roster is frozen from the last
\* ready-up to the reset, and the queue opens again only after it.
RefinesRoster == R!RosterSpec
=============================================================================
