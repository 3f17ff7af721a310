------------------------------- MODULE Games -------------------------------
(***************************************************************************)
(* The life of the games: src/games/services (games, game-event-handler,   *)
(* game-runtime, player-substitution) and the activeGame of the players.   *)
(*                                                                         *)
(* A step is what one await of the code separates from the next: a write   *)
(* to the database with the events that follow it, or a read with the      *)
(* checks made on it.  Every operation keeps the values it has read.       *)
(* PlayerSubstitutionService and GAME_MODEL_MUTEX serialise their own      *)
(* operations; forceEnd() and the release of the players take no mutex.    *)
(*                                                                         *)
(* The queue is what Queue shows of it: a set of players who cannot leave  *)
(* it from the launch to the reset.  join() is a single step here.         *)
(***************************************************************************)
EXTENDS Naturals, Sequences, FiniteSets

CONSTANTS
  Players,
  GameIds,
  NoPlayer,
  NoGame,        \* activeGame is not set
  Size,          \* how many players a game needs
  Medics,        \* which of the places 1..Size are medics
  Overlap,       \* may the operations on a game or a player overlap?
  MaxSlots,      \* bound: slots of a game, the replaced ones included
  MaxCrashes     \* bound: how often the process dies

ASSUME GamesAssumption ==
  /\ NoPlayer \notin Players
  /\ NoGame \notin GameIds
  /\ Size \in Nat \ {0, 1}
  /\ Medics \subseteq 1..Size
  /\ Overlap \in BOOLEAN
  /\ MaxSlots \in Nat
  /\ MaxCrashes \in Nat

VARIABLES
  games,       \* the games collection
  activeGame,  \* activeGame of the players
  queue,       \* players in the queue
  launch,      \* the create() of AutoGameLauncherService.launchGame()
  sub,         \* the operation that holds PlayerSubstitutionService.mutex
  model,       \* the operation that holds GAME_MODEL_MUTEX
  forcing,     \* the forceEnd() of a game
  timers,      \* games whose freeAllPlayers() timer is set
  unsets,      \* updatePlayer($unset: activeGame) calls in progress
  ends,        \* how often a game's end was announced (gameChanges), up to 2
  crashes

dbVars == <<games, activeGame>>
vars == <<games, activeGame, queue, launch, sub, model, forcing, timers, unsets,
          ends, crashes>>

-----------------------------------------------------------------------------
GameState == {"none", "launching", "started", "ended", "interrupted"}

SlotStatus == {"active", "waiting for substitute", "replaced"}

\* place stands for the slot's team and class.
GameSlot == [player : Players, place : 1..Size, status : SlotStatus]

Game == [state : GameState, slots : Seq(GameSlot)]

NotCreated == [state |-> "none", slots |-> <<>>]

\* isInProgress()
InProgress(g) == games[g].state \in {"launching", "started"}

Over(g) == games[g].state \in {"ended", "interrupted"}

PlayersOf(sl) == {sl[i].player : i \in DOMAIN sl}

\* Slot i holds its place in the team.
Holds(sl, i) == sl[i].status # "replaced"

HasPlace(g, p) ==
  \E i \in DOMAIN games[g].slots :
    games[g].slots[i].player = p /\ Holds(games[g].slots, i)
\* Mutant: any slot of the player will do.
AnySlotHas(g, p, status) ==
  \E i \in DOMAIN games[g].slots :
    /\ games[g].slots[i].player = p
    /\ games[g].slots[i].status = status

\* findPlayerSlot(): the first slot of the player, whatever its status.
FirstSlotHas(g, p, status) ==
  \E i \in DOMAIN games[g].slots :
    /\ games[g].slots[i].player = p
    /\ games[g].slots[i].status = status
    /\ \A j \in DOMAIN games[g].slots : j < i => games[g].slots[j].player # p

\* The array filter on element.player marks every slot of the player.
WithStatus(sl, p, status) ==
  [i \in DOMAIN sl |-> IF sl[i].player = p
                       THEN [sl[i] EXCEPT !.status = status] ELSE sl[i]]

\* The array filter on element.status: requests end with the game.
Settled(sl) ==
  [i \in DOMAIN sl |-> IF sl[i].status = "waiting for substitute"
                       THEN [sl[i] EXCEPT !.status = "active"] ELSE sl[i]]

-----------------------------------------------------------------------------
Launch == [step : {"idle", "getWinner", "assign"}, game : GameIds \cup {NoGame},
           pending : SUBSET Players]

NoLaunch == [step |-> "idle", game |-> NoGame, pending |-> {}]

\* What a substitution has read; step is what it does next.
Substitution ==
  [step : {"idle", "substitute", "cancel", "getGame", "takeOwn", "push", "mark",
           "assign", "release"},
   game : GameIds \cup {NoGame}, replacee : Players \cup {NoPlayer},
   replacement : Players \cup {NoPlayer}, place : 0..Size, live : BOOLEAN]

NoSubstitution ==
  [step |-> "idle", game |-> NoGame, replacee |-> NoPlayer,
   replacement |-> NoPlayer, place |-> 0, live |-> FALSE]

ModelUpdate == [step : {"idle", "update", "freeAllMedics", "free"},
                game : GameIds \cup {NoGame}, live : BOOLEAN]

NoModelUpdate == [step |-> "idle", game |-> NoGame, live |-> FALSE]

Unset == [by : {"medics", "timer", "force"}, game : GameIds, player : Players]

TypeOK ==
  /\ games \in [GameIds -> Game]
  /\ activeGame \in [Players -> GameIds \cup {NoGame}]
  /\ queue \in SUBSET Players
  /\ launch \in Launch
  /\ sub \in Substitution
  /\ model \in ModelUpdate
  /\ forcing \in [GameIds -> {"none", "live", "over", "done"}]
  /\ timers \in SUBSET GameIds
  /\ unsets \in SUBSET Unset
  /\ ends \in [GameIds -> 0..2]
  /\ crashes \in 0..MaxCrashes

Init ==
  /\ games = [g \in GameIds |-> NotCreated]
  /\ activeGame = [p \in Players |-> NoGame]
  /\ queue = {}
  /\ launch = NoLaunch
  /\ sub = NoSubstitution
  /\ model = NoModelUpdate
  /\ forcing = [g \in GameIds |-> "none"]
  /\ timers = {}
  /\ unsets = {}
  /\ ends = [g \in GameIds |-> 0]
  /\ crashes = 0

-----------------------------------------------------------------------------
(* With Overlap, everything below happens at any time.  Without it, a player who
   has left a game, or whose game is over, enters another one only when its players
   are released, and a game ends once and not under an operation on it. *)

Released(g) ==
  /\ Over(g)
  /\ model.game # g
  /\ g \notin timers
  /\ forcing[g] \notin {"live", "over"}
  /\ \A u \in unsets : u.game # g

Attached(p, g) ==
  /\ p \in PlayersOf(games[g].slots)
  /\ ~ (InProgress(g) /\ HasPlace(g, p))
  /\ ~ Released(g)

Unattached(p, G) == Overlap \/ ~ \E g \in G : Attached(p, g)

Undisturbed(g) ==
  Overlap \/ /\ InProgress(g)
             /\ sub.game # g
             /\ launch.game # g
             /\ model.game # g
             /\ forcing[g] \notin {"live", "over"}

\* gameChanges.next({ oldGame, newGame }): subscribers that wait for the end of
\* the game compare the two.
GameChanges(g, live) ==
  ends' = IF live /\ games'[g].state \in {"ended", "interrupted"}
          THEN [ends EXCEPT ![g] = IF @ = 0 THEN 1 ELSE 2] ELSE ends

-----------------------------------------------------------------------------
(* The queue and create() *)

\* Bound: the queue fills only for a game that can still be created.
GamesLeft == \E g \in GameIds : games[g] = NotCreated

JoinQueue(p) ==
  /\ GamesLeft
  /\ activeGame[p] = NoGame
  /\ launch.step = "idle"
  /\ Cardinality(queue \cup {p}) <= Size
  /\ Unattached(p, GameIds)
  /\ sub.replacement = p => Overlap
  /\ queue' = queue \cup {p}
  /\ UNCHANGED <<dbVars, launch, sub, model, forcing, timers, unsets, ends,
                 crashes>>

\* leave() or kick(): nobody leaves between the last ready-up and the reset.
LeaveQueue(p) ==
  /\ launch.step = "idle"
  /\ p \in queue
  /\ queue' = queue \ {p}
  /\ UNCHANGED <<dbVars, launch, sub, model, forcing, timers, unsets, ends,
                 crashes>>

BeginLaunch ==
  /\ GamesLeft
  /\ launch.step = "idle"
  /\ Cardinality(queue) = Size
  /\ sub.replacement \in queue => Overlap
  /\ launch' = [NoLaunch EXCEPT !.step = "getWinner"]
  /\ UNCHANGED <<dbVars, queue, sub, model, forcing, timers, unsets, ends,
                 crashes>>

\* create() stores the game; pickTeams() gives every player of the queue a place.
CreateGame(g) ==
  /\ launch.step = "getWinner"
  /\ games[g] = NotCreated
  /\ \E player \in [1..Size -> queue] :
       /\ \A p \in queue : \E i \in 1..Size : player[i] = p
       /\ games' = [games EXCEPT ![g] =
            [state |-> "launching",
             slots |-> [i \in 1..Size |->
               [player |-> player[i], place |-> i, status |-> "active"]]]]
  /\ launch' = [step |-> "assign", game |-> g, pending |-> queue]
  /\ UNCHANGED <<activeGame, queue, sub, model, forcing, timers, unsets, ends,
                 crashes>>

\* The updatePlayer() calls of create() run in parallel.
AssignGame(p) ==
  /\ launch.step = "assign"
  /\ p \in launch.pending
  /\ activeGame' = [activeGame EXCEPT ![p] = launch.game]
  /\ launch' = [launch EXCEPT !.pending = @ \ {p}]
  /\ UNCHANGED <<games, queue, sub, model, forcing, timers, unsets, ends,
                 crashes>>

ResetQueue ==
  /\ launch.step = "assign"
  /\ launch.pending = {}
  /\ queue' = {}
  /\ launch' = NoLaunch
  /\ UNCHANGED <<dbVars, sub, model, forcing, timers, unsets, ends, crashes>>

-----------------------------------------------------------------------------
(* The match, as the log of the game server reports it *)
MatchStarts(g) ==
  /\ model.step = "idle"
  /\ games[g].state = "launching"
  /\ games' = [games EXCEPT ![g].state = "started"]
  /\ UNCHANGED <<activeGame, queue, launch, sub, model, forcing, timers, unsets,
                 ends, crashes>>
\* Mutant: requests outlive the game.
MatchEndsUnsettled(g) ==
  /\ model.step = "idle"
  /\ games[g].state = "started"
  /\ Undisturbed(g)
  /\ games' = [games EXCEPT ![g].state = "ended"]
  /\ GameChanges(g, TRUE)
  /\ model' = [NoModelUpdate EXCEPT !.step = "freeAllMedics", !.game = g]
  /\ UNCHANGED <<activeGame, queue, launch, sub, forcing, timers, unsets, crashes>>

\* onMatchEnded(): the mutex is held until the medics are released.
MatchEnds(g) ==
  /\ model.step = "idle"
  /\ games[g].state = "started"
  /\ Undisturbed(g)
  /\ games' = [games EXCEPT ![g].state = "ended", ![g].slots = Settled(@)]
  /\ GameChanges(g, TRUE)
  /\ model' = [NoModelUpdate EXCEPT !.step = "freeAllMedics", !.game = g]
  /\ UNCHANGED <<activeGame, queue, launch, sub, forcing, timers, unsets, crashes>>

\* The unsets that release the players of P, also those who were replaced.
UnsetsOf(by, g, P) == {[by |-> by, game |-> g, player |-> p] : p \in P}

FreeAllMedics ==
  /\ model.step = "freeAllMedics"
  /\ LET g == model.game
         sl == games[g].slots
     IN  unsets' = unsets \cup UnsetsOf("medics", g,
           {sl[i].player : i \in {j \in DOMAIN sl : sl[j].place \in Medics}})
  /\ model' = [model EXCEPT !.step = "free"]
  /\ UNCHANGED <<dbVars, queue, launch, sub, forcing, timers, ends, crashes>>

MedicsAreFree ==
  /\ model.step = "free"
  /\ \A u \in unsets : ~ (u.by = "medics" /\ u.game = model.game)
  /\ timers' = timers \cup {model.game}
  /\ model' = NoModelUpdate
  /\ UNCHANGED <<dbVars, queue, launch, sub, forcing, unsets, ends, crashes>>

\* freeAllPlayers(), five seconds later.
FreeAllPlayers(g) ==
  /\ g \in timers
  /\ timers' = timers \ {g}
  /\ unsets' = unsets \cup UnsetsOf("timer", g, PlayersOf(games[g].slots))
  /\ UNCHANGED <<dbVars, queue, launch, sub, model, forcing, ends, crashes>>

UnsetActiveGame(u) ==
  /\ u \in unsets
  /\ unsets' = unsets \ {u}
  /\ activeGame' = [activeGame EXCEPT ![u.player] = NoGame]
  /\ UNCHANGED <<games, queue, launch, sub, model, forcing, timers, ends, crashes>>

\* update() and setPlayerConnectionStatus(): scores, logs, connection strings and
\* statuses are left out, the events they emit are not.
BeginUpdate(g) ==
  /\ model.step = "idle"
  /\ games[g].state # "none"
  /\ model' = [step |-> "update", game |-> g, live |-> InProgress(g)]
  /\ UNCHANGED <<dbVars, queue, launch, sub, forcing, timers, unsets, ends,
                 crashes>>

EndUpdate ==
  /\ model.step = "update"
  /\ UNCHANGED games
  /\ GameChanges(model.game, model.live)
  /\ model' = NoModelUpdate
  /\ UNCHANGED <<activeGame, queue, launch, sub, forcing, timers, unsets, crashes>>

-----------------------------------------------------------------------------
(* forceEnd() reads the game, interrupts it whatever its state, and releases its
   players. *)

BeginForceEnd(g) ==
  /\ forcing[g] = "none"
  /\ games[g].state # "none"
  /\ Undisturbed(g)
  /\ forcing' = [forcing EXCEPT ![g] = IF InProgress(g) THEN "live" ELSE "over"]
  /\ UNCHANGED <<dbVars, queue, launch, sub, model, timers, unsets, ends, crashes>>
ForceEnd(g) ==
  /\ forcing[g] \in {"live", "over"}
  /\ games' = [games EXCEPT ![g].state = "interrupted", ![g].slots = Settled(@)]
  /\ GameChanges(g, forcing[g] = "live")
  /\ forcing' = [forcing EXCEPT ![g] = "done"]
  /\ unsets' = unsets \cup UnsetsOf("force", g, PlayersOf(games[g].slots))
  /\ UNCHANGED <<activeGame, queue, launch, sub, model, timers, crashes>>

-----------------------------------------------------------------------------
(* Substitutions.  A call that throws, or finds nothing to do, changes nothing. *)

BeginSubstitute(g, p) ==
  /\ sub.step = "idle"
  /\ InProgress(g)
  /\ FirstSlotHas(g, p, "active")
  /\ forcing[g] = "live" => Overlap
  /\ sub' = [NoSubstitution EXCEPT !.step = "substitute", !.game = g,
                                   !.replacee = p, !.live = TRUE]
  /\ UNCHANGED <<dbVars, queue, launch, model, forcing, timers, unsets, ends,
                 crashes>>

BeginCancel(g, p) ==
  /\ sub.step = "idle"
  /\ InProgress(g)
  /\ FirstSlotHas(g, p, "waiting for substitute")
  /\ forcing[g] = "live" => Overlap
  /\ sub' = [NoSubstitution EXCEPT !.step = "cancel", !.game = g,
                                   !.replacee = p, !.live = TRUE]
  /\ UNCHANGED <<dbVars, queue, launch, model, forcing, timers, unsets, ends,
                 crashes>>

\* The write that ends substitutePlayer(), cancelSubstitutionRequest(), and
\* replacePlayer() for a player who takes his own slot back.
MarkSlots(step, status) ==
  /\ sub.step = step
  /\ games' = [games EXCEPT ![sub.game].slots =
                 WithStatus(@, sub.replacee, status)]
  /\ GameChanges(sub.game, sub.live)
  /\ sub' = NoSubstitution
  /\ UNCHANGED <<activeGame, queue, launch, model, forcing, timers, unsets,
                 crashes>>

Substitute == MarkSlots("substitute", "waiting for substitute")

Cancel == MarkSlots("cancel", "active")

TakeOwnSlot == MarkSlots("takeOwn", "active")

WaitingSlots(g, p) ==
  {i \in DOMAIN games[g].slots :
     /\ games[g].slots[i].player = p
     /\ games[g].slots[i].status = "waiting for substitute"}
\* Mutant: activeGame of the replacement is not checked.
BeginReplaceAnybody(g, x, y) ==
  /\ sub.step = "idle"
  /\ WaitingSlots(g, x) # {}
  /\ Overlap \/ /\ forcing[g] # "live"
                /\ y \in queue => launch.step = "idle"
  /\ Unattached(y, GameIds \ {g})
  /\ sub' = [NoSubstitution EXCEPT !.step = "getGame", !.game = g,
               !.replacee = x, !.replacement = y]
  /\ UNCHANGED <<dbVars, queue, launch, model, forcing, timers, unsets, ends,
                 crashes>>

\* replacePlayer() reads the replacement first, ...
BeginReplace(g, x, y) ==
  /\ sub.step = "idle"
  /\ WaitingSlots(g, x) # {}
  /\ x = y \/ activeGame[y] = NoGame
  /\ Overlap \/ /\ forcing[g] # "live"
                /\ y \in queue => launch.step = "idle"
  /\ Unattached(y, GameIds \ {g})
  /\ sub' = [NoSubstitution EXCEPT !.step = "getGame", !.game = g,
               !.replacee = x, !.replacement = y]
  /\ UNCHANGED <<dbVars, queue, launch, model, forcing, timers, unsets, ends,
                 crashes>>

\* ... then the game, which may have ended since: no slot waits any more.
NothingToReplace ==
  /\ sub.step = "getGame"
  /\ WaitingSlots(sub.game, sub.replacee) = {}
  /\ sub' = NoSubstitution
  /\ UNCHANGED <<dbVars, queue, launch, model, forcing, timers, unsets, ends,
                 crashes>>

ReplaceOwn ==
  /\ sub.step = "getGame"
  /\ sub.replacee = sub.replacement
  /\ WaitingSlots(sub.game, sub.replacee) # {}
  /\ sub' = [sub EXCEPT !.step = "takeOwn", !.live = InProgress(sub.game)]
  /\ UNCHANGED <<dbVars, queue, launch, model, forcing, timers, unsets, ends,
                 crashes>>
\* The replacement takes the place of the first slot that waits.
ReplaceOther ==
  /\ sub.step = "getGame"
  /\ sub.replacee # sub.replacement
  /\ Len(games[sub.game].slots) < MaxSlots
  /\ \E i \in WaitingSlots(sub.game, sub.replacee) :
       /\ \A j \in WaitingSlots(sub.game, sub.replacee) : i <= j
       /\ sub' = [sub EXCEPT !.step = "push", !.live = InProgress(sub.game),
                             !.place = games[sub.game].slots[i].place]
  /\ UNCHANGED <<dbVars, queue, launch, model, forcing, timers, unsets, ends,
                 crashes>>
\* Mutant: the new slot is not written.
PushSlotLost ==
  /\ sub.step = "push"
  /\ UNCHANGED games
  /\ sub' = [sub EXCEPT !.step = "mark"]
  /\ UNCHANGED <<activeGame, queue, launch, model, forcing, timers, unsets, ends,
                 crashes>>

PushSlot ==
  /\ sub.step = "push"
  /\ games' = [games EXCEPT ![sub.game].slots =
       Append(@, [player |-> sub.replacement, place |-> sub.place,
                  status |-> "active"])]
  /\ sub' = [sub EXCEPT !.step = "mark"]
  /\ UNCHANGED <<activeGame, queue, launch, model, forcing, timers, unsets, ends,
                 crashes>>
\* Mutant: the array filter matches the team and class.
MarkReplacedInPlace ==
  /\ sub.step = "mark"
  /\ games' = [games EXCEPT ![sub.game].slots =
                 [i \in DOMAIN @ |-> IF @[i].place = sub.place
                   THEN [@[i] EXCEPT !.status = "replaced"] ELSE @[i]]]
  /\ GameChanges(sub.game, sub.live)
  /\ queue' = IF launch.step = "idle" THEN queue \ {sub.replacement} ELSE queue
  /\ sub' = [sub EXCEPT !.step = "assign"]
  /\ UNCHANGED <<activeGame, launch, model, forcing, timers, unsets, crashes>>

\* The replacee's slots are marked and the replacement is kicked from the queue.
MarkReplaced ==
  /\ sub.step = "mark"
  /\ games' = [games EXCEPT ![sub.game].slots =
                 WithStatus(@, sub.replacee, "replaced")]
  /\ GameChanges(sub.game, sub.live)
  /\ queue' = IF launch.step = "idle" THEN queue \ {sub.replacement} ELSE queue
  /\ sub' = [sub EXCEPT !.step = "assign"]
  /\ UNCHANGED <<activeGame, launch, model, forcing, timers, unsets, crashes>>

AssignReplacement ==
  /\ sub.step = "assign"
  /\ activeGame' = [activeGame EXCEPT ![sub.replacement] = sub.game]
  /\ sub' = [sub EXCEPT !.step = "release"]
  /\ UNCHANGED <<games, queue, launch, model, forcing, timers, unsets, ends,
                 crashes>>
\* Mutant: the wrong one of the two is released.
ReleaseReplacement ==
  /\ sub.step = "release"
  /\ activeGame' = [activeGame EXCEPT ![sub.replacement] = NoGame]
  /\ sub' = NoSubstitution
  /\ UNCHANGED <<games, queue, launch, model, forcing, timers, unsets, ends,
                 crashes>>

ReleaseReplacee ==
  /\ sub.step = "release"
  /\ activeGame' = [activeGame EXCEPT ![sub.replacee] = NoGame]
  /\ sub' = NoSubstitution
  /\ UNCHANGED <<games, queue, launch, model, forcing, timers, unsets, ends,
                 crashes>>

-----------------------------------------------------------------------------
\* Mutant: releaseAllPlayers() does not run.
RestartWithoutRelease ==
  /\ crashes < MaxCrashes
  /\ crashes' = crashes + 1
  /\ UNCHANGED activeGame
  /\ queue' = {}
  /\ launch' = NoLaunch
  /\ sub' = NoSubstitution
  /\ model' = NoModelUpdate
  /\ forcing' = [g \in GameIds |->
       IF forcing[g] = "done" THEN "done" ELSE "none"]
  /\ timers' = {}
  /\ unsets' = {}
  /\ UNCHANGED <<games, ends>>

\* The process dies and starts again: releaseAllPlayers() runs, everything else
\* that was in progress is lost.  (The restored queue is Queue's subject.)
Restart ==
  /\ crashes < MaxCrashes
  /\ crashes' = crashes + 1
  /\ activeGame' = [p \in Players |->
       IF activeGame[p] # NoGame /\ Over(activeGame[p]) THEN NoGame
                                                        ELSE activeGame[p]]
  /\ queue' = {}
  /\ launch' = NoLaunch
  /\ sub' = NoSubstitution
  /\ model' = NoModelUpdate
  /\ forcing' = [g \in GameIds |->
       IF forcing[g] = "done" THEN "done" ELSE "none"]
  /\ timers' = {}
  /\ unsets' = {}
  /\ UNCHANGED <<games, ends>>

Next ==
  \/ \E p \in Players : JoinQueue(p) \/ LeaveQueue(p) \/ AssignGame(p)
  \/ BeginLaunch
  \/ ResetQueue
  \/ \E g \in GameIds :
       \/ CreateGame(g)
       \/ MatchStarts(g)
       \/ MatchEnds(g)
       \/ FreeAllPlayers(g)
       \/ BeginUpdate(g)
       \/ BeginForceEnd(g)
       \/ ForceEnd(g)
       \/ \E p \in Players : BeginSubstitute(g, p) \/ BeginCancel(g, p)
       \/ \E x, y \in Players : BeginReplace(g, x, y)
  \/ FreeAllMedics
  \/ MedicsAreFree
  \/ \E u \in unsets : UnsetActiveGame(u)
  \/ EndUpdate
  \/ Substitute
  \/ Cancel
  \/ TakeOwnSlot
  \/ NothingToReplace
  \/ ReplaceOwn
  \/ ReplaceOther
  \/ PushSlot
  \/ MarkReplaced
  \/ AssignReplacement
  \/ ReleaseReplacee
  \/ Restart

Spec == Init /\ [][Next]_vars

\* Every awaited call returns and every timer fires.
Fairness ==
  /\ WF_vars(\E p \in Players : AssignGame(p))
  /\ WF_vars(ResetQueue)
  /\ WF_vars(FreeAllMedics)
  /\ WF_vars(MedicsAreFree)
  /\ WF_vars(EndUpdate)
  /\ WF_vars(Substitute \/ Cancel \/ TakeOwnSlot \/ NothingToReplace
               \/ ReplaceOwn \/ ReplaceOther \/ PushSlot \/ MarkReplaced
               \/ AssignReplacement \/ ReleaseReplacee)
  /\ \A g \in GameIds :
       /\ WF_vars(FreeAllPlayers(g))
       /\ WF_vars(ForceEnd(g))
       /\ \A p \in Players, by \in {"medics", "timer", "force"} :
            WF_vars(UnsetActiveGame([by |-> by, game |-> g, player |-> p]))

FairSpec == Spec /\ Fairness

-----------------------------------------------------------------------------
(* Whatever overlaps *)

\* A game that is over never comes back, although forceEnd() overwrites its state
\* and every other writer works on a copy it has read earlier.
GameOverIsFinal == [][\A g \in GameIds : Over(g) => Over(g)']_vars

\* A slot that was replaced stays replaced: the updates that set a status back to
\* active match every slot of the player.
ReplacedStaysReplaced ==
  [][\A g \in GameIds : \A i \in DOMAIN games[g].slots :
       games[g].slots[i].status = "replaced" =>
         i \in DOMAIN games'[g].slots /\ games'[g].slots[i].status = "replaced"]_vars

\* A player's activeGame is a game he has, or had, a slot in: no operation that
\* assigns a game outlives a roster it was read from.
AssignedToOwnGame ==
  \A p \in Players : activeGame[p] # NoGame =>
    p \in PlayersOf(games[activeGame[p]].slots)

\* The end of a game is announced to the subscribers of gameChanges (the game
\* servers, the voice channels), whoever ends it and whatever copy he has read.
EndIsAnnounced == \A g \in GameIds : Over(g) => ends[g] > 0

-----------------------------------------------------------------------------
(* One thing at a time (Overlap = FALSE) *)

\* A player with a place in a game in progress has it as his activeGame, but for
\* the operation that is about to set it.
PlayingIsAssigned ==
  \A g \in GameIds, p \in Players : InProgress(g) /\ HasPlace(g, p) =>
    \/ activeGame[p] = g
    \/ launch.game = g /\ p \in launch.pending
    \/ sub.step \in {"mark", "assign"} /\ sub.game = g /\ sub.replacement = p

\* Nobody plays in two games at once.
OneGameAtATime ==
  \A g, h \in GameIds, p \in Players :
    InProgress(g) /\ InProgress(h) /\ HasPlace(g, p) /\ HasPlace(h, p) => g = h

\* While a game is in progress every place in the teams has a player, and only one
\* unless a replacement is between its two writes.
EveryPlaceIsTaken ==
  \A g \in GameIds : InProgress(g) => \A q \in 1..Size :
    LET sl == games[g].slots
        holders == {i \in DOMAIN sl : sl[i].place = q /\ Holds(sl, i)}
    IN  /\ holders # {}
        /\ Cardinality(holders) > 1 =>
             sub.step = "mark" /\ sub.game = g /\ sub.place = q

\* A player who waits for a substitute does so in a game in progress.
RequestsEndWithGame ==
  \A g \in GameIds : \A i \in DOMAIN games[g].slots :
    games[g].slots[i].status = "waiting for substitute" => InProgress(g)

\* The players of a game that is over are released.
PlayersAreFreed ==
  \A g \in GameIds, p \in Players :
    activeGame[p] = g /\ Over(g) ~> activeGame[p] # g

-----------------------------------------------------------------------------
\* "when the player is playing a game ... should fail" (queue.service.spec.ts):
\* nobody enters the queue while he has a place in a game in progress, once the
\* operation that gave it to him is done.
NobodyQueuesWhilePlaying ==
  [][\A p \in queue' \ queue, g \in GameIds :
       InProgress(g) /\ HasPlace(g, p) => launch.game = g \/ sub.game = g]_vars
=============================================================================
