---------------------------- MODULE QueueProofs ----------------------------
(***************************************************************************)
(* Theorems about Queue, for every set of players and slots, every number  *)
(* of slot changes per turn of the event loop, of launches and of crashes, *)
(* unless a theorem says otherwise.                                        *)
(***************************************************************************)
EXTENDS Queue, FiniteSetTheorems, TLAPS

USE QueueAssumption

-----------------------------------------------------------------------------
(* The operators on slots *)

\* Clearing the slots of some players leaves well-typed slots.
LEMMA WithoutType ==
  ASSUME NEW sl \in [Slots -> QueueSlot], NEW P
  PROVE  Without(sl, P) \in [Slots -> QueueSlot]
BY DEF Without, QueueSlot, FreeSlot

LEMMA EmptyQueueType == EmptyQueue \in [Slots -> QueueSlot]
BY DEF EmptyQueue, QueueSlot, FreeSlot

\* The players of well-typed slots are players.
LEMMA PlayersOfType ==
  ASSUME NEW sl \in [Slots -> QueueSlot]
  PROVE  PlayersOf(sl) \in SUBSET Players
BY DEF PlayersOf, QueueSlot

-----------------------------------------------------------------------------
(* Type correctness *)

\* The initial state is well typed.
LEMMA InitTypeOK == Init => TypeOK
BY EmptyQueueType
   DEF Init, TypeOK, QueueState, CachedQueue, DefaultQueue, Launch, Idle

\* The two events are well typed when the state that emits them is.
LEMMA SetStateType ==
  ASSUME TypeOK, slots' \in [Slots -> QueueSlot], NEW st \in QueueState,
         SetState(st)
  PROVE  /\ state' \in QueueState
         /\ timer' \in {"none", "readyUp", "unready"}
         /\ cache' \in CachedQueue
BY DEF SetState, CachedQueue

LEMMA SlotsChangeType ==
  ASSUME TypeOK, slots' \in [Slots -> QueueSlot], SlotsChange
  PROVE  /\ queued' \in 0..MaxImmediates
         /\ cache' \in CachedQueue
BY DEF SlotsChange, ScheduleUpdate, CachedQueue, TypeOK

\* Every step keeps the state well typed.
LEMMA NextTypeOK == TypeOK /\ [Next]_vars => TypeOK'
<1> SUFFICES ASSUME TypeOK, [Next]_vars PROVE TypeOK'
  OBVIOUS
<1> USE DEF TypeOK
<1>1. ASSUME NEW p \in Players, NEW s \in Slots, JoinBegin(p, s) PROVE TypeOK'
  BY <1>1 DEF JoinBegin, JoinRequest, queueVars, storeVars
<1>2. CASE JoinReadPlayer
  <2>1. joining \in JoinRequest
    BY <1>2 DEF JoinReadPlayer, NoJoin
  <2> DEFINE found == joining.player \in inGame
  <2>a. joining' = [joining EXCEPT !.step = joining'.step, !.busy = found]
    BY <1>2, <2>1 DEF JoinReadPlayer, JoinRequest
  <2>b. found \in BOOLEAN /\ joining'.step \in {"getPlayerActiveBans", "checks"}
    BY <1>2, <2>1 DEF JoinReadPlayer, JoinRequest
  <2> HIDE DEF found
  <2>2. joining' \in JoinRequest
    BY <2>1, <2>a, <2>b DEF JoinRequest
  <2>3. QED
    BY <1>2, <2>2 DEF JoinReadPlayer, queueVars, storeVars
<1>3. CASE JoinReadBans
  <2>1. joining \in JoinRequest
    BY <1>3 DEF JoinReadBans, NoJoin
  <2> DEFINE found == joining.player \in banned
  <2>a. joining' = [joining EXCEPT !.step = joining'.step, !.banned = found]
    BY <1>3, <2>1 DEF JoinReadBans, JoinRequest
  <2>b. found \in BOOLEAN /\ joining'.step \in {"getPlayerActiveBans", "checks"}
    BY <1>3, <2>1 DEF JoinReadBans, JoinRequest
  <2> HIDE DEF found
  <2>2. joining' \in JoinRequest
    BY <2>1, <2>a, <2>b DEF JoinRequest
  <2>3. QED
    BY <1>3, <2>2 DEF JoinReadBans, queueVars, storeVars
<1>4. CASE JoinReject
  BY <1>4 DEF JoinReject, queueVars, storeVars
<1>5. CASE JoinFinish
  <2>1. joining \in JoinRequest
    BY <1>5 DEF JoinFinish, NoJoin
  <2>2. joining.player \in Players /\ joining.slot \in Slots
    BY <2>1 DEF JoinRequest
  <2> DEFINE p     == joining.player
             moved == [Without(slots, {p}) EXCEPT ![joining.slot].player = p]
             now   == state = "ready" \/ IsFull(moved)
  <2>a. moved \in [Slots -> QueueSlot]
    BY <2>2, WithoutType DEF QueueSlot
  <2>b. now \in BOOLEAN
    OBVIOUS
  <2>c. slots' = [moved EXCEPT ![joining.slot].ready = now]
    BY <1>5 DEF JoinFinish
  <2> HIDE DEF moved, now
  <2>3. slots' \in [Slots -> QueueSlot]
    BY <2>2, <2>a, <2>b, <2>c DEF QueueSlot
  <2>4. QED
    BY <1>5, <2>3, SlotsChangeType DEF JoinFinish
<1>6. ASSUME NEW p \in Players, Leave(p) PROVE TypeOK'
  <2>1. slots' \in [Slots -> QueueSlot]
    BY <1>6, WithoutType DEF Leave
  <2>2. QED
    BY <1>6, <2>1, SlotsChangeType DEF Leave
<1>7. ASSUME NEW p \in Players, ReadyUp(p) PROVE TypeOK'
  <2>1. slots' \in [Slots -> QueueSlot]
    BY <1>7 DEF ReadyUp, QueueSlot
  <2>2. QED
    BY <1>7, <2>1, SlotsChangeType DEF ReadyUp
<1>8. ASSUME NEW p \in Players, Kick(p), banned' \in SUBSET Bannable PROVE TypeOK'
  <2>1. CASE state = "launching"
    BY <1>8, <2>1 DEF Kick
  <2>2. CASE state # "launching"
    <3>1. slots' \in [Slots -> QueueSlot]
      BY <1>8, <2>2, WithoutType DEF Kick
    <3>2. QED
      BY <1>8, <2>2, <3>1, SlotsChangeType DEF Kick
  <2>3. QED
    BY <2>1, <2>2
<1>9. ASSUME NEW p \in Players, Disconnect(p) PROVE TypeOK'
  BY <1>8, <1>9 DEF Disconnect
<1>10. ASSUME NEW p \in Players, AddBan(p) PROVE TypeOK'
  BY <1>8, <1>10 DEF AddBan
<1>11. CASE StartCheckPhase
  BY <1>11 DEF StartCheckPhase, storeVars
<1>12. ASSUME Immediate PROVE /\ running' \in 0..MaxImmediates
                              /\ slots' \in [Slots -> QueueSlot]
  BY <1>12 DEF Immediate
<1>13. CASE QueueFills
  BY <1>12, <1>13, SetStateType DEF QueueFills, Immediate, QueueState
<1>14. CASE QueueEmpties
  BY <1>12, <1>14, SetStateType DEF QueueEmpties, Immediate, QueueState
<1>15. CASE StartLaunch
  <2>1. launches' \in [Launchers -> Launch]
    <3>1. [Idle EXCEPT !.step = "getWinner", !.live = TRUE] \in Launch
      BY EmptyQueueType DEF Launch, Idle
    <3>2. QED
      BY <1>15, <3>1 DEF StartLaunch
  <2>2. QED
    BY <1>12, <1>15, <2>1, SetStateType DEF StartLaunch, Immediate, QueueState
<1>16. CASE LaunchingEnds
  BY <1>12, <1>16, SetStateType DEF LaunchingEnds, Immediate, QueueState
<1>17. CASE NothingToUpdate
  BY <1>12, <1>17 DEF NothingToUpdate, Immediate
<1>18. CASE ReadyUpTimeout
  <2>1. slots' \in [Slots -> QueueSlot]
    <3>1. CASE AllReady(slots)
      BY <1>18, <3>1 DEF ReadyUpTimeout
    <3>2. CASE ~ AllReady(slots)
      <4>1. slots' = [s \in Slots |-> IF slots[s].ready THEN slots[s] ELSE FreeSlot]
        BY <1>18, <3>2 DEF ReadyUpTimeout
      <4>2. FreeSlot \in QueueSlot
        BY DEF QueueSlot, FreeSlot
      <4>3. QED
        BY <4>1, <4>2
    <3>3. QED
      BY <3>1, <3>2
  <2>2. QED
    BY <1>18, <2>1, SlotsChangeType DEF ReadyUpTimeout
<1>19. CASE UnreadyQueue
  <2>1. slots' \in [Slots -> QueueSlot]
    BY <1>19 DEF UnreadyQueue, QueueSlot
  <2>2. QED
    BY <1>19, <2>1, SetStateType DEF UnreadyQueue, ScheduleUpdate, QueueState
<1>20. ASSUME NEW l \in Launchers, CreateGame(l) PROVE TypeOK'
  <2>1. SlotsOf(l) \in [Slots -> QueueSlot]
    BY DEF SlotsOf, Launch
  <2>2. launches' \in [Launchers -> Launch]
    BY <1>20, <2>1, PlayersOfType DEF CreateGame, Launch
  <2>3. QED
    BY <1>20, <2>2 DEF CreateGame, queueVars, storeVars
<1>21. ASSUME NEW l \in Launchers, SetActiveGames(l) PROVE TypeOK'
  <2>1. launches' \in [Launchers -> Launch] /\ inGame' \in SUBSET Players
    BY <1>21 DEF SetActiveGames, Launch
  <2>2. QED
    BY <1>21, <2>1 DEF SetActiveGames, queueVars, storeVars
<1>22. ASSUME NEW l \in Launchers, Reset(l) PROVE TypeOK'
  <2>1. slots' \in [Slots -> QueueSlot]
    BY <1>22, EmptyQueueType DEF Reset
  <2>2. launches' \in [Launchers -> Launch]
    BY <1>22, EmptyQueueType DEF Reset, Launch, Idle
  <2>3. QED
    BY <1>22, <2>1, <2>2, SlotsChangeType DEF Reset
<1>23. ASSUME NEW p \in Players, LeaveGame(p) PROVE TypeOK'
  BY <1>23 DEF LeaveGame, queueVars, storeVars
<1>24. ASSUME NEW p \in Players, BanExpires(p) PROVE TypeOK'
  BY <1>24 DEF BanExpires, queueVars, storeVars
<1>25. CASE StoreQueue
  BY <1>25 DEF StoreQueue, queueVars
<1>26. CASE CacheExpires
  BY <1>26, EmptyQueueType
     DEF CacheExpires, queueVars, DefaultQueue, CachedQueue, QueueState
<1>27. ASSUME Boot PROVE TypeOK'
  BY <1>27, EmptyQueueType DEF Boot, CachedQueue, Launch, Idle
<1>28. CASE UNCHANGED vars
  BY <1>28 DEF vars
<1>29. QED
  BY <1>1, <1>2, <1>3, <1>4, <1>5, <1>6, <1>7, <1>9, <1>10, <1>11, <1>13, <1>14,
     <1>15, <1>16, <1>17, <1>18, <1>19, <1>20, <1>21, <1>22, <1>23, <1>24, <1>25,
     <1>26, <1>27, <1>28 DEF Next, Restart, LaunchFails

\* The state of the queue always has the shape the service declares, through
\* every interleaving of callbacks and across restarts from the cache.
THEOREM TypeCorrect == Spec => []TypeOK
BY InitTypeOK, NextTypeOK, PTL DEF Spec

-----------------------------------------------------------------------------
(* One slot per player, no ready free slot, timers only in the ready state *)

WellSeated(sl) ==
  /\ \A s, t \in Slots :
       sl[s].player = sl[t].player /\ sl[s].player # NoPlayer => s = t
  /\ \A s \in Slots : sl[s].ready => sl[s].player # NoPlayer

\* A restart brings back whatever was cached, so the cached queues are part of
\* the induction.
SeatInv ==
  /\ WellSeated(slots)
  /\ WellSeated(cache.slots)
  /\ WellSeated(stored.slots)
  /\ TimerOnlyWhenReady

LEMMA EmptyQueueSeated == WellSeated(EmptyQueue)
BY DEF WellSeated, EmptyQueue, FreeSlot

\* Clearing slots, whichever, keeps the others well seated.
LEMMA ClearingSeated ==
  ASSUME NEW sl \in [Slots -> QueueSlot], WellSeated(sl), NEW C \in SUBSET Slots
  PROVE  WellSeated([s \in Slots |-> IF s \in C THEN FreeSlot ELSE sl[s]])
BY DEF WellSeated, FreeSlot

LEMMA WithoutSeated ==
  ASSUME NEW sl \in [Slots -> QueueSlot], WellSeated(sl), NEW P
  PROVE  WellSeated(Without(sl, P))
BY DEF WellSeated, Without, FreeSlot

LEMMA InitSeatInv == Init => SeatInv
BY EmptyQueueSeated DEF Init, SeatInv, DefaultQueue, TimerOnlyWhenReady

\* What the two events do to the invariant.
LEMMA SlotsChangeSeated ==
  ASSUME SeatInv, SlotsChange, WellSeated(slots')
  PROVE  WellSeated(cache'.slots)
BY DEF SlotsChange

LEMMA SetStateSeated ==
  ASSUME NEW st, SetState(st), WellSeated(slots')
  PROVE  WellSeated(cache'.slots) /\ TimerOnlyWhenReady'
BY DEF SetState, TimerOnlyWhenReady

\* The joining player leaves his old slot before he takes the free one.
LEMMA JoinSeated ==
  ASSUME TypeOK, SeatInv, JoinFinish
  PROVE  WellSeated(slots')
<1> DEFINE p     == joining.player
           j     == joining.slot
           gone  == Without(slots, {p})
           moved == [gone EXCEPT ![j].player = p]
<1>1. joining \in JoinRequest
  BY DEF JoinFinish, NoJoin, TypeOK
<1>2. p \in Players /\ j \in Slots
  BY <1>1 DEF JoinRequest
<1>3. gone \in [Slots -> QueueSlot] /\ WellSeated(gone)
  BY WithoutType, WithoutSeated DEF TypeOK, SeatInv
<1>4. \A s \in Slots : gone[s].player # p
  BY <1>2 DEF Without, FreeSlot
<1>5. gone[j].player = NoPlayer
  BY <1>2 DEF JoinFinish, JoinRefused, Without, FreeSlot
<1>6. slots' = [moved EXCEPT ![j].ready = (state = "ready" \/ IsFull(moved))]
  BY DEF JoinFinish
<1>7. /\ \A s \in Slots \ {j} : slots'[s] = gone[s]
      /\ slots'[j].player = p
  <2> HIDE DEF gone, p, j
  <2> QED
    BY <1>2, <1>3, <1>6 DEF QueueSlot
<1> HIDE DEF gone, moved, p, j
<1>8. QED
  BY <1>2, <1>3, <1>4, <1>7 DEF WellSeated

LEMMA NextSeatInv == TypeOK /\ SeatInv /\ [Next]_vars => SeatInv'
<1> SUFFICES ASSUME TypeOK, SeatInv, [Next]_vars PROVE SeatInv'
  OBVIOUS
<1> USE DEF SeatInv
<1>0. slots \in [Slots -> QueueSlot]
  BY DEF TypeOK
\* Steps that touch neither the slots nor the state nor the cache.
<1>1. ASSUME UNCHANGED <<slots, state, timer, cache, stored>> PROVE SeatInv'
  BY <1>1 DEF TimerOnlyWhenReady
<1>2. ASSUME WellSeated(slots'), SlotsChange, UNCHANGED <<state, stored>>,
             timer' # "none" => timer # "none"
      PROVE  SeatInv'
  BY <1>2, SlotsChangeSeated DEF TimerOnlyWhenReady
<1>3. ASSUME WellSeated(slots'), NEW st, SetState(st), UNCHANGED stored
      PROVE  SeatInv'
  BY <1>3, SetStateSeated
<1>4. ASSUME NEW p \in Players, NEW s \in Slots, JoinBegin(p, s) PROVE SeatInv'
  BY <1>1, <1>4 DEF JoinBegin, queueVars, storeVars
<1>5. CASE JoinReadPlayer
  BY <1>1, <1>5 DEF JoinReadPlayer, queueVars, storeVars
<1>6. CASE JoinReadBans
  BY <1>1, <1>6 DEF JoinReadBans, queueVars, storeVars
<1>7. CASE JoinReject
  BY <1>1, <1>7 DEF JoinReject, queueVars, storeVars
<1>8. CASE JoinFinish
  BY <1>2, <1>8, JoinSeated DEF JoinFinish
<1>9. ASSUME NEW p \in Players, Leave(p) PROVE SeatInv'
  BY <1>0, <1>2, <1>9, WithoutSeated DEF Leave
<1>10. ASSUME NEW p \in Players, ReadyUp(p) PROVE SeatInv'
  <2>1. \A s \in Slots : /\ slots'[s].player = slots[s].player
                         /\ slots'[s].ready => slots[s].ready \/ slots[s].player = p
    BY <1>0, <1>10 DEF ReadyUp, QueueSlot
  <2>2. WellSeated(slots')
    BY <2>1 DEF WellSeated
  <2>3. QED
    BY <1>2, <1>10, <2>2 DEF ReadyUp
<1>11. ASSUME NEW p \in Players, Kick(p) PROVE SeatInv'
  <2>1. CASE state = "launching"
    BY <1>1, <1>11, <2>1 DEF Kick
  <2>2. CASE state # "launching"
    BY <1>0, <1>2, <1>11, <2>2, WithoutSeated DEF Kick
  <2>3. QED
    BY <2>1, <2>2
<1>12. ASSUME NEW p \in Players, Disconnect(p) \/ AddBan(p) PROVE SeatInv'
  BY <1>11, <1>12 DEF Disconnect, AddBan
<1>13. CASE StartCheckPhase
  BY <1>1, <1>13 DEF StartCheckPhase, storeVars
<1>14. CASE QueueFills
  BY <1>3, <1>14 DEF QueueFills, Immediate
<1>15. CASE QueueEmpties
  BY <1>3, <1>15 DEF QueueEmpties, Immediate
<1>16. CASE StartLaunch
  BY <1>3, <1>16 DEF StartLaunch, Immediate
<1>17. CASE LaunchingEnds
  BY <1>3, <1>17 DEF LaunchingEnds, Immediate
<1>18. CASE NothingToUpdate
  BY <1>1, <1>18 DEF NothingToUpdate, Immediate
<1>19. CASE ReadyUpTimeout
  <2>1. CASE AllReady(slots)
    BY <1>19, <2>1 DEF ReadyUpTimeout, TimerOnlyWhenReady
  <2>2. CASE ~ AllReady(slots)
    <3>1. slots' = [s \in Slots |-> IF s \in {t \in Slots : ~ slots[t].ready}
                                   THEN FreeSlot ELSE slots[s]]
      BY <1>19, <2>2 DEF ReadyUpTimeout
    <3>2. WellSeated(slots')
      BY <1>0, <3>1, ClearingSeated
    <3>3. QED
      BY <1>2, <1>19, <2>2, <3>2 DEF ReadyUpTimeout
  <2>3. QED
    BY <2>1, <2>2
<1>20. CASE UnreadyQueue
  <2>1. \A s \in Slots : /\ slots'[s].player = slots[s].player
                         /\ slots'[s].ready = FALSE
    BY <1>0, <1>20 DEF UnreadyQueue, QueueSlot
  <2>2. WellSeated(slots')
    BY <2>1 DEF WellSeated
  <2>3. QED
    BY <1>3, <1>20, <2>2 DEF UnreadyQueue
<1>21. ASSUME NEW l \in Launchers,
              CreateGame(l) \/ SetActiveGames(l)
       PROVE  SeatInv'
  BY <1>1, <1>21 DEF CreateGame, SetActiveGames, queueVars, storeVars
<1>22. ASSUME NEW l \in Launchers, Reset(l) PROVE SeatInv'
  BY <1>2, <1>22, EmptyQueueSeated DEF Reset
<1>23. ASSUME NEW p \in Players, LeaveGame(p) \/ BanExpires(p) PROVE SeatInv'
  BY <1>1, <1>23 DEF LeaveGame, BanExpires, queueVars, storeVars
<1>24. CASE StoreQueue
  BY <1>24 DEF StoreQueue, queueVars, TimerOnlyWhenReady
<1>25. CASE CacheExpires
  BY <1>25, EmptyQueueSeated
     DEF CacheExpires, queueVars, DefaultQueue, TimerOnlyWhenReady
<1>26. ASSUME Boot PROVE SeatInv'
  BY <1>26 DEF Boot, TimerOnlyWhenReady
<1>27. CASE UNCHANGED vars
  BY <1>1, <1>27 DEF vars
<1>28. QED
  BY <1>4, <1>5, <1>6, <1>7, <1>8, <1>9, <1>10, <1>12, <1>13, <1>14, <1>15, <1>16,
     <1>17, <1>18, <1>19, <1>20, <1>21, <1>22, <1>23, <1>24, <1>25, <1>26, <1>27
     DEF Next, Restart, LaunchFails

\* A player never occupies two slots, whatever interleaves with his join() and
\* whatever a restart brings back from the cache.
THEOREM OneSlotPerPlayer == Spec => []PlayerInOneSlot
<1>1. TypeOK /\ SeatInv => PlayerInOneSlot
  BY DEF SeatInv, WellSeated, PlayerInOneSlot
<1>2. QED
  BY <1>1, InitTypeOK, NextTypeOK, InitSeatInv, NextSeatInv, PTL DEF Spec

\* A free slot never counts as ready.
THEOREM NoReadyFreeSlot == Spec => []ReadySlotIsTaken
<1>1. TypeOK /\ SeatInv => ReadySlotIsTaken
  BY DEF SeatInv, WellSeated, ReadySlotIsTaken
<1>2. QED
  BY <1>1, InitTypeOK, NextTypeOK, InitSeatInv, NextSeatInv, PTL DEF Spec

\* Neither timer of the ready-up can fire outside the ready state.
THEOREM TimersBelongToReadyUp == Spec => []TimerOnlyWhenReady
<1>1. SeatInv => TimerOnlyWhenReady
  BY DEF SeatInv
<1>2. QED
  BY <1>1, InitTypeOK, NextTypeOK, InitSeatInv, NextSeatInv, PTL DEF Spec

-----------------------------------------------------------------------------
(* How many players the slots hold *)

\* Full slots, no two with the same player, hold as many players as slots.
LEMMA FullRoster ==
  ASSUME NEW sl \in [Slots -> QueueSlot], WellSeated(sl), IsFull(sl)
  PROVE  Cardinality(PlayersOf(sl)) = Cardinality(Slots)
<1> DEFINE f == [s \in Slots |-> sl[s].player]
<1>1. IsFiniteSet(Slots)
  BY DEF QueueAssumption
<1>2. f \in Bijection(Slots, PlayersOf(sl))
  <2>1. \A s \in Slots : f[s] \in PlayersOf(sl)
    BY DEF PlayersOf, IsFull
  <2>2. \A s, t \in Slots : f[s] = f[t] => s = t
    BY DEF WellSeated, IsFull
  <2>3. \A p \in PlayersOf(sl) : \E s \in Slots : f[s] = p
    BY DEF PlayersOf
  <2>4. f \in [Slots -> PlayersOf(sl)]
    BY <2>1
  <2> HIDE DEF f
  <2>5. QED
    BY <2>2, <2>3, <2>4 DEF Bijection, Injection, Surjection, IsInjective
<1>3. ExistsBijection(Slots, PlayersOf(sl))
  BY <1>2 DEF ExistsBijection
<1>4. QED
  BY <1>1, <1>3, FS_Bijection

\* With a slot free there are fewer.
LEMMA RoomLeft ==
  ASSUME NEW sl \in [Slots -> QueueSlot], ~ IsFull(sl)
  PROVE  Cardinality(PlayersOf(sl)) < Cardinality(Slots)
<1> DEFINE T == {s \in Slots : sl[s].player # NoPlayer}
           f == [s \in T |-> sl[s].player]
<1>1. IsFiniteSet(Slots)
  BY DEF QueueAssumption
<1>2. T \in SUBSET Slots /\ T # Slots
  BY DEF IsFull
<1>3. f \in Surjection(T, PlayersOf(sl))
  <2>1. f \in [T -> PlayersOf(sl)]
    BY DEF PlayersOf
  <2>2. \A p \in PlayersOf(sl) : \E s \in T : f[s] = p
    BY DEF PlayersOf
  <2> HIDE DEF f, T
  <2>3. QED
    BY <2>1, <2>2 DEF Surjection
<1> HIDE DEF f, T
<1>4. IsFiniteSet(T) /\ Cardinality(T) <= Cardinality(Slots)
      /\ Cardinality(T) # Cardinality(Slots)
  BY <1>1, <1>2, FS_Subset
<1>5. Cardinality(PlayersOf(sl)) <= Cardinality(T) /\ IsFiniteSet(PlayersOf(sl))
  BY <1>3, <1>4, FS_Surjection
<1>6. /\ Cardinality(Slots) \in Nat /\ Cardinality(T) \in Nat
      /\ Cardinality(PlayersOf(sl)) \in Nat
  BY <1>1, <1>4, <1>5, FS_CardinalityType
<1>7. QED
  BY <1>4, <1>5, <1>6

\* So a roster is complete exactly when the slots are full.
LEMMA RosterSize ==
  ASSUME NEW sl \in [Slots -> QueueSlot], WellSeated(sl)
  PROVE  /\ IsFull(sl) <=> Cardinality(PlayersOf(sl)) = Cardinality(Slots)
         /\ ~ IsFull(sl) <=> Cardinality(PlayersOf(sl)) < Cardinality(Slots)
<1>1. IsFiniteSet(Slots)
  BY DEF QueueAssumption
<1>2. Cardinality(Slots) \in Nat
  BY <1>1, FS_CardinalityType
<1>3. CASE IsFull(sl)
  BY <1>2, <1>3, FullRoster
<1>4. CASE ~ IsFull(sl)
  <2>1. Cardinality(PlayersOf(sl)) < Cardinality(Slots)
    BY <1>4, RoomLeft
  <2>2. Cardinality(PlayersOf(sl)) # Cardinality(Slots)
    BY <1>2, <2>1
  <2>3. QED
    BY <1>4, <2>1, <2>2
<1>5. QED
  BY <1>3, <1>4

-----------------------------------------------------------------------------
(* Whole rosters, whatever the number of slot changes, launches and crashes *)

\* The slots a launch kept after somebody else's reset are still well seated.
RosterInv ==
  /\ \A l \in Launchers : ~ launches[l].live => WellSeated(launches[l].slots)
  /\ RosterIsComplete

LEMMA InitRosterInv == Init => RosterInv
BY EmptyQueueSeated DEF Init, Idle, RosterInv, RosterIsComplete

LEMMA NextRosterInv == TypeOK /\ SeatInv /\ RosterInv /\ [Next]_vars => RosterInv'
<1> SUFFICES ASSUME TypeOK, SeatInv, RosterInv, [Next]_vars PROVE RosterInv'
  OBVIOUS
<1>0. launches \in [Launchers -> Launch] /\ slots \in [Slots -> QueueSlot]
  BY DEF TypeOK
\* Only the launch itself, the start of another one and a restart touch it.
<1>1. ASSUME launches' = launches PROVE RosterInv'
  BY <1>1 DEF RosterInv, RosterIsComplete
<1>2. CASE StartLaunch
  <2>1. PICK l \in Launchers :
          launches' = [launches EXCEPT ![l] = [Idle EXCEPT !.step = "getWinner",
                                                         !.live = TRUE]]
    BY <1>2 DEF StartLaunch
  <2>2. launches'[l].step = "getWinner" /\ launches'[l].live
    BY <1>0, <2>1 DEF Idle
  <2>3. \A k \in Launchers \ {l} : launches'[k] = launches[k]
    BY <1>0, <2>1
  <2>4. QED
    BY <2>2, <2>3 DEF RosterInv, RosterIsComplete
<1>3. ASSUME NEW l \in Launchers, CreateGame(l) PROVE RosterInv'
  <2> DEFINE sl == SlotsOf(l)
             e == [launches[l] EXCEPT !.step = "create"]
  <2>1. sl \in [Slots -> QueueSlot] /\ WellSeated(sl)
    BY <1>0 DEF SlotsOf, Launch, SeatInv, RosterInv
  <2>2. IsFull(sl)
    BY <1>3 DEF CreateGame
  <2>3. Cardinality(PlayersOf(sl)) = Cardinality(Slots)
    BY <2>1, <2>2, FullRoster
  <2> HIDE DEF sl
  <2>4. launches' = [launches EXCEPT ![l].step = "create", ![l].roster = PlayersOf(sl)]
    BY <1>3 DEF CreateGame, sl
  <2>5. launches'[l].roster = PlayersOf(sl) /\ launches'[l].live = launches[l].live
        /\ launches'[l].slots = launches[l].slots
    BY <1>0, <2>4 DEF Launch
  <2>6. \A k \in Launchers \ {l} : launches'[k] = launches[k]
    BY <1>0, <2>4
  <2>7. QED
    BY <2>3, <2>5, <2>6 DEF RosterInv, RosterIsComplete
<1>4. ASSUME NEW l \in Launchers, SetActiveGames(l) PROVE RosterInv'
  <2>1. launches' = [launches EXCEPT ![l].step = "created"] /\ launches[l].step = "create"
    BY <1>4 DEF SetActiveGames
  <2>2. launches'[l].roster = launches[l].roster /\ launches'[l].live = launches[l].live
        /\ launches'[l].slots = launches[l].slots
    BY <1>0, <2>1 DEF Launch
  <2>3. \A k \in Launchers \ {l} : launches'[k] = launches[k]
    BY <1>0, <2>1
  <2>4. QED
    BY <2>1, <2>2, <2>3 DEF RosterInv, RosterIsComplete
<1>5. ASSUME NEW l \in Launchers, Reset(l) PROVE RosterInv'
  <2>1. launches'[l] = Idle
    BY <1>5 DEF Reset
  <2>2. \A k \in Launchers \ {l} :
          IF launches[k].live
          THEN /\ launches'[k].step = launches[k].step
               /\ launches'[k].roster = launches[k].roster
               /\ launches'[k].slots = slots
          ELSE launches'[k] = launches[k]
    BY <1>0, <1>5 DEF Reset, Launch
  <2>3. \A k \in Launchers \ {l} : ~ launches'[k].live => WellSeated(launches'[k].slots)
    BY <2>2 DEF RosterInv, SeatInv
  <2>4. \A k \in Launchers \ {l} :
          /\ launches'[k].step = launches[k].step
          /\ launches'[k].roster = launches[k].roster
    BY <2>2
  <2>5. QED
    BY <2>1, <2>3, <2>4, EmptyQueueSeated DEF Idle, RosterInv, RosterIsComplete
<1>6. ASSUME Boot PROVE RosterInv'
  BY <1>6, EmptyQueueSeated DEF Boot, Idle, RosterInv, RosterIsComplete
<1>7. ASSUME NEW p \in Players,
             Leave(p) \/ ReadyUp(p) \/ Disconnect(p) \/ AddBan(p) \/ LeaveGame(p)
               \/ BanExpires(p) \/ \E s \in Slots : JoinBegin(p, s)
      PROVE  launches' = launches
  BY <1>7 DEF Leave, ReadyUp, Disconnect, AddBan, Kick, LeaveGame, BanExpires, JoinBegin
<1>8. CASE JoinReadPlayer \/ JoinReadBans \/ JoinReject \/ JoinFinish \/ StartCheckPhase
             \/ QueueFills \/ QueueEmpties \/ LaunchingEnds \/ NothingToUpdate
             \/ ReadyUpTimeout \/ UnreadyQueue \/ StoreQueue \/ CacheExpires
             \/ UNCHANGED vars
  BY <1>1, <1>8 DEF JoinReadPlayer, JoinReadBans, JoinReject, JoinFinish,
    StartCheckPhase, QueueFills, QueueEmpties, LaunchingEnds, NothingToUpdate,
    ReadyUpTimeout, UnreadyQueue, StoreQueue, CacheExpires, vars
<1>9. QED
  BY <1>1, <1>2, <1>3, <1>4, <1>5, <1>6, <1>7, <1>8 DEF Next, Restart, LaunchFails

\* A game is created for as many different players as there are slots, also by a
\* launch that waited while its slots were changed or replaced.
THEOREM RostersAreComplete == Spec => []RosterIsComplete
<1>1. RosterInv => RosterIsComplete
  BY DEF RosterInv
<1>2. QED
  BY <1>1, InitTypeOK, NextTypeOK, InitSeatInv, NextSeatInv, InitRosterInv,
     NextRosterInv, PTL DEF Spec

-----------------------------------------------------------------------------
(* What the queue guarantees about a launch when the event loop reaches its *)
(* check phase after every slot change and the process does not die         *)

\* At most one slot change per turn of the event loop, and no crash.
Quiet == MaxImmediates = 1 /\ MaxCrashes = 0

\* A maybeUpdateState() callback is queued or about to run.
Pending == queued = 1 \/ running = 1

OneBatch == running = 0 \/ queued = 0

\* One launch at a time; while it lasts nothing is pending, the slots are full
\* and ready, and the roster taken from them is still theirs.
LaunchPart ==
  /\ \A k, l \in InProgress : k = l
  /\ \A l \in InProgress :
       /\ state = "launching"
       /\ launches[l].live
       /\ IsFull(slots)
       /\ AllReady(slots)
       /\ ~ Pending
       /\ launches[l].step # "getWinner" => launches[l].roster = PlayersOf(slots)

\* Between the reset and the return to waiting the slots are free.
DrainPart == state = "launching" /\ InProgress = {} => IsEmpty(slots) /\ Pending

\* In the waiting state only the last player to join is ready, until the
\* callback that his join scheduled has run.
WaitingPart ==
  state = "waiting" =>
    /\ \A s, t \in Slots : slots[s].ready /\ slots[t].ready => s = t
    /\ (\E s \in Slots : slots[s].ready) => IsFull(slots)
    /\ IsFull(slots) => Pending

ReadyPart ==
  state = "ready" => /\ timer # "none"
                     /\ IsEmpty(slots) \/ AllReady(slots) => Pending

QuietInv == OneBatch /\ LaunchPart /\ DrainPart /\ WaitingPart /\ ReadyPart

-----------------------------------------------------------------------------
LEMMA NotFullAndEmpty ==
  ASSUME NEW sl PROVE ~ (IsFull(sl) /\ IsEmpty(sl))
BY DEF IsFull, IsEmpty

LEMMA InitQuietInv == Init => QuietInv
<1> SUFFICES ASSUME Init PROVE QuietInv
  OBVIOUS
<1>1. InProgress = {}
  BY DEF Init, InProgress, Idle
<1>2. /\ \A s \in Slots : slots[s].ready = FALSE /\ slots[s].player = NoPlayer
      /\ state = "waiting" /\ running = 0 /\ queued = 0
  BY DEF Init, EmptyQueue, FreeSlot
<1>3. ~ IsFull(slots)
  BY <1>2 DEF IsFull
<1>4. QED
  BY <1>1, <1>2, <1>3
     DEF QuietInv, OneBatch, LaunchPart, DrainPart, WaitingPart, ReadyPart

\* A slot change can only come when nothing is pending, and leaves one callback.
LEMMA QuietSlotsChange ==
  ASSUME Quiet, TypeOK, Turn, ScheduleUpdate, running' = running
  PROVE  ~ Pending /\ Pending' /\ queued' = 1 /\ running' = 0
BY DEF Quiet, TypeOK, Turn, ScheduleUpdate, Pending

\* A slot change outside a launch keeps the invariant if, in the waiting state,
\* it leaves at most one ready slot, and then only in a full queue.
LEMMA ChangeOutsideLaunch ==
  ASSUME Quiet, TypeOK, QuietInv, Turn, ScheduleUpdate, running' = running,
         launches' = launches, InProgress = {},
         state' \in {"waiting", state},
         state' = "ready" => timer' # "none",
         state' = "waiting" =>
           /\ \A s, t \in Slots : slots'[s].ready /\ slots'[t].ready => s = t
           /\ (\E s \in Slots : slots'[s].ready) => IsFull(slots')
  PROVE  QuietInv'
<1>1. ~ Pending /\ Pending' /\ OneBatch'
  BY QuietSlotsChange DEF OneBatch
<1>2. InProgress' = {}
  BY DEF InProgress
<1>3. state # "launching"
  BY <1>1 DEF QuietInv, DrainPart
<1>4. state' # "launching"
  BY <1>3
<1>5. QED
  BY <1>1, <1>2, <1>4
     DEF QuietInv, LaunchPart, DrainPart, WaitingPart, ReadyPart

\* In the waiting state with nothing pending, no slot is ready.
LEMMA NobodyReadyInWaiting ==
  ASSUME QuietInv, state = "waiting", ~ Pending
  PROVE  \A s \in Slots : ~ slots[s].ready
BY DEF QuietInv, WaitingPart

\* A step that leaves the queue and its launches alone.
LEMMA QuietUnchanged ==
  ASSUME QuietInv, UNCHANGED <<queueVars, launches>>
  PROVE  QuietInv'
BY DEF QuietInv, OneBatch, LaunchPart, DrainPart, WaitingPart, ReadyPart,
       queueVars, InProgress, Pending, IsFull, IsEmpty, AllReady, PlayersOf

-----------------------------------------------------------------------------
(* One lemma per group of actions *)

\* No join completes during a launch: every slot is taken.
LEMMA JoinQuiet ==
  ASSUME Quiet, TypeOK, SeatInv, QuietInv, JoinFinish
  PROVE  QuietInv'
<1> DEFINE p     == joining.player
           j     == joining.slot
           moved == [Without(slots, {p}) EXCEPT ![j].player = p]
<1>1. joining \in JoinRequest
  BY DEF JoinFinish, NoJoin, TypeOK
<1>2. p \in Players /\ j \in Slots
  BY <1>1 DEF JoinRequest
<1>3. InProgress = {}
  <2>1. ~ IsFull(slots)
    BY <1>2 DEF JoinFinish, JoinRefused, IsFull
  <2>2. QED
    BY <2>1 DEF QuietInv, LaunchPart
<1>4. Turn /\ ScheduleUpdate /\ ~ Pending
  BY QuietSlotsChange DEF JoinFinish, SlotsChange
<1>5. Without(slots, {p}) \in [Slots -> QueueSlot]
  BY WithoutType DEF TypeOK
<1>6. slots' = [moved EXCEPT ![j].ready = (state = "ready" \/ IsFull(moved))]
  BY DEF JoinFinish
<1>7. moved \in [Slots -> QueueSlot]
  BY <1>2, <1>5 DEF QueueSlot
<1>8. /\ \A s \in Slots \ {j} : slots'[s].ready = Without(slots, {p})[s].ready
      /\ \A s \in Slots : slots'[s].player = moved[s].player
      /\ slots'[j].ready => state = "ready" \/ IsFull(moved)
  <2>1. \A s \in Slots \ {j} : moved[s] = Without(slots, {p})[s]
    BY <1>5
  <2> HIDE DEF moved, j, p
  <2>2. QED
    BY <1>2, <1>6, <1>7, <2>1 DEF QueueSlot
<1>9. ASSUME state = "waiting"
      PROVE  /\ \A s, t \in Slots : slots'[s].ready /\ slots'[t].ready => s = t
             /\ (\E s \in Slots : slots'[s].ready) => IsFull(slots')
  <2>1. \A s \in Slots : ~ Without(slots, {p})[s].ready
    BY <1>4, <1>9, NobodyReadyInWaiting DEF Without, FreeSlot
  <2> HIDE DEF moved, j, p
  <2>2. \A s \in Slots \ {j} : ~ slots'[s].ready
    BY <1>8, <2>1
  <2>3. slots'[j].ready => IsFull(slots')
    BY <1>8, <1>9 DEF IsFull
  <2>4. QED
    BY <2>2, <2>3
<1>10. state' = state /\ timer' = timer /\ running' = running /\ launches' = launches
  BY DEF JoinFinish
<1>11. state' = "ready" => timer' # "none"
  BY <1>10 DEF QuietInv, ReadyPart
<1>12. QED
  BY <1>3, <1>4, <1>9, <1>10, <1>11, ChangeOutsideLaunch

\* Leaving, kicking and readying up happen outside a launch.
LEMMA MembersQuiet ==
  ASSUME Quiet, TypeOK, SeatInv, QuietInv, NEW p \in Players,
         Leave(p) \/ ReadyUp(p) \/ Kick(p)
  PROVE  QuietInv'
<1>0. slots \in [Slots -> QueueSlot]
  BY DEF TypeOK
<1>1. \A s \in Slots : Without(slots, {p})[s].ready => slots[s].ready
  BY DEF Without, FreeSlot
<1>2. ASSUME Turn, ScheduleUpdate, running' = running, state = "waiting",
             slots' = Without(slots, {p})
      PROVE  \A s \in Slots : ~ slots'[s].ready
  BY <1>1, <1>2, QuietSlotsChange, NobodyReadyInWaiting
<1>3. state = "ready" => timer # "none"
  BY DEF QuietInv, ReadyPart
<1>4. CASE Leave(p)
  <2>1. InProgress = {}
    BY <1>4 DEF Leave, QuietInv, LaunchPart, AllReady
  <2>2. QED
    BY <1>2, <1>3, <1>4, <2>1, ChangeOutsideLaunch DEF Leave, SlotsChange
<1>5. CASE ReadyUp(p)
  <2>1. InProgress = {} /\ state = "ready"
    BY <1>5 DEF ReadyUp, QuietInv, LaunchPart
  <2>2. QED
    BY <1>3, <1>5, <2>1, ChangeOutsideLaunch DEF ReadyUp, SlotsChange
<1>6. CASE Kick(p)
  <2>1. CASE state = "launching"
    BY <1>6, <2>1, QuietUnchanged DEF Kick, queueVars
  <2>2. CASE state # "launching"
    <3>1. InProgress = {}
      BY <2>2 DEF QuietInv, LaunchPart
    <3>2. QED
      BY <1>2, <1>3, <1>6, <2>2, <3>1, ChangeOutsideLaunch DEF Kick, SlotsChange
  <2>3. QED
    BY <2>1, <2>2
<1>7. QED
  BY <1>4, <1>5, <1>6

\* The timers fire only in the ready state.
LEMMA TimersQuiet ==
  ASSUME Quiet, TypeOK, SeatInv, QuietInv, ReadyUpTimeout \/ UnreadyQueue
  PROVE  QuietInv'
<1>0. slots \in [Slots -> QueueSlot]
  BY DEF TypeOK
<1>1. state = "ready" /\ InProgress = {}
  BY DEF ReadyUpTimeout, UnreadyQueue, SeatInv, TimerOnlyWhenReady, QuietInv,
         LaunchPart
<1>2. CASE ReadyUpTimeout
  <2>1. CASE AllReady(slots)
    <3>1. InProgress' = {} /\ UNCHANGED <<slots, state, queued, running>>
      BY <1>1, <1>2, <2>1 DEF ReadyUpTimeout, InProgress
    <3>2. timer' = "unready"
      BY <1>2 DEF ReadyUpTimeout
    <3>3. OneBatch' /\ LaunchPart'
      BY <3>1 DEF QuietInv, OneBatch, LaunchPart
    <3>4. DrainPart' /\ WaitingPart'
      BY <1>1, <3>1 DEF DrainPart, WaitingPart
    <3>5. ReadyPart'
      BY <1>1, <3>1, <3>2
         DEF QuietInv, ReadyPart, Pending, IsEmpty, AllReady
    <3>6. QED
      BY <3>3, <3>4, <3>5 DEF QuietInv
  <2>2. CASE ~ AllReady(slots)
    BY <1>1, <1>2, <2>2, ChangeOutsideLaunch DEF ReadyUpTimeout, SlotsChange
  <2>3. QED
    BY <2>1, <2>2
<1>3. CASE UnreadyQueue
  <2>1. \A s \in Slots : slots'[s].ready = FALSE
    BY <1>0, <1>3 DEF UnreadyQueue, QueueSlot
  <2>2. QED
    BY <1>1, <1>3, <2>1, ChangeOutsideLaunch DEF UnreadyQueue, SetState
<1>4. QED
  BY <1>2, <1>3

\* The check phase: its only callback consumes the pending update.
LEMMA CheckPhaseQuiet ==
  ASSUME Quiet, TypeOK, SeatInv, QuietInv,
         QueueFills \/ QueueEmpties \/ StartLaunch \/ LaunchingEnds \/ NothingToUpdate
  PROVE  QuietInv'
<1>1. Immediate /\ Pending
  BY DEF QueueFills, QueueEmpties, StartLaunch, LaunchingEnds, NothingToUpdate,
         Immediate, Pending, Quiet, TypeOK
<1>2. InProgress = {}
  BY <1>1 DEF QuietInv, LaunchPart
<1>3. queued' = 0 /\ running' = 0 /\ slots' = slots
  BY <1>1 DEF Immediate, QuietInv, OneBatch, Quiet, TypeOK
<1>4. OneBatch' /\ ~ Pending'
  BY <1>3 DEF OneBatch, Pending
<1>5. ASSUME launches' = launches PROVE LaunchPart' /\ InProgress' = {}
  BY <1>2, <1>5 DEF LaunchPart, InProgress
<1>6. ASSUME IsEmpty(slots) PROVE \A s \in Slots : ~ slots[s].ready
  BY <1>6 DEF IsEmpty, SeatInv, WellSeated
<1>8. CASE QueueFills
  <2>1. state = "waiting" /\ state' = "ready" /\ timer' = "readyUp"
        /\ launches' = launches /\ IsFull(slots)
    BY <1>8 DEF QueueFills, SetState
  <2>2. ~ IsEmpty(slots)
    BY <2>1, NotFullAndEmpty
  <2>3. ~ AllReady(slots)
    BY <2>1 DEF QuietInv, WaitingPart, AllReady
  <2>4. ReadyPart'
    BY <1>3, <2>1, <2>2, <2>3 DEF ReadyPart, IsEmpty, AllReady
  <2>5. QED
    BY <1>4, <1>5, <2>1, <2>4 DEF QuietInv, DrainPart, WaitingPart
<1>9. CASE QueueEmpties
  <2>1. state' = "waiting" /\ launches' = launches /\ IsEmpty(slots)
    BY <1>9 DEF QueueEmpties, SetState
  <2>2. ~ IsFull(slots) /\ \A s \in Slots : ~ slots[s].ready
    BY <2>1, <1>6, NotFullAndEmpty
  <2>3. WaitingPart'
    BY <1>3, <2>1, <2>2 DEF WaitingPart, IsFull
  <2>4. QED
    BY <1>4, <1>5, <2>1, <2>3 DEF QuietInv, DrainPart, ReadyPart
<1>10. CASE StartLaunch
  <2>1. state' = "launching" /\ AllReady(slots)
    BY <1>10 DEF StartLaunch, SetState
  <2>2. IsFull(slots)
    BY <2>1 DEF AllReady, IsFull, SeatInv, WellSeated
  <2>3. PICK l \in Launchers :
          launches' = [launches EXCEPT ![l] = [Idle EXCEPT !.step = "getWinner",
                                                         !.live = TRUE]]
    BY <1>10 DEF StartLaunch
  <2>4. launches'[l].step = "getWinner" /\ launches'[l].live
    BY <2>3 DEF TypeOK, Idle
  <2>5. InProgress' = {l}
    BY <1>2, <2>3, <2>4 DEF InProgress, TypeOK
  <2>6. IsFull(slots)' /\ AllReady(slots)'
    BY <1>3, <2>1, <2>2 DEF IsFull, AllReady
  <2>7. LaunchPart'
    BY <1>4, <2>1, <2>4, <2>5, <2>6 DEF LaunchPart
  <2>8. QED
    BY <1>4, <2>1, <2>5, <2>7 DEF QuietInv, DrainPart, WaitingPart, ReadyPart
<1>11. CASE LaunchingEnds
  <2>1. state = "launching" /\ state' = "waiting" /\ launches' = launches
    BY <1>11 DEF LaunchingEnds, SetState
  <2>2. IsEmpty(slots)
    BY <1>2, <2>1 DEF QuietInv, DrainPart
  <2>3. ~ IsFull(slots) /\ \A s \in Slots : ~ slots[s].ready
    BY <2>2, <1>6, NotFullAndEmpty
  <2>4. WaitingPart'
    BY <1>3, <2>1, <2>3 DEF WaitingPart, IsFull
  <2>5. QED
    BY <1>4, <1>5, <2>1, <2>4 DEF QuietInv, DrainPart, ReadyPart
<1>12. CASE NothingToUpdate
  <2>1. UNCHANGED <<state, timer, launches>>
        /\ \/ state = "waiting" /\ ~ IsFull(slots)
           \/ state = "ready" /\ ~ IsEmpty(slots) /\ ~ AllReady(slots)
    BY <1>12 DEF NothingToUpdate
  <2>2. WaitingPart'
    BY <1>3, <2>1 DEF QuietInv, WaitingPart, IsFull
  <2>3. ReadyPart'
    BY <1>3, <2>1 DEF QuietInv, ReadyPart, IsEmpty, AllReady
  <2>4. QED
    BY <1>4, <1>5, <2>1, <2>2, <2>3 DEF QuietInv, DrainPart
<1>13. QED
  BY <1>8, <1>9, <1>10, <1>11, <1>12

\* The launch itself: it alone resets the queue, and then nothing is in progress.
LEMMA LaunchQuiet ==
  ASSUME Quiet, TypeOK, SeatInv, QuietInv, NEW l \in Launchers,
         CreateGame(l) \/ SetActiveGames(l) \/ Reset(l)
  PROVE  QuietInv'
<1>1. l \in InProgress
  BY DEF CreateGame, SetActiveGames, Reset, InProgress
<1>2. InProgress = {l} /\ state = "launching" /\ launches[l].live /\ ~ Pending
  BY <1>1 DEF QuietInv, LaunchPart
<1>3. ASSUME UNCHANGED <<queueVars>>, launches'[l].step \in {"create", "created"},
             launches'[l].live, launches'[l].roster = PlayersOf(slots),
             \A k \in Launchers \ {l} : launches'[k] = launches[k]
      PROVE  QuietInv'
  <2>1. InProgress' = {l}
    BY <1>2, <1>3 DEF InProgress
  <2>2. LaunchPart'
    BY <1>1, <1>2, <1>3, <2>1
       DEF QuietInv, LaunchPart, queueVars, IsFull, AllReady, Pending, PlayersOf
  <2>3. QED
    BY <1>2, <1>3, <2>1, <2>2
       DEF QuietInv, OneBatch, DrainPart, WaitingPart, ReadyPart, queueVars
<1>4. CASE CreateGame(l)
  <2>1. SlotsOf(l) = slots
    BY <1>2 DEF SlotsOf
  <2>2. UNCHANGED queueVars
        /\ launches' = [launches EXCEPT ![l].step = "create",
                                        ![l].roster = PlayersOf(slots)]
    BY <1>4, <2>1 DEF CreateGame
  <2>3. QED
    BY <1>2, <1>3, <2>2 DEF TypeOK, Launch
<1>5. CASE SetActiveGames(l)
  <2>1. launches[l].roster = PlayersOf(slots)
    BY <1>1, <1>5 DEF SetActiveGames, QuietInv, LaunchPart
  <2>2. UNCHANGED queueVars /\ launches' = [launches EXCEPT ![l].step = "created"]
    BY <1>5 DEF SetActiveGames
  <2>3. QED
    BY <1>2, <1>3, <2>1, <2>2 DEF TypeOK, Launch
<1>6. CASE Reset(l)
  <2>1. Pending' /\ OneBatch' /\ state' = "launching"
    BY <1>2, <1>6, QuietSlotsChange DEF Reset, SlotsChange, OneBatch
  <2>2. IsEmpty(slots')
    BY <1>6 DEF Reset, IsEmpty, EmptyQueue, FreeSlot
  <2>3. InProgress' = {}
    <3>1. launches'[l].step = "idle"
      BY <1>6 DEF Reset, Idle
    <3>2. \A k \in Launchers \ {l} : launches'[k].step = launches[k].step
      BY <1>6 DEF Reset, TypeOK, Launch
    <3>3. QED
      BY <1>2, <3>1, <3>2 DEF InProgress
  <2>4. QED
    BY <2>1, <2>2, <2>3
       DEF QuietInv, LaunchPart, DrainPart, WaitingPart, ReadyPart, IsEmpty
<1>7. QED
  BY <1>4, <1>5, <1>6

LEMMA NextQuietInv ==
  ASSUME Quiet
  PROVE  TypeOK /\ SeatInv /\ QuietInv /\ [Next]_vars => QuietInv'
<1> SUFFICES ASSUME TypeOK, SeatInv, QuietInv, [Next]_vars PROVE QuietInv'
  OBVIOUS
<1>1. ASSUME NEW p \in Players, NEW s \in Slots, JoinBegin(p, s) PROVE QuietInv'
  BY <1>1, QuietUnchanged DEF JoinBegin
<1>2. CASE JoinReadPlayer \/ JoinReadBans \/ JoinReject
  BY <1>2, QuietUnchanged DEF JoinReadPlayer, JoinReadBans, JoinReject
<1>3. CASE JoinFinish
  BY <1>3, JoinQuiet
<1>4. ASSUME NEW p \in Players,
             Leave(p) \/ ReadyUp(p) \/ Disconnect(p) \/ AddBan(p)
      PROVE  QuietInv'
  BY <1>4, MembersQuiet DEF Disconnect, AddBan
<1>5. ASSUME NEW p \in Players, LeaveGame(p) \/ BanExpires(p) PROVE QuietInv'
  BY <1>5, QuietUnchanged DEF LeaveGame, BanExpires
<1>6. CASE StartCheckPhase
  <2>1. running' = queued /\ queued' = 0 /\ running = 0 /\ queued = 1
    BY <1>6 DEF StartCheckPhase, Turn, Quiet, TypeOK
  <2>2. UNCHANGED <<slots, state, timer, launches>>
    BY <1>6 DEF StartCheckPhase
  <2>3. Pending /\ Pending' /\ OneBatch'
    BY <2>1 DEF Pending, OneBatch
  <2>4. InProgress = {} /\ InProgress' = {}
    BY <2>2, <2>3 DEF QuietInv, LaunchPart, InProgress
  <2>5. QED
    BY <2>2, <2>3, <2>4 DEF QuietInv, LaunchPart, DrainPart, WaitingPart, ReadyPart,
                            IsFull, IsEmpty
<1>7. CASE QueueFills \/ QueueEmpties \/ StartLaunch \/ LaunchingEnds
             \/ NothingToUpdate
  BY <1>7, CheckPhaseQuiet
<1>8. CASE ReadyUpTimeout \/ UnreadyQueue
  BY <1>8, TimersQuiet
<1>9. ASSUME NEW l \in Launchers, CreateGame(l) \/ SetActiveGames(l) \/ Reset(l)
      PROVE  QuietInv'
  BY <1>9, LaunchQuiet
<1>10. CASE StoreQueue \/ CacheExpires
  BY <1>10, QuietUnchanged DEF StoreQueue, CacheExpires
<1>11. ~ Boot
  BY DEF Boot, Quiet, TypeOK
<1>12. CASE UNCHANGED vars
  BY <1>12, QuietUnchanged DEF vars, queueVars
<1>13. QED
  BY <1>1, <1>2, <1>3, <1>4, <1>5, <1>6, <1>7, <1>8, <1>9, <1>10, <1>11, <1>12
     DEF Next, Restart, LaunchFails

LEMMA QuietInvariant ==
  ASSUME Quiet
  PROVE  Spec => [](TypeOK /\ SeatInv /\ QuietInv)
BY InitTypeOK, NextTypeOK, InitSeatInv, NextSeatInv, InitQuietInv, NextQuietInv, PTL
   DEF Spec

-----------------------------------------------------------------------------
(* The theorems *)

\* From the last ready-up to the reset one launch is in progress, and its slots
\* stay full and ready: no join, leave, kick or timer reaches a launch.
THEOREM LaunchUndisturbed ==
  ASSUME Quiet
  PROVE  Spec => []LaunchIsUndisturbed
<1>1. QuietInv => LaunchIsUndisturbed
  BY DEF QuietInv, LaunchPart, LaunchIsUndisturbed
<1>2. QED
  BY <1>1, QuietInvariant, PTL

\* A launch is in progress only in the launching state.
THEOREM LaunchOnlyInLaunching ==
  ASSUME Quiet
  PROVE  Spec => []LaunchingStateCoversLaunch
<1>1. QuietInv => LaunchingStateCoversLaunch
  BY DEF QuietInv, LaunchPart, LaunchingStateCoversLaunch
<1>2. QED
  BY <1>1, QuietInvariant, PTL

\* The queue never rests where maybeUpdateState() would have something to do,
\* and never stays in launching with nobody to reset it.
THEOREM WakeupsAreNotLost ==
  ASSUME Quiet
  PROVE  Spec => []NoLostWakeup
<1>1. QuietInv => NoLostWakeup
  BY DEF QuietInv, DrainPart, WaitingPart, ReadyPart, NoLostWakeup, Pending
<1>2. QED
  BY <1>1, QuietInvariant, PTL

\* The ready state always has a timer armed that will end it.
THEOREM ReadyStateIsTimed ==
  ASSUME Quiet
  PROVE  Spec => []ReadyHasTimer
<1>1. QuietInv => ReadyHasTimer
  BY DEF QuietInv, ReadyPart, ReadyHasTimer
<1>2. QED
  BY <1>1, QuietInvariant, PTL

\* The reset drops exactly the players the game was created for.
THEOREM ResetHandsOverRoster ==
  ASSUME Quiet
  PROVE  Spec => ResetDropsOnlyLaunched
<1>1. ASSUME TypeOK, QuietInv, NEW l \in Launchers, Reset(l)
      PROVE  PlayersOf(slots) = launches[l].roster
  BY <1>1 DEF Reset, QuietInv, LaunchPart, InProgress
<1>2. TypeOK /\ QuietInv =>
        \A l \in Launchers : Reset(l) => PlayersOf(slots) = launches[l].roster
  BY <1>1
<1>3. QED
  BY <1>2, QuietInvariant, PTL DEF ResetDropsOnlyLaunched

-----------------------------------------------------------------------------
(* The queue implements Roster when the event loop reaches its check phase  *)
(* after every slot change and the process does not die: each callback is   *)
(* one step of the roster or leaves it as it is                             *)

\* The players who count as ready.
Readied(sl) == {sl[s].player : s \in {t \in Slots : sl[t].ready}}

\* The roster, its steps seen from the queue.
RosterUnchanged ==
  state' = state /\ PlayersOf(slots') = PlayersOf(slots) /\ Readied(slots') = Readied(slots)

RosterStep == R!RosterNext \/ RosterUnchanged

LEMMA StepIsRosterStep == RosterStep => [R!RosterNext]_(R!rosterVars)
BY DEF RosterStep, RosterUnchanged, R!rosterVars, PlayersOf, Readied

\* Both modules count with the same operator.
LEMMA SameCount == \A S : R!Cardinality(S) = Cardinality(S)
BY DEF R!Cardinality, Cardinality

LEMMA RosterStart == Init => R!RosterInit
BY DEF Init, R!RosterInit, PlayersOf, EmptyQueue, FreeSlot

\* Clearing some slots takes their players out of the roster.
LEMMA ClearedRoster ==
  ASSUME NEW sl \in [Slots -> QueueSlot], WellSeated(sl), NEW p \in Players
  PROVE  /\ PlayersOf(Without(sl, {p})) = PlayersOf(sl) \ {p}
         /\ Readied(Without(sl, {p})) = Readied(sl) \ {p}
<1> DEFINE w == Without(sl, {p})
<1>1. \A s \in Slots : w[s] = IF sl[s].player = p THEN FreeSlot ELSE sl[s]
  BY DEF Without
<1>2. FreeSlot.player = NoPlayer /\ FreeSlot.ready = FALSE /\ p # NoPlayer
  BY DEF FreeSlot, QueueAssumption
<1> HIDE DEF w
<1>3. PlayersOf(w) = PlayersOf(sl) \ {p}
  BY <1>1, <1>2 DEF PlayersOf
<1>4. Readied(w) = Readied(sl) \ {p}
  BY <1>1, <1>2 DEF Readied
<1>5. QED
  BY <1>3, <1>4 DEF w

LEMMA EnterStep ==
  ASSUME Quiet, TypeOK, SeatInv, QuietInv, SeatInv', TypeOK', JoinFinish
  PROVE  RosterStep
<1> DEFINE p     == joining.player
           j     == joining.slot
           w     == Without(slots, {p})
           moved == [w EXCEPT ![j].player = p]
<1>1. joining \in JoinRequest
  BY DEF JoinFinish, NoJoin, TypeOK
<1>2. p \in Players /\ j \in Slots /\ p # NoPlayer
  BY <1>1 DEF JoinRequest, QueueAssumption
<1>3. slots \in [Slots -> QueueSlot] /\ w \in [Slots -> QueueSlot]
  BY WithoutType DEF TypeOK
<1>4. slots[j].player = NoPlayer /\ ~ IsFull(slots)
  BY <1>2 DEF JoinFinish, JoinRefused, IsFull
<1>5. ~ Pending
  BY QuietSlotsChange DEF JoinFinish, SlotsChange
<1>6. state # "launching" /\ state' = state
  BY <1>4, <1>5 DEF JoinFinish, QuietInv, LaunchPart, DrainPart
<1>7. /\ PlayersOf(w) = PlayersOf(slots) \ {p}
      /\ Readied(w) = Readied(slots) \ {p}
  BY <1>2, <1>3, ClearedRoster DEF SeatInv
<1>8. w[j].player = NoPlayer /\ w[j].ready = FALSE
  <2>1. w[j] = slots[j]
    BY <1>2, <1>4 DEF Without
  <2>2. QED
    BY <1>2, <1>4, <2>1 DEF SeatInv, WellSeated, TypeOK, QueueSlot
<1>9. slots' = [moved EXCEPT ![j].ready = (state = "ready" \/ IsFull(moved))]
  BY DEF JoinFinish
<1>10. moved \in [Slots -> QueueSlot]
  BY <1>2, <1>3 DEF QueueSlot
<1>11. /\ moved[j].player = p
       /\ \A s \in Slots \ {j} : moved[s] = w[s]
  BY <1>2, <1>3 DEF QueueSlot
<1> HIDE DEF p, j, w, moved
<1>12. PICK b \in BOOLEAN : b = (state = "ready" \/ IsFull(moved))
  BY Zenon
<1>13. slots' = [moved EXCEPT ![j].ready = b]
  BY <1>9, <1>12, Zenon
<1>14. /\ slots'[j].player = p /\ slots'[j].ready = b
       /\ \A s \in Slots \ {j} : slots'[s] = w[s]
  BY <1>2, <1>10, <1>11, <1>13 DEF QueueSlot
<1>15. PlayersOf(slots') = PlayersOf(slots) \cup {p}
  BY <1>2, <1>7, <1>8, <1>14 DEF PlayersOf
<1>16. Readied(slots') = IF b THEN Readied(slots) \cup {p} ELSE Readied(slots) \ {p}
  BY <1>2, <1>7, <1>8, <1>14 DEF Readied
<1>17. b = (state = "ready" \/ Cardinality(PlayersOf(slots')) = Cardinality(Slots))
  <2>1. IsFull(moved) <=> IsFull(slots')
    BY <1>2, <1>11, <1>14 DEF IsFull
  <2>2. IsFull(slots') <=> Cardinality(PlayersOf(slots')) = Cardinality(Slots)
    BY RosterSize DEF SeatInv, TypeOK
  <2>3. QED
    BY <1>12, <2>1, <2>2
<1>18. ~ b => Readied(slots) = {}
  <2>1. ASSUME ~ b PROVE state = "waiting"
    BY <1>6, <1>17, <2>1 DEF TypeOK, QueueState
  <2>2. QED
    BY <1>5, <2>1, NobodyReadyInWaiting DEF Readied
<1>19. Cardinality(PlayersOf(slots)) < Cardinality(Slots)
  BY <1>3, <1>4, RoomLeft
<1>20. Readied(slots') = IF b THEN Readied(slots) \cup {p} ELSE Readied(slots)
  BY <1>16, <1>18
<1>21. PICK q \in Players : q = p
  BY <1>2
<1>22. R!Enter(q)
  BY <1>6, <1>15, <1>17, <1>19, <1>20, <1>21, SameCount DEF R!Enter, Readied
<1>23. QED
  BY <1>22 DEF RosterStep, R!RosterNext

LEMMA ExitStep ==
  ASSUME Quiet, TypeOK, SeatInv, QuietInv, NEW p \in Players, Turn, SlotsChange,
         slots' = Without(slots, {p}), state' = state, state # "launching"
  PROVE  RosterStep
<1>1. /\ PlayersOf(slots') = PlayersOf(slots) \ {p}
      /\ Readied(slots') = Readied(slots) \ {p}
  BY ClearedRoster DEF TypeOK, SeatInv
<1>2. CASE p \in PlayersOf(slots)
  <2>1. R!Exit(p)
    BY <1>1, <1>2 DEF R!Exit, PlayersOf, Readied
  <2>2. QED
    BY <2>1 DEF RosterStep, R!RosterNext
<1>3. CASE p \notin PlayersOf(slots)
  <2>1. p \notin Readied(slots)
    BY <1>3 DEF Readied, PlayersOf, QueueAssumption
  <2>2. QED
    BY <1>1, <1>3, <2>1 DEF RosterStep, RosterUnchanged
<1>4. QED
  BY <1>2, <1>3

LEMMA ReadyUpStep ==
  ASSUME TypeOK, SeatInv, NEW p \in Players, ReadyUp(p)
  PROVE  RosterStep
<1>1. slots \in [Slots -> QueueSlot]
  BY DEF TypeOK
<1>2. state = "ready" /\ state' = state /\ p \in PlayersOf(slots)
  BY DEF ReadyUp
<1>3. \A s \in Slots : /\ slots'[s].player = slots[s].player
                       /\ slots'[s].ready <=> (slots[s].player = p \/ slots[s].ready)
  BY <1>1 DEF ReadyUp, QueueSlot
<1>4. PlayersOf(slots') = PlayersOf(slots)
  BY <1>3 DEF PlayersOf
<1>5. Readied(slots') = Readied(slots) \cup {p}
  BY <1>2, <1>3 DEF Readied, PlayersOf
<1>6. R!ReadyUpMember(p)
  BY <1>2, <1>4, <1>5 DEF R!ReadyUpMember, PlayersOf, Readied
<1>7. QED
  BY <1>6 DEF RosterStep, R!RosterNext

LEMMA TimeoutStep ==
  ASSUME TypeOK, SeatInv, ReadyUpTimeout \/ UnreadyQueue
  PROVE  RosterStep
<1>1. slots \in [Slots -> QueueSlot]
  BY DEF TypeOK
<1>2. state = "ready"
  BY DEF ReadyUpTimeout, UnreadyQueue, SeatInv, TimerOnlyWhenReady
<1>3. CASE ReadyUpTimeout
  <2>1. state' = state
    BY <1>3 DEF ReadyUpTimeout
  <2>2. CASE AllReady(slots)
    BY <1>3, <2>1, <2>2 DEF ReadyUpTimeout, RosterStep, RosterUnchanged
  <2>3. CASE ~ AllReady(slots)
    <3>1. \A s \in Slots : slots'[s] = IF slots[s].ready THEN slots[s] ELSE FreeSlot
      BY <1>3, <2>3 DEF ReadyUpTimeout
    <3>2. PlayersOf(slots') = Readied(slots)
      BY <3>1 DEF PlayersOf, Readied, FreeSlot, SeatInv, WellSeated
    <3>3. Readied(slots') = Readied(slots)
      BY <3>1 DEF Readied, FreeSlot
    <3>4. R!DropUnready
      BY <1>2, <2>1, <3>2, <3>3 DEF R!DropUnready, PlayersOf, Readied
    <3>5. QED
      BY <3>4 DEF RosterStep, R!RosterNext
  <2>4. QED
    BY <2>2, <2>3
<1>4. CASE UnreadyQueue
  <2>1. \A s \in Slots : /\ slots'[s].player = slots[s].player
                         /\ slots'[s].ready = FALSE
    BY <1>1, <1>4 DEF UnreadyQueue, QueueSlot
  <2>2. PlayersOf(slots') = PlayersOf(slots) /\ Readied(slots') = {}
    BY <2>1 DEF PlayersOf, Readied
  <2>3. state' = "waiting"
    BY <1>4 DEF UnreadyQueue, SetState
  <2>4. R!Unready
    BY <1>2, <2>2, <2>3 DEF R!Unready, PlayersOf, Readied
  <2>5. QED
    BY <2>4 DEF RosterStep, R!RosterNext
<1>5. QED
  BY <1>3, <1>4

LEMMA UpdateStep ==
  ASSUME Quiet, TypeOK, SeatInv, QuietInv,
         QueueFills \/ QueueEmpties \/ StartLaunch \/ LaunchingEnds \/ NothingToUpdate
  PROVE  RosterStep
<1>1. slots \in [Slots -> QueueSlot] /\ WellSeated(slots)
  BY DEF TypeOK, SeatInv
<1>2. slots' = slots /\ InProgress = {}
  BY DEF QueueFills, QueueEmpties, StartLaunch, LaunchingEnds, NothingToUpdate,
         Immediate, Pending, Quiet, TypeOK, QuietInv, LaunchPart
<1>3. PlayersOf(slots') = PlayersOf(slots) /\ Readied(slots') = Readied(slots)
  BY <1>2
<1>4. ASSUME IsEmpty(slots) PROVE PlayersOf(slots) = {}
  BY <1>4 DEF IsEmpty, PlayersOf
<1>5. CASE QueueFills
  <2>1. Cardinality(PlayersOf(slots)) = Cardinality(Slots)
    BY <1>1, <1>5, FullRoster DEF QueueFills
  <2>2. R!Assemble
    BY <1>3, <1>5, <2>1, SameCount DEF QueueFills, SetState, R!Assemble, Readied
  <2>3. QED
    BY <2>2 DEF RosterStep, R!RosterNext
<1>6. CASE QueueEmpties
  <2>1. R!Abandon
    BY <1>3, <1>4, <1>6 DEF QueueEmpties, SetState, R!Abandon, PlayersOf, Readied
  <2>2. QED
    BY <2>1 DEF RosterStep, R!RosterNext
<1>7. CASE StartLaunch
  <2>1. AllReady(slots) /\ state = "ready" /\ state' = "launching"
    BY <1>7 DEF StartLaunch, SetState
  <2>2. IsFull(slots)
    BY <1>1, <2>1 DEF AllReady, IsFull, WellSeated
  <2>3. Readied(slots) = PlayersOf(slots)
    BY <2>1, <2>2 DEF Readied, PlayersOf, AllReady, IsFull
  <2>4. Cardinality(Readied(slots)) = Cardinality(Slots)
    BY <1>1, <2>2, <2>3, FullRoster
  <2>5. R!BeginGame
    BY <1>3, <2>1, <2>4, SameCount DEF R!BeginGame, Readied
  <2>6. QED
    BY <2>5 DEF RosterStep, R!RosterNext
<1>8. CASE LaunchingEnds
  <2>1. state = "launching" /\ state' = "waiting"
    BY <1>8 DEF LaunchingEnds, SetState
  <2>2. PlayersOf(slots) = {}
    BY <1>2, <1>4, <2>1 DEF QuietInv, DrainPart
  <2>3. R!Reopen
    BY <1>3, <2>1, <2>2 DEF R!Reopen, PlayersOf, Readied
  <2>4. QED
    BY <2>3 DEF RosterStep, R!RosterNext
<1>9. CASE NothingToUpdate
  BY <1>3, <1>9 DEF NothingToUpdate, RosterStep, RosterUnchanged
<1>10. QED
  BY <1>5, <1>6, <1>7, <1>8, <1>9

LEMMA HandOverStep ==
  ASSUME TypeOK, QuietInv, NEW l \in Launchers, Reset(l)
  PROVE  RosterStep
<1>1. l \in InProgress
  BY DEF Reset, InProgress
<1>2. state = "launching" /\ IsFull(slots) /\ state' = state
  BY <1>1 DEF QuietInv, LaunchPart, Reset
<1>3. PlayersOf(slots) # {}
  BY <1>2 DEF IsFull, PlayersOf, QueueAssumption
<1>4. PlayersOf(slots') = {} /\ Readied(slots') = {}
  BY DEF Reset, EmptyQueue, FreeSlot, PlayersOf, Readied
<1>5. R!HandOver
  BY <1>2, <1>3, <1>4 DEF R!HandOver, PlayersOf, Readied
<1>6. QED
  BY <1>5 DEF RosterStep, R!RosterNext

LEMMA NextRosterStep ==
  ASSUME Quiet, TypeOK, SeatInv, QuietInv, TypeOK', SeatInv', [Next]_vars
  PROVE  RosterStep
<1>1. ASSUME UNCHANGED <<slots, state>> PROVE RosterStep
  BY <1>1 DEF RosterStep, RosterUnchanged
<1>2. CASE JoinFinish
  BY <1>2, EnterStep
<1>3. ASSUME NEW p \in Players, Leave(p) PROVE RosterStep
  <2>1. ~ Pending /\ InProgress = {}
    BY <1>3, QuietSlotsChange
       DEF Leave, SlotsChange, QuietInv, LaunchPart, AllReady
  <2>2. state # "launching"
    BY <2>1 DEF QuietInv, DrainPart
  <2>3. QED
    BY <1>3, <2>2, ExitStep DEF Leave
<1>4. ASSUME NEW p \in Players, Kick(p) PROVE RosterStep
  BY <1>1, <1>4, ExitStep DEF Kick
<1>5. ASSUME NEW p \in Players, Disconnect(p) \/ AddBan(p) PROVE RosterStep
  BY <1>4, <1>5 DEF Disconnect, AddBan
<1>6. ASSUME NEW p \in Players, ReadyUp(p) PROVE RosterStep
  BY <1>6, ReadyUpStep
<1>7. CASE ReadyUpTimeout \/ UnreadyQueue
  BY <1>7, TimeoutStep
<1>8. CASE QueueFills \/ QueueEmpties \/ StartLaunch \/ LaunchingEnds
             \/ NothingToUpdate
  BY <1>8, UpdateStep
<1>9. ASSUME NEW l \in Launchers, Reset(l) PROVE RosterStep
  BY <1>9, HandOverStep
<1>10. ASSUME NEW l \in Launchers, CreateGame(l) \/ SetActiveGames(l)
       PROVE  UNCHANGED <<slots, state>>
  BY <1>10 DEF CreateGame, SetActiveGames, queueVars
<1>11. ASSUME NEW p \in Players,
              LeaveGame(p) \/ BanExpires(p) \/ \E s \in Slots : JoinBegin(p, s)
       PROVE  UNCHANGED <<slots, state>>
  BY <1>11 DEF LeaveGame, BanExpires, JoinBegin, queueVars
<1>12. CASE JoinReadPlayer \/ JoinReadBans \/ JoinReject \/ StartCheckPhase
              \/ StoreQueue \/ CacheExpires \/ UNCHANGED vars
  BY <1>1, <1>12 DEF JoinReadPlayer, JoinReadBans, JoinReject, StartCheckPhase,
                     StoreQueue, CacheExpires, vars, queueVars
<1>13. ~ Boot
  BY DEF Boot, Quiet, TypeOK
<1>14. QED
  BY <1>1, <1>2, <1>3, <1>5, <1>6, <1>7, <1>8, <1>9, <1>10, <1>11, <1>12, <1>13
     DEF Next, Restart, LaunchFails

\* The queue hands whole rosters over: from the last ready-up to the reset the
\* roster is frozen, and only then does the queue open again.
THEOREM QueueImplementsRoster ==
  ASSUME Quiet
  PROVE  Spec => RefinesRoster
<1>1. Init => R!RosterInit
  BY RosterStart
<1>2. TypeOK /\ SeatInv /\ QuietInv /\ (TypeOK /\ SeatInv)' /\ [Next]_vars
        => [R!RosterNext]_(R!rosterVars)
  BY NextRosterStep, StepIsRosterStep
<1>3. QED
  BY <1>1, <1>2, QuietInvariant, PTL DEF Spec, RefinesRoster, R!RosterSpec

=============================================================================
