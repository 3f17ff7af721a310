---------------------------- MODULE GamesProofs ----------------------------
(***************************************************************************)
(* Theorems about Games, for every set of players and games, every number  *)
(* of places, with or without overlapping operations, and whatever the     *)
(* bounds.                                                                 *)
(***************************************************************************)
EXTENDS Games, SequenceTheorems, FiniteSetTheorems, TLAPS

USE GamesAssumption

-----------------------------------------------------------------------------
(* The operators on slots *)

\* Marking a player's slots keeps the slots and their players.
LEMMA WithStatusType ==
  ASSUME NEW sl \in Seq(GameSlot), NEW p, NEW status \in SlotStatus
  PROVE  /\ WithStatus(sl, p, status) \in Seq(GameSlot)
         /\ DOMAIN WithStatus(sl, p, status) = DOMAIN sl
         /\ \A i \in DOMAIN sl :
              WithStatus(sl, p, status)[i].player = sl[i].player
<1> DEFINE new == WithStatus(sl, p, status)
<1>1. DOMAIN sl = 1..Len(sl) /\ Len(sl) \in Nat
  BY LenProperties
<1>2. DOMAIN new = 1..Len(sl)
  BY <1>1 DEF WithStatus
<1>3. \A i \in 1..Len(sl) : sl[i] \in GameSlot
  BY ElementOfSeq
<1>4. ASSUME NEW i \in 1..Len(sl)
      PROVE  new[i] \in GameSlot /\ new[i].player = sl[i].player
  BY <1>1, <1>3 DEF WithStatus, GameSlot
<1>5. new \in [1..Len(sl) -> GameSlot]
  BY <1>1, <1>2, <1>4 DEF WithStatus
<1>6. new \in Seq(GameSlot)
  BY <1>1, <1>5, SeqDef
<1> QED
  BY <1>1, <1>2, <1>4, <1>6

\* So does settling them.
LEMMA SettledType ==
  ASSUME NEW sl \in Seq(GameSlot)
  PROVE  /\ Settled(sl) \in Seq(GameSlot)
         /\ DOMAIN Settled(sl) = DOMAIN sl
         /\ \A i \in DOMAIN sl : Settled(sl)[i].player = sl[i].player
<1> DEFINE new == Settled(sl)
<1>1. DOMAIN sl = 1..Len(sl) /\ Len(sl) \in Nat
  BY LenProperties
<1>2. DOMAIN new = 1..Len(sl)
  BY <1>1 DEF Settled
<1>3. \A i \in 1..Len(sl) : sl[i] \in GameSlot
  BY ElementOfSeq
<1>4. ASSUME NEW i \in 1..Len(sl)
      PROVE  new[i] \in GameSlot /\ new[i].player = sl[i].player
  BY <1>1, <1>3 DEF Settled, GameSlot, SlotStatus
<1>5. new \in [1..Len(sl) -> GameSlot]
  BY <1>1, <1>2, <1>4 DEF Settled
<1>6. new \in Seq(GameSlot)
  BY <1>1, <1>5, SeqDef
<1> QED
  BY <1>1, <1>2, <1>4, <1>6

\* The players of well-typed slots are players.
LEMMA PlayersOfType ==
  ASSUME NEW sl \in Seq(GameSlot)
  PROVE  /\ PlayersOf(sl) \in SUBSET Players
         /\ \A i \in DOMAIN sl : /\ sl[i] \in GameSlot
                                 /\ sl[i].player \in Players
                                 /\ sl[i].place \in 1..Size
<1>1. \A i \in DOMAIN sl : sl[i] \in GameSlot
  BY LenProperties, ElementOfSeq
<1> QED
  BY <1>1 DEF PlayersOf, GameSlot


-----------------------------------------------------------------------------
(* Type correctness *)

\* What an operation has read is there while it needs it.
Reads ==
  /\ launch.step = "assign" => launch.game \in GameIds
  /\ model.step # "idle" => model.game \in GameIds
  /\ sub.step # "idle" => sub.game \in GameIds /\ sub.replacee \in Players
  /\ sub.step \in {"getGame", "takeOwn", "push", "mark", "assign", "release"} =>
       sub.replacement \in Players
  /\ sub.step \in {"push", "mark", "assign", "release"} => sub.place \in 1..Size

TInv == TypeOK /\ Reads

LEMMA InitTInv == Init => TInv
BY EmptySeq DEF Init, TInv, TypeOK, Reads, NotCreated, Game, GameState, NoLaunch, Launch,
   NoSubstitution, Substitution, NoModelUpdate, ModelUpdate

\* A game stays well typed when its slots or its state are replaced.
LEMMA GamesUpdateType ==
  ASSUME games \in [GameIds -> Game], NEW g \in GameIds,
         NEW sl \in Seq(GameSlot), NEW st \in GameState
  PROVE  /\ [games EXCEPT ![g].slots = sl] \in [GameIds -> Game]
         /\ [games EXCEPT ![g].state = st] \in [GameIds -> Game]
         /\ [games EXCEPT ![g].state = st, ![g].slots = sl] \in [GameIds -> Game]
         /\ games[g].slots \in Seq(GameSlot)
         /\ games[g].state \in GameState
BY DEF Game

LEMMA GameChangesType ==
  ASSUME ends \in [GameIds -> 0..2], NEW g \in GameIds, NEW live, GameChanges(g, live)
  PROVE  /\ ends' \in [GameIds -> 0..2]
         /\ \A h \in GameIds : ends'[h] >= ends[h]
BY DEF GameChanges

LEMMA UnsetsOfType ==
  ASSUME NEW by \in {"medics", "timer", "force"}, NEW g \in GameIds,
         NEW P \in SUBSET Players
  PROVE  UnsetsOf(by, g, P) \in SUBSET Unset
BY DEF UnsetsOf, Unset

\* The actions of the queue and the launch.
LEMMA LaunchTInv ==
  ASSUME TInv,
         \/ \E p \in Players : JoinQueue(p) \/ LeaveQueue(p) \/ AssignGame(p)
         \/ BeginLaunch
         \/ ResetQueue
         \/ \E g \in GameIds : CreateGame(g)
  PROVE  TInv'
<1> USE DEF TInv, TypeOK, Reads, dbVars
<1>1. ASSUME NEW p \in Players, JoinQueue(p) PROVE TInv'
  BY <1>1 DEF JoinQueue
<1>2. ASSUME NEW p \in Players, LeaveQueue(p) PROVE TInv'
  BY <1>2 DEF LeaveQueue
<1>3. ASSUME NEW p \in Players, AssignGame(p) PROVE TInv'
  BY <1>3 DEF AssignGame, Launch
<1>4. CASE BeginLaunch
  BY <1>4 DEF BeginLaunch, Launch, NoLaunch
<1>5. CASE ResetQueue
  BY <1>5 DEF ResetQueue, Launch, NoLaunch
<1>6. ASSUME NEW g \in GameIds, CreateGame(g) PROVE TInv'
  <2>1. PICK player \in [1..Size -> queue] :
          games' = [games EXCEPT ![g] =
            [state |-> "launching",
             slots |-> [i \in 1..Size |->
               [player |-> player[i], place |-> i, status |-> "active"]]]]
    BY <1>6 DEF CreateGame
  <2> DEFINE sl == [i \in 1..Size |->
                     [player |-> player[i], place |-> i, status |-> "active"]]
  <2>2. sl \in [1..Size -> GameSlot]
    BY DEF GameSlot, SlotStatus
  <2>3. sl \in Seq(GameSlot)
    BY <2>2, SeqDef
  <2>4. [state |-> "launching", slots |-> sl] \in Game
    BY <2>3 DEF Game, GameState
  <2>5. games' \in [GameIds -> Game]
    BY <2>1, <2>4
  <2>6. launch' \in Launch /\ launch'.game \in GameIds
    BY <1>6 DEF CreateGame, Launch
  <2> QED
    BY <1>6, <2>5, <2>6 DEF CreateGame
<1> QED
  BY <1>1, <1>2, <1>3, <1>4, <1>5, <1>6

\* The actions of the match, and forceEnd().
LEMMA MatchTInv ==
  ASSUME TInv,
         \/ \E g \in GameIds : \/ MatchStarts(g) \/ MatchEnds(g) \/ FreeAllPlayers(g)
                               \/ BeginUpdate(g) \/ BeginForceEnd(g) \/ ForceEnd(g)
         \/ FreeAllMedics
         \/ MedicsAreFree
         \/ \E u \in unsets : UnsetActiveGame(u)
         \/ EndUpdate
  PROVE  TInv'
<1> USE DEF TInv, TypeOK, Reads, dbVars
<1>1. ASSUME NEW g \in GameIds, MatchStarts(g) PROVE TInv'
  <2>1. games' \in [GameIds -> Game]
    BY <1>1, GamesUpdateType, EmptySeq DEF MatchStarts, GameState
  <2> QED
    BY <1>1, <2>1 DEF MatchStarts
<1>2. ASSUME NEW g \in GameIds, MatchEnds(g) PROVE TInv'
  <2>1. games[g].slots \in Seq(GameSlot)
    BY GamesUpdateType, EmptySeq DEF GameState
  <2>2. games' \in [GameIds -> Game]
    BY <1>2, <2>1, SettledType, GamesUpdateType DEF MatchEnds, GameState
  <2>3. ends' \in [GameIds -> 0..2]
    BY <1>2, GameChangesType DEF MatchEnds
  <2>4. model' \in ModelUpdate /\ model'.game \in GameIds
    BY <1>2 DEF MatchEnds, ModelUpdate, NoModelUpdate
  <2> QED
    BY <1>2, <2>2, <2>3, <2>4 DEF MatchEnds
<1>3. ASSUME NEW g \in GameIds, FreeAllPlayers(g) PROVE TInv'
  <2>1. PlayersOf(games[g].slots) \in SUBSET Players
    BY GamesUpdateType, EmptySeq, PlayersOfType DEF GameState
  <2>2. unsets' \in SUBSET Unset
    BY <1>3, <2>1, UnsetsOfType DEF FreeAllPlayers
  <2> QED
    BY <1>3, <2>2 DEF FreeAllPlayers
<1>4. ASSUME NEW g \in GameIds, BeginUpdate(g) PROVE TInv'
  BY <1>4 DEF BeginUpdate, ModelUpdate, InProgress
<1>5. ASSUME NEW g \in GameIds, BeginForceEnd(g) PROVE TInv'
  BY <1>5 DEF BeginForceEnd
<1>6. ASSUME NEW g \in GameIds, ForceEnd(g) PROVE TInv'
  <2>1. games[g].slots \in Seq(GameSlot)
    BY GamesUpdateType, EmptySeq DEF GameState
  <2>2. games' \in [GameIds -> Game]
    BY <1>6, <2>1, SettledType, GamesUpdateType DEF ForceEnd, GameState
  <2>3. ends' \in [GameIds -> 0..2]
    BY <1>6, GameChangesType DEF ForceEnd
  <2>4. unsets' \in SUBSET Unset
    BY <1>6, <2>1, PlayersOfType, UnsetsOfType DEF ForceEnd
  <2> QED
    BY <1>6, <2>2, <2>3, <2>4 DEF ForceEnd
<1>7. CASE FreeAllMedics
  <2> DEFINE g == model.game
             sl == games[g].slots
             P == {sl[i].player : i \in {j \in DOMAIN sl : sl[j].place \in Medics}}
  <2>1. g \in GameIds
    BY <1>7 DEF FreeAllMedics
  <2>2. sl \in Seq(GameSlot)
    BY <2>1, GamesUpdateType, EmptySeq DEF GameState
  <2>3. P \in SUBSET Players
    BY <2>2, PlayersOfType
  <2>4. unsets' = unsets \cup UnsetsOf("medics", g, P)
    BY <1>7 DEF FreeAllMedics
  <2> HIDE DEF P, sl
  <2>5. unsets' \in SUBSET Unset
    BY <2>1, <2>3, <2>4, UnsetsOfType
  <2>6. model' \in ModelUpdate /\ model'.game \in GameIds
    BY <1>7, <2>1 DEF FreeAllMedics, ModelUpdate
  <2> QED
    BY <1>7, <2>5, <2>6 DEF FreeAllMedics
<1>8. CASE MedicsAreFree
  BY <1>8 DEF MedicsAreFree, ModelUpdate, NoModelUpdate
<1>9. ASSUME NEW u \in unsets, UnsetActiveGame(u) PROVE TInv'
  BY <1>9 DEF UnsetActiveGame, Unset
<1>10. CASE EndUpdate
  <2>1. ends' \in [GameIds -> 0..2]
    BY <1>10, GameChangesType DEF EndUpdate
  <2> QED
    BY <1>10, <2>1 DEF EndUpdate, ModelUpdate, NoModelUpdate
<1> QED
  BY <1>1, <1>2, <1>3, <1>4, <1>5, <1>6, <1>7, <1>8, <1>9, <1>10

\* The last write of a request.
LEMMA MarkSlotsTInv ==
  ASSUME TInv, NEW step \in {"substitute", "cancel", "takeOwn"},
         NEW status \in SlotStatus, MarkSlots(step, status)
  PROVE  TInv'
<1> USE DEF TInv, TypeOK, Reads, dbVars
<1>1. sub.game \in GameIds
  BY DEF MarkSlots
<1>2. games[sub.game].slots \in Seq(GameSlot)
  BY <1>1, GamesUpdateType, EmptySeq DEF GameState
<1>3. games' \in [GameIds -> Game]
  BY <1>1, <1>2, WithStatusType, GamesUpdateType DEF MarkSlots, GameState
<1>4. ends' \in [GameIds -> 0..2]
  BY <1>1, GameChangesType DEF MarkSlots
<1> QED
  BY <1>3, <1>4 DEF MarkSlots, Substitution, NoSubstitution

\* The substitutions.
LEMMA SubstitutionTInv ==
  ASSUME TInv,
         \/ \E g \in GameIds, p \in Players : BeginSubstitute(g, p) \/ BeginCancel(g, p)
         \/ \E g \in GameIds, x, y \in Players : BeginReplace(g, x, y)
         \/ NothingToReplace \/ ReplaceOwn \/ ReplaceOther
         \/ Substitute \/ Cancel \/ TakeOwnSlot
         \/ PushSlot \/ MarkReplaced \/ AssignReplacement \/ ReleaseReplacee
  PROVE  TInv'
<1> USE DEF TInv, TypeOK, Reads, dbVars
<1>1. ASSUME NEW g \in GameIds, NEW p \in Players,
             BeginSubstitute(g, p) \/ BeginCancel(g, p)
      PROVE  TInv'
  <2>a. PICK step \in {"substitute", "cancel"} :
          sub' = [step |-> step, game |-> g, replacee |-> p, replacement |-> NoPlayer,
                  place |-> 0, live |-> TRUE]
    BY <1>1 DEF BeginSubstitute, BeginCancel, NoSubstitution
  <2>1. sub' \in Substitution
    BY <2>a DEF Substitution
  <2> QED
    BY <1>1, <2>a, <2>1 DEF BeginSubstitute, BeginCancel
<1>2. ASSUME NEW g \in GameIds, NEW x \in Players, NEW y \in Players, BeginReplace(g, x, y)
      PROVE  TInv'
  <2>a. sub' = [step |-> "getGame", game |-> g, replacee |-> x, replacement |-> y,
                place |-> 0, live |-> FALSE]
    BY <1>2 DEF BeginReplace, NoSubstitution
  <2>1. sub' \in Substitution
    BY <2>a DEF Substitution
  <2> QED
    BY <1>2, <2>a, <2>1 DEF BeginReplace
<1>3. CASE NothingToReplace
  BY <1>3 DEF NothingToReplace, Substitution, NoSubstitution
<1>4. CASE ReplaceOwn
  <2> DEFINE live == InProgress(sub.game)
  <2>1. live \in BOOLEAN /\ sub' = [sub EXCEPT !.step = "takeOwn", !.live = live]
    BY <1>4 DEF ReplaceOwn, InProgress
  <2> HIDE DEF live
  <2>2. sub' \in Substitution /\ sub'.step = "takeOwn" /\ sub'.game = sub.game
        /\ sub'.replacee = sub.replacee /\ sub'.replacement = sub.replacement
    BY <2>1 DEF Substitution
  <2> QED
    BY <1>4, <2>2 DEF ReplaceOwn
<1>5. CASE ReplaceOther
  <2>1. sub.game \in GameIds /\ sub.replacement \in Players
    BY <1>5 DEF ReplaceOther
  <2>2. PICK i \in WaitingSlots(sub.game, sub.replacee) :
          sub' = [sub EXCEPT !.step = "push", !.live = InProgress(sub.game),
                             !.place = games[sub.game].slots[i].place]
    BY <1>5 DEF ReplaceOther
  <2>3. games[sub.game].slots[i].place \in 1..Size
    BY <2>1, GamesUpdateType, EmptySeq, PlayersOfType DEF GameState, WaitingSlots
  <2> DEFINE live == InProgress(sub.game)
             place == games[sub.game].slots[i].place
  <2>4. live \in BOOLEAN /\ place \in 1..Size
        /\ sub' = [sub EXCEPT !.step = "push", !.live = live, !.place = place]
    BY <2>2, <2>3 DEF InProgress
  <2> HIDE DEF live, place
  <2>5. sub' = [step |-> "push", game |-> sub.game, replacee |-> sub.replacee,
                replacement |-> sub.replacement, place |-> place, live |-> live]
    BY <2>4 DEF Substitution
  <2>6. sub' \in Substitution
    BY <2>4, <2>5, <2>1 DEF Substitution
  <2> QED
    BY <1>5, <2>1, <2>4, <2>5, <2>6 DEF ReplaceOther
<1>6. CASE Substitute
  BY <1>6, MarkSlotsTInv DEF Substitute, SlotStatus
<1>7. CASE Cancel
  BY <1>7, MarkSlotsTInv DEF Cancel, SlotStatus
<1>8. CASE TakeOwnSlot
  BY <1>8, MarkSlotsTInv DEF TakeOwnSlot, SlotStatus
<1>9. CASE PushSlot
  <2> DEFINE slot == [player |-> sub.replacement, place |-> sub.place, status |-> "active"]
  <2>1. sub.game \in GameIds /\ slot \in GameSlot
    BY <1>9 DEF PushSlot, GameSlot, SlotStatus
  <2>2. games[sub.game].slots \in Seq(GameSlot)
    BY <2>1, GamesUpdateType, EmptySeq DEF GameState
  <2>3. Append(games[sub.game].slots, slot) \in Seq(GameSlot)
    BY <2>1, <2>2, AppendProperties
  <2>4. games' \in [GameIds -> Game]
    BY <1>9, <2>1, <2>3, GamesUpdateType DEF PushSlot, GameState
  <2>5. sub' \in Substitution
    BY <1>9 DEF PushSlot, Substitution
  <2> QED
    BY <1>9, <2>4, <2>5 DEF PushSlot, Substitution
<1>10. CASE MarkReplaced
  <2>1. sub.game \in GameIds
    BY <1>10 DEF MarkReplaced
  <2>2. games[sub.game].slots \in Seq(GameSlot)
    BY <2>1, GamesUpdateType, EmptySeq DEF GameState
  <2>3. games' \in [GameIds -> Game]
    BY <1>10, <2>1, <2>2, WithStatusType, GamesUpdateType
       DEF MarkReplaced, GameState, SlotStatus
  <2>4. ends' \in [GameIds -> 0..2]
    BY <1>10, <2>1, GameChangesType DEF MarkReplaced
  <2>5. sub' \in Substitution
    BY <1>10 DEF MarkReplaced, Substitution
  <2> QED
    BY <1>10, <2>3, <2>4, <2>5 DEF MarkReplaced, Substitution
<1>11. CASE AssignReplacement
  BY <1>11 DEF AssignReplacement, Substitution
<1>12. CASE ReleaseReplacee
  BY <1>12 DEF ReleaseReplacee, Substitution, NoSubstitution
<1> QED
  BY <1>1, <1>2, <1>3, <1>4, <1>5, <1>6, <1>7, <1>8, <1>9, <1>10, <1>11, <1>12

LEMMA RestartTInv == TInv /\ Restart => TInv'
BY DEF TInv, TypeOK, Reads, Restart, NoLaunch, Launch, NoSubstitution, Substitution,
   NoModelUpdate, ModelUpdate

\* Every step keeps the state well typed, and what was read at hand.
LEMMA NextTInv == TInv /\ [Next]_vars => TInv'
<1>1. TInv /\ UNCHANGED vars => TInv'
  BY DEF TInv, TypeOK, Reads, vars, dbVars
<1> QED
  BY <1>1, LaunchTInv, MatchTInv, SubstitutionTInv, RestartTInv DEF Next

\* Games and every operation on them stay well typed.
THEOREM TypeCorrect == Spec => []TypeOK
<1>1. TInv => TypeOK
  BY DEF TInv
<1> QED
  BY <1>1, InitTInv, NextTInv, PTL DEF Spec

-----------------------------------------------------------------------------
(* How a step changes the slots of a game *)

\* Slots are never dropped, and keep their players.
Kept(old, new) ==
  /\ DOMAIN old \subseteq DOMAIN new
  /\ \A i \in DOMAIN old : new[i].player = old[i].player

LEMMA KeptPlayers ==
  ASSUME NEW old, NEW new, Kept(old, new)
  PROVE  PlayersOf(old) \subseteq PlayersOf(new)
BY DEF Kept, PlayersOf

LEMMA GamesUpdate ==
  ASSUME games \in [GameIds -> Game], NEW g \in GameIds, NEW h \in GameIds,
         NEW sl, NEW st
  PROVE  /\ g # h => /\ [games EXCEPT ![h].slots = sl][g] = games[g]
                     /\ [games EXCEPT ![h].state = st][g] = games[g]
                     /\ [games EXCEPT ![h].state = st, ![h].slots = sl][g] = games[g]
         /\ [games EXCEPT ![g].slots = sl][g].slots = sl
         /\ [games EXCEPT ![g].slots = sl][g].state = games[g].state
         /\ [games EXCEPT ![g].state = st][g].state = st
         /\ [games EXCEPT ![g].state = st][g].slots = games[g].slots
         /\ [games EXCEPT ![g].state = st, ![g].slots = sl][g].state = st
         /\ [games EXCEPT ![g].state = st, ![g].slots = sl][g].slots = sl
<1>1. games[g] \in [state : GameState, slots : Seq(GameSlot)]
  BY DEF Game
<1> QED
  BY <1>1

\* The slots of a game are what they were, or they are created, settled, marked or
\* one is pushed; so is its state.
LEMMA GameStep ==
  ASSUME TInv, [Next]_vars, NEW g \in GameIds
  PROVE  \/ games'[g] = games[g]
         \/ CreateGame(g)
         \/ /\ MatchStarts(g)
            /\ games'[g].slots = games[g].slots
            /\ games'[g].state = "started"
         \/ /\ MatchEnds(g)
            /\ games'[g].slots = Settled(games[g].slots)
            /\ games'[g].state = "ended"
         \/ /\ ForceEnd(g)
            /\ games'[g].slots = Settled(games[g].slots)
            /\ games'[g].state = "interrupted"
         \/ /\ Substitute
            /\ sub.game = g
            /\ games'[g].state = games[g].state
            /\ games'[g].slots = WithStatus(games[g].slots, sub.replacee,
                                            "waiting for substitute")
         \/ /\ Cancel \/ TakeOwnSlot
            /\ sub.game = g
            /\ games'[g].state = games[g].state
            /\ games'[g].slots = WithStatus(games[g].slots, sub.replacee, "active")
         \/ /\ MarkReplaced
            /\ sub.game = g
            /\ games'[g].state = games[g].state
            /\ games'[g].slots = WithStatus(games[g].slots, sub.replacee, "replaced")
         \/ /\ PushSlot
            /\ sub.game = g
            /\ games'[g].state = games[g].state
            /\ games'[g].slots = Append(games[g].slots,
                 [player |-> sub.replacement, place |-> sub.place,
                  status |-> "active"])
<1> USE DEF TInv, TypeOK, Game, dbVars
<1>1. CASE UNCHANGED games
  BY <1>1
<1>2. ASSUME NEW h \in GameIds,
             \/ CreateGame(h) \/ MatchStarts(h) \/ MatchEnds(h) \/ ForceEnd(h)
      PROVE  \/ games'[g] = games[g]
             \/ CreateGame(g)
             \/ /\ MatchStarts(g)
                /\ games'[g].slots = games[g].slots
                /\ games'[g].state = "started"
             \/ /\ MatchEnds(g)
                /\ games'[g].slots = Settled(games[g].slots)
                /\ games'[g].state = "ended"
             \/ /\ ForceEnd(g)
                /\ games'[g].slots = Settled(games[g].slots)
                /\ games'[g].state = "interrupted"
  <2>1. CASE CreateGame(h)
    <3>1. g # h => games'[g] = games[g]
      BY <2>1 DEF CreateGame
    <3> QED
      BY <2>1, <3>1
  <2>2. CASE MatchStarts(h)
    <3>1. games' = [games EXCEPT ![h].state = "started"]
      BY <2>2 DEF MatchStarts
    <3>2. g # h => games'[g] = games[g]
      BY <3>1, GamesUpdate
    <3>3. g = h => games'[g].state = "started" /\ games'[g].slots = games[g].slots
      BY <3>1, GamesUpdate
    <3> QED
      BY <2>2, <3>2, <3>3
  <2>3. CASE MatchEnds(h)
    <3>1. games' = [games EXCEPT ![h].state = "ended",
                                 ![h].slots = Settled(games[h].slots)]
      BY <2>3 DEF MatchEnds
    <3> QED
      BY <2>3, <3>1, GamesUpdate
  <2>4. CASE ForceEnd(h)
    <3>1. games' = [games EXCEPT ![h].state = "interrupted",
                                 ![h].slots = Settled(games[h].slots)]
      BY <2>4 DEF ForceEnd
    <3> QED
      BY <2>4, <3>1, GamesUpdate
  <2> QED
    BY <1>2, <2>1, <2>2, <2>3, <2>4
<1>3. CASE Substitute
  <2> DEFINE new == WithStatus(games[g].slots, sub.replacee, "waiting for substitute")
  <2>1. sub.game \in GameIds
    BY <1>3 DEF Substitute, MarkSlots, Reads
  <2>2. sub.game = g => games' = [games EXCEPT ![g].slots = new]
    BY <1>3, <2>1 DEF Substitute, MarkSlots
  <2>3. sub.game # g => games'[g] = games[g]
    BY <1>3, <2>1 DEF Substitute, MarkSlots
  <2> HIDE DEF new
  <2>4. sub.game = g => games'[g].slots = new /\ games'[g].state = games[g].state
    BY <2>2, GamesUpdate
  <2> QED
    BY <1>3, <2>3, <2>4 DEF new
<1>4. CASE Cancel \/ TakeOwnSlot
  <2> DEFINE new == WithStatus(games[g].slots, sub.replacee, "active")
  <2>1. sub.game \in GameIds
    BY <1>4 DEF Cancel, TakeOwnSlot, MarkSlots, Reads
  <2>2. sub.game = g => games' = [games EXCEPT ![g].slots = new]
    BY <1>4, <2>1 DEF Cancel, TakeOwnSlot, MarkSlots
  <2>3. sub.game # g => games'[g] = games[g]
    BY <1>4, <2>1 DEF Cancel, TakeOwnSlot, MarkSlots
  <2> HIDE DEF new
  <2>4. sub.game = g => games'[g].slots = new /\ games'[g].state = games[g].state
    BY <2>2, GamesUpdate
  <2> QED
    BY <1>4, <2>3, <2>4 DEF new
<1>5. CASE MarkReplaced
  <2> DEFINE new == WithStatus(games[g].slots, sub.replacee, "replaced")
  <2>1. sub.game \in GameIds
    BY <1>5 DEF MarkReplaced, Reads
  <2>2. sub.game = g => games' = [games EXCEPT ![g].slots = new]
    BY <1>5, <2>1 DEF MarkReplaced
  <2>3. sub.game # g => games'[g] = games[g]
    BY <1>5, <2>1 DEF MarkReplaced
  <2> HIDE DEF new
  <2>4. sub.game = g => games'[g].slots = new /\ games'[g].state = games[g].state
    BY <2>2, GamesUpdate
  <2> QED
    BY <1>5, <2>3, <2>4 DEF new
<1>6. CASE PushSlot
  <2> DEFINE new == Append(games[g].slots, [player |-> sub.replacement, place |-> sub.place,
                                          status |-> "active"])
  <2>1. sub.game \in GameIds
    BY <1>6 DEF PushSlot, Reads
  <2>2. sub.game = g => games' = [games EXCEPT ![g].slots = new]
    BY <1>6, <2>1 DEF PushSlot
  <2>3. sub.game # g => games'[g] = games[g]
    BY <1>6, <2>1 DEF PushSlot
  <2> HIDE DEF new
  <2>4. sub.game = g => games'[g].slots = new /\ games'[g].state = games[g].state
    BY <2>2, GamesUpdate
  <2> QED
    BY <1>6, <2>3, <2>4 DEF new
<1>7. CASE UNCHANGED vars
  BY <1>1, <1>7 DEF vars
<1>8. CASE \/ \E p \in Players : JoinQueue(p) \/ LeaveQueue(p) \/ AssignGame(p)
           \/ BeginLaunch \/ ResetQueue
           \/ FreeAllMedics \/ MedicsAreFree \/ EndUpdate
           \/ \E u \in unsets : UnsetActiveGame(u)
           \/ NothingToReplace \/ ReplaceOwn \/ ReplaceOther
           \/ AssignReplacement \/ ReleaseReplacee \/ Restart
  BY <1>1, <1>8 DEF JoinQueue, LeaveQueue, AssignGame, BeginLaunch, ResetQueue,
     FreeAllMedics, MedicsAreFree, EndUpdate, UnsetActiveGame, NothingToReplace,
     ReplaceOwn, ReplaceOther, AssignReplacement, ReleaseReplacee, Restart
<1>9. CASE \E h \in GameIds :
             \/ FreeAllPlayers(h) \/ BeginUpdate(h) \/ BeginForceEnd(h)
             \/ \E p \in Players : BeginSubstitute(h, p) \/ BeginCancel(h, p)
             \/ \E x, y \in Players : BeginReplace(h, x, y)
  BY <1>1, <1>9 DEF FreeAllPlayers, BeginUpdate, BeginForceEnd, BeginSubstitute,
     BeginCancel, BeginReplace
<1> QED
  BY <1>2, <1>3, <1>4, <1>5, <1>6, <1>7, <1>8, <1>9 DEF Next

\* No step drops a slot, or gives it to somebody else.
LEMMA SlotsKept ==
  ASSUME TInv, [Next]_vars, NEW g \in GameIds
  PROVE  Kept(games[g].slots, games'[g].slots)
<1> DEFINE sl == games[g].slots
<1>1. sl \in Seq(GameSlot)
  BY DEF TInv, TypeOK, Game
<1>2. CASE games'[g].slots = sl
  BY <1>2 DEF Kept
<1>3. CASE CreateGame(g)
  <2>1. sl = <<>>
    BY <1>3 DEF CreateGame, NotCreated
  <2> QED
    BY <2>1, EmptySeq DEF Kept
<1>4. CASE games'[g].slots = Settled(sl)
  BY <1>1, <1>4, SettledType DEF Kept
<1>5. ASSUME NEW status \in SlotStatus, games'[g].slots = WithStatus(sl, sub.replacee, status)
      PROVE  Kept(games[g].slots, games'[g].slots)
  BY <1>1, <1>5, WithStatusType DEF Kept
<1>6. ASSUME PushSlot, sub.game = g,
             games'[g].slots = Append(sl,
               [player |-> sub.replacement, place |-> sub.place, status |-> "active"])
      PROVE  Kept(games[g].slots, games'[g].slots)
  <2>1. [player |-> sub.replacement, place |-> sub.place, status |-> "active"] \in GameSlot
    BY <1>6 DEF PushSlot, TInv, Reads, GameSlot, SlotStatus
  <2> QED
    BY <1>1, <1>6, <2>1, AppendProperties, LenProperties DEF Kept
<1> QED
  BY <1>2, <1>3, <1>4, <1>5, <1>6, GameStep DEF SlotStatus

-----------------------------------------------------------------------------
(* A game that is over stays over *)

LEMMA OverStaysOver ==
  ASSUME TInv, [Next]_vars, NEW g \in GameIds, Over(g)
  PROVE  Over(g)'
<1>1. games[g].state \in {"ended", "interrupted"}
  BY DEF Over
<1>a. ~ CreateGame(g)
  BY <1>1 DEF CreateGame, NotCreated
<1>b. ~ MatchStarts(g)
  BY <1>1 DEF MatchStarts
<1>c. ~ MatchEnds(g)
  BY <1>1 DEF MatchEnds
<1>2. games'[g].state \in {games[g].state, "interrupted"}
  BY <1>a, <1>b, <1>c, GameStep
<1> QED
  BY <1>2 DEF Over

\* Nothing brings a game back: not onMatchStarted() or onMatchEnded(), whose writes
\* match the state, not forceEnd(), which does not look at it.
THEOREM GameOverStays == Spec => GameOverIsFinal
<1>1. TInv /\ [Next]_vars => [\A g \in GameIds : Over(g) => Over(g)']_vars
  BY OverStaysOver
<1> QED
  BY <1>1, InitTInv, NextTInv, PTL DEF Spec, GameOverIsFinal

-----------------------------------------------------------------------------
(* The end of a game is announced *)

\* forceEnd() reads a game that is over only when its end has been announced.
EndInv ==
  /\ EndIsAnnounced
  /\ \A g \in GameIds : forcing[g] = "over" => Over(g)

LEMMA EndsGrow ==
  ASSUME TInv, [Next]_vars, NEW g \in GameIds
  PROVE  ends'[g] >= ends[g]
<1> USE DEF TInv, TypeOK, Reads
<1>0. ends[g] \in 0..2
  OBVIOUS
<1>1. CASE UNCHANGED ends
  BY <1>0, <1>1
<1>2. ASSUME NEW h \in GameIds, NEW live, GameChanges(h, live)
      PROVE  ends'[g] >= ends[g]
  BY <1>2, GameChangesType
<1>3. ASSUME NEW h \in GameIds, MatchEnds(h) PROVE ends'[g] >= ends[g]
  BY <1>3, <1>2 DEF MatchEnds
<1>4. ASSUME NEW h \in GameIds, ForceEnd(h) PROVE ends'[g] >= ends[g]
  BY <1>4, <1>2 DEF ForceEnd
<1>5. CASE EndUpdate
  BY <1>5, <1>2 DEF EndUpdate
<1>6. CASE Substitute \/ Cancel \/ TakeOwnSlot
  BY <1>6, <1>2 DEF Substitute, Cancel, TakeOwnSlot, MarkSlots
<1>7. CASE MarkReplaced
  BY <1>7, <1>2 DEF MarkReplaced
<1>8. CASE UNCHANGED vars
  BY <1>1, <1>8 DEF vars
<1>9. CASE \/ \E p \in Players : JoinQueue(p) \/ LeaveQueue(p) \/ AssignGame(p)
           \/ BeginLaunch \/ ResetQueue \/ FreeAllMedics \/ MedicsAreFree
           \/ \E u \in unsets : UnsetActiveGame(u)
           \/ NothingToReplace \/ ReplaceOwn \/ ReplaceOther \/ PushSlot
           \/ AssignReplacement \/ ReleaseReplacee \/ Restart
  BY <1>1, <1>9 DEF JoinQueue, LeaveQueue, AssignGame, BeginLaunch, ResetQueue,
     FreeAllMedics, MedicsAreFree, UnsetActiveGame, NothingToReplace, ReplaceOwn,
     ReplaceOther, PushSlot, AssignReplacement, ReleaseReplacee, Restart
<1>10. CASE \E h \in GameIds :
             \/ CreateGame(h) \/ MatchStarts(h) \/ FreeAllPlayers(h) \/ BeginUpdate(h)
             \/ BeginForceEnd(h)
             \/ \E p \in Players : BeginSubstitute(h, p) \/ BeginCancel(h, p)
             \/ \E x, y \in Players : BeginReplace(h, x, y)
  BY <1>1, <1>10 DEF CreateGame, MatchStarts, FreeAllPlayers, BeginUpdate,
     BeginForceEnd, BeginSubstitute, BeginCancel, BeginReplace
<1> QED
  BY <1>3, <1>4, <1>5, <1>6, <1>7, <1>8, <1>9, <1>10 DEF Next

\* A forceEnd() that has read a game turns "over" only when it is.
LEMMA ForcingStep ==
  ASSUME TInv, [Next]_vars, NEW g \in GameIds
  PROVE  forcing'[g] = "over" => forcing[g] = "over" \/ Over(g)
<1> USE DEF TInv, TypeOK
<1>1. CASE UNCHANGED forcing
  BY <1>1
<1>2. ASSUME NEW h \in GameIds, BeginForceEnd(h)
      PROVE  forcing'[g] = "over" => forcing[g] = "over" \/ Over(g)
  BY <1>2 DEF BeginForceEnd, InProgress, Over, Game, GameState
<1>3. ASSUME NEW h \in GameIds, ForceEnd(h)
      PROVE  forcing'[g] = "over" => forcing[g] = "over" \/ Over(g)
  BY <1>3 DEF ForceEnd
<1>4. CASE Restart
  BY <1>4 DEF Restart
<1>5. CASE UNCHANGED vars
  BY <1>1, <1>5 DEF vars
<1>6. CASE \/ \E p \in Players : JoinQueue(p) \/ LeaveQueue(p) \/ AssignGame(p)
           \/ BeginLaunch \/ ResetQueue \/ FreeAllMedics \/ MedicsAreFree \/ EndUpdate
           \/ \E u \in unsets : UnsetActiveGame(u)
           \/ NothingToReplace \/ ReplaceOwn \/ ReplaceOther
           \/ Substitute \/ Cancel \/ TakeOwnSlot
           \/ PushSlot \/ MarkReplaced \/ AssignReplacement \/ ReleaseReplacee
  BY <1>1, <1>6 DEF JoinQueue, LeaveQueue, AssignGame, BeginLaunch, ResetQueue,
     FreeAllMedics, MedicsAreFree, EndUpdate, UnsetActiveGame, NothingToReplace,
     ReplaceOwn, ReplaceOther, Substitute, Cancel, TakeOwnSlot, MarkSlots, PushSlot,
     MarkReplaced, AssignReplacement, ReleaseReplacee
<1>7. CASE \E h \in GameIds :
             \/ CreateGame(h) \/ MatchStarts(h) \/ MatchEnds(h) \/ FreeAllPlayers(h)
             \/ BeginUpdate(h)
             \/ \E p \in Players : BeginSubstitute(h, p) \/ BeginCancel(h, p)
             \/ \E x, y \in Players : BeginReplace(h, x, y)
  BY <1>1, <1>7 DEF CreateGame, MatchStarts, MatchEnds, FreeAllPlayers, BeginUpdate,
     BeginSubstitute, BeginCancel, BeginReplace
<1> QED
  BY <1>2, <1>3, <1>4, <1>5, <1>6, <1>7 DEF Next

LEMMA InitEndInv == Init => EndInv
BY DEF Init, EndInv, EndIsAnnounced, Over, NotCreated

LEMMA NextEndInv == TInv /\ EndInv /\ [Next]_vars => EndInv'
<1> SUFFICES ASSUME TInv, EndInv, [Next]_vars PROVE EndInv'
  OBVIOUS
<1>1. ASSUME NEW g \in GameIds, forcing'[g] = "over" PROVE Over(g)'
  BY <1>1, ForcingStep, OverStaysOver DEF EndInv
<1>2. ASSUME NEW g \in GameIds, Over(g)' PROVE ends'[g] > 0
  <2>1. ends[g] \in 0..2 /\ ends'[g] \in 0..2 /\ ends'[g] >= ends[g]
    BY EndsGrow, NextTInv DEF TInv, TypeOK
  <2>2. CASE Over(g)
    BY <2>1, <2>2 DEF EndInv, EndIsAnnounced
  <2>3. CASE ~ Over(g)
    <3>1. MatchEnds(g) \/ ForceEnd(g)
      <4>1. CASE CreateGame(g)
        BY <1>2, <4>1 DEF CreateGame, Over, TInv, TypeOK
      <4>2. games'[g].state # games[g].state
        BY <1>2, <2>3 DEF Over
      <4>3. games'[g].state # "started"
        BY <1>2 DEF Over
      <4> QED
        BY <4>1, <4>2, <4>3, GameStep
    <3>2. CASE MatchEnds(g)
      BY <1>2, <3>2 DEF MatchEnds, GameChanges, Over, TInv, TypeOK
    <3>3. CASE ForceEnd(g)
      BY <1>2, <2>3, <3>3 DEF ForceEnd, GameChanges, Over, EndInv, TInv, TypeOK
    <3> QED
      BY <3>1, <3>2, <3>3
  <2> QED
    BY <2>2, <2>3
<1> QED
  BY <1>1, <1>2 DEF EndInv, EndIsAnnounced

\* Whoever ends a game announces it: the copy that onMatchEnded() or forceEnd()
\* compares with shows the game in progress, or the end was announced before.
THEOREM EndsAreAnnounced == Spec => []EndIsAnnounced
<1>1. EndInv => EndIsAnnounced
  BY DEF EndInv
<1> QED
  BY <1>1, InitTInv, NextTInv, InitEndInv, NextEndInv, PTL DEF Spec

-----------------------------------------------------------------------------
(* activeGame is a game of the player *)

\* What is going to be assigned is a game the player has a slot in.
OwnInv ==
  /\ AssignedToOwnGame
  /\ launch.step = "assign" =>
       launch.pending \subseteq PlayersOf(games[launch.game].slots)
  /\ sub.step \in {"mark", "assign"} =>
       sub.replacement \in PlayersOf(games[sub.game].slots)

\* activeGame is kept, unset, or assigned by create() or replacePlayer().
LEMMA ActiveGameStep ==
  ASSUME TInv, [Next]_vars, NEW p \in Players
  PROVE  \/ activeGame'[p] = activeGame[p]
         \/ activeGame'[p] = NoGame
         \/ /\ launch.step = "assign"
            /\ p \in launch.pending
            /\ activeGame'[p] = launch.game
         \/ /\ sub.step = "assign"
            /\ p = sub.replacement
            /\ activeGame'[p] = sub.game
<1> USE DEF TInv, TypeOK, dbVars
<1>1. CASE UNCHANGED activeGame
  BY <1>1
<1>2. ASSUME NEW q \in Players, AssignGame(q)
      PROVE  \/ activeGame'[p] = activeGame[p]
             \/ /\ launch.step = "assign"
                /\ p \in launch.pending
                /\ activeGame'[p] = launch.game
  BY <1>2 DEF AssignGame
<1>3. CASE AssignReplacement
  BY <1>3 DEF AssignReplacement
<1>4. CASE ReleaseReplacee
  BY <1>4 DEF ReleaseReplacee
<1>5. ASSUME NEW u \in unsets, UnsetActiveGame(u)
      PROVE  activeGame'[p] \in {activeGame[p], NoGame}
  BY <1>5 DEF UnsetActiveGame
<1>6. CASE Restart
  BY <1>6 DEF Restart
<1>7. CASE UNCHANGED vars
  BY <1>1, <1>7 DEF vars
<1>8. CASE \/ \E q \in Players : JoinQueue(q) \/ LeaveQueue(q)
           \/ BeginLaunch \/ ResetQueue \/ FreeAllMedics \/ MedicsAreFree \/ EndUpdate
           \/ NothingToReplace \/ ReplaceOwn \/ ReplaceOther
           \/ Substitute \/ Cancel \/ TakeOwnSlot \/ PushSlot \/ MarkReplaced
  BY <1>1, <1>8 DEF JoinQueue, LeaveQueue, BeginLaunch, ResetQueue, FreeAllMedics,
     MedicsAreFree, EndUpdate, NothingToReplace, ReplaceOwn, ReplaceOther, Substitute,
     Cancel, TakeOwnSlot, MarkSlots, PushSlot, MarkReplaced
<1>9. CASE \E h \in GameIds :
             \/ CreateGame(h) \/ MatchStarts(h) \/ MatchEnds(h) \/ FreeAllPlayers(h)
             \/ BeginUpdate(h) \/ BeginForceEnd(h) \/ ForceEnd(h)
             \/ \E q \in Players : BeginSubstitute(h, q) \/ BeginCancel(h, q)
             \/ \E x, y \in Players : BeginReplace(h, x, y)
  BY <1>1, <1>9 DEF CreateGame, MatchStarts, MatchEnds, FreeAllPlayers, BeginUpdate,
     BeginForceEnd, ForceEnd, BeginSubstitute, BeginCancel, BeginReplace
<1> QED
  BY <1>2, <1>3, <1>4, <1>5, <1>6, <1>7, <1>8, <1>9 DEF Next

\* create() assigns the players it has stored slots for.
LEMMA CreatedSlots ==
  ASSUME TInv, NEW g \in GameIds, CreateGame(g)
  PROVE  launch'.game = g /\ launch'.pending \subseteq PlayersOf(games'[g].slots)
<1>1. PICK player \in [1..Size -> queue] :
        /\ \A p \in queue : \E i \in 1..Size : player[i] = p
        /\ games' = [games EXCEPT ![g] =
             [state |-> "launching",
              slots |-> [i \in 1..Size |->
                [player |-> player[i], place |-> i, status |-> "active"]]]]
  BY DEF CreateGame
<1> DEFINE sl == [i \in 1..Size |->
                   [player |-> player[i], place |-> i, status |-> "active"]]
<1>2. games'[g].slots = sl
  BY <1>1 DEF TInv, TypeOK
<1>3. queue \subseteq PlayersOf(sl)
  BY <1>1 DEF PlayersOf
<1> QED
  BY <1>2, <1>3 DEF CreateGame

\* A launch that is assigning was already, or has just created the game.
LEMMA LaunchStep ==
  ASSUME TInv, [Next]_vars, launch'.step = "assign"
  PROVE  \/ /\ launch.step = "assign"
            /\ launch'.game = launch.game
            /\ launch'.pending \subseteq launch.pending
         \/ \E g \in GameIds : CreateGame(g)
<1> USE DEF TInv, TypeOK, Launch
<1>1. CASE UNCHANGED launch
  BY <1>1
<1>2. CASE \E p \in Players : AssignGame(p)
  BY <1>2 DEF AssignGame
<1>3. CASE BeginLaunch \/ ResetQueue \/ Restart
  BY <1>3 DEF BeginLaunch, ResetQueue, Restart, NoLaunch
<1>4. CASE UNCHANGED vars
  BY <1>1, <1>4 DEF vars
<1>5. CASE \/ \E q \in Players : JoinQueue(q) \/ LeaveQueue(q)
           \/ FreeAllMedics \/ MedicsAreFree \/ EndUpdate
           \/ \E u \in unsets : UnsetActiveGame(u)
           \/ NothingToReplace \/ ReplaceOwn \/ ReplaceOther
           \/ Substitute \/ Cancel \/ TakeOwnSlot \/ PushSlot \/ MarkReplaced
           \/ AssignReplacement \/ ReleaseReplacee
  BY <1>1, <1>5 DEF JoinQueue, LeaveQueue, FreeAllMedics, MedicsAreFree, EndUpdate,
     UnsetActiveGame, NothingToReplace, ReplaceOwn, ReplaceOther, Substitute, Cancel,
     TakeOwnSlot, MarkSlots, PushSlot, MarkReplaced, AssignReplacement, ReleaseReplacee
<1>6. CASE \E h \in GameIds :
             \/ MatchStarts(h) \/ MatchEnds(h) \/ FreeAllPlayers(h)
             \/ BeginUpdate(h) \/ BeginForceEnd(h) \/ ForceEnd(h)
             \/ \E q \in Players : BeginSubstitute(h, q) \/ BeginCancel(h, q)
             \/ \E x, y \in Players : BeginReplace(h, x, y)
  BY <1>1, <1>6 DEF MatchStarts, MatchEnds, FreeAllPlayers, BeginUpdate,
     BeginForceEnd, ForceEnd, BeginSubstitute, BeginCancel, BeginReplace
<1> QED
  BY <1>2, <1>3, <1>4, <1>5, <1>6 DEF Next

\* A replacement that is past the push was before, or its slot is pushed now.
LEMMA SubStep ==
  ASSUME TInv, [Next]_vars, sub'.step \in {"mark", "assign"}
  PROVE  \/ /\ sub.step \in {"mark", "assign"}
            /\ sub'.game = sub.game
            /\ sub'.replacement = sub.replacement
         \/ PushSlot
<1> USE DEF TInv, TypeOK, Substitution
<1>1. CASE UNCHANGED sub
  BY <1>1
<1>2. CASE MarkReplaced
  BY <1>2 DEF MarkReplaced
<1>3. CASE \/ NothingToReplace \/ ReplaceOwn \/ ReplaceOther
           \/ Substitute \/ Cancel \/ TakeOwnSlot
           \/ AssignReplacement \/ ReleaseReplacee \/ Restart
  <2>1. CASE NothingToReplace \/ ReleaseReplacee \/ Restart
    BY <2>1 DEF NothingToReplace, ReleaseReplacee, Restart, NoSubstitution
  <2>2. CASE ReplaceOwn
    BY <2>2 DEF ReplaceOwn
  <2>3. CASE ReplaceOther
    <3>1. PICK i \in WaitingSlots(sub.game, sub.replacee) :
            sub' = [sub EXCEPT !.step = "push", !.live = InProgress(sub.game),
                               !.place = games[sub.game].slots[i].place]
      BY <2>3 DEF ReplaceOther
    <3>2. sub'.step = "push"
      BY <3>1
    <3> QED
      BY <3>2
  <2>4. CASE Substitute \/ Cancel \/ TakeOwnSlot
    <3>1. sub' = NoSubstitution
      BY <2>4 DEF Substitute, Cancel, TakeOwnSlot, MarkSlots
    <3> QED
      BY <3>1 DEF NoSubstitution
  <2>5. CASE AssignReplacement
    BY <2>5 DEF AssignReplacement
  <2> QED
    BY <1>3, <2>1, <2>2, <2>3, <2>4, <2>5
<1>4. CASE \E h \in GameIds :
             \/ \E q \in Players : BeginSubstitute(h, q) \/ BeginCancel(h, q)
             \/ \E x, y \in Players : BeginReplace(h, x, y)
  <2>1. ASSUME NEW h \in GameIds, NEW x \in Players, NEW y \in Players,
               BeginReplace(h, x, y)
        PROVE  sub'.step = "getGame"
    BY <2>1 DEF BeginReplace, NoSubstitution
  <2>2. ASSUME NEW h \in GameIds, NEW q \in Players, BeginSubstitute(h, q)
        PROVE  sub'.step = "substitute"
    BY <2>2 DEF BeginSubstitute, NoSubstitution
  <2>3. ASSUME NEW h \in GameIds, NEW q \in Players, BeginCancel(h, q)
        PROVE  sub'.step = "cancel"
    BY <2>3 DEF BeginCancel, NoSubstitution
  <2> QED
    BY <1>4, <2>1, <2>2, <2>3
<1>5. CASE UNCHANGED vars
  BY <1>1, <1>5 DEF vars
<1>6. CASE \/ \E q \in Players : JoinQueue(q) \/ LeaveQueue(q) \/ AssignGame(q)
           \/ BeginLaunch \/ ResetQueue
           \/ FreeAllMedics \/ MedicsAreFree \/ EndUpdate
           \/ \E u \in unsets : UnsetActiveGame(u)
  BY <1>1, <1>6 DEF JoinQueue, LeaveQueue, AssignGame, BeginLaunch, ResetQueue,
     FreeAllMedics, MedicsAreFree, EndUpdate, UnsetActiveGame
<1>7. CASE \E h \in GameIds :
             \/ CreateGame(h) \/ MatchStarts(h) \/ MatchEnds(h) \/ FreeAllPlayers(h)
             \/ BeginUpdate(h) \/ BeginForceEnd(h) \/ ForceEnd(h)
  BY <1>1, <1>7 DEF CreateGame, MatchStarts, MatchEnds, FreeAllPlayers, BeginUpdate,
     BeginForceEnd, ForceEnd
<1> QED
  BY <1>2, <1>3, <1>4, <1>5, <1>6, <1>7 DEF Next

LEMMA InitOwnInv == Init => OwnInv
BY DEF Init, OwnInv, AssignedToOwnGame, NoLaunch, NoSubstitution

LEMMA NextOwnInv == TInv /\ OwnInv /\ [Next]_vars => OwnInv'
<1> SUFFICES ASSUME TInv, OwnInv, [Next]_vars PROVE OwnInv'
  OBVIOUS
<1> USE DEF OwnInv
<1>1. ASSUME NEW g \in GameIds
      PROVE  PlayersOf(games[g].slots) \subseteq PlayersOf(games'[g].slots)
  BY SlotsKept, KeptPlayers
<1>2. ASSUME NEW p \in Players, activeGame'[p] # NoGame
      PROVE  p \in PlayersOf(games'[activeGame'[p]].slots)
  <2>1. CASE activeGame'[p] = activeGame[p]
    <3>1. activeGame[p] \in GameIds
      BY <1>2, <2>1 DEF TInv, TypeOK
    <3> QED
      BY <1>1, <1>2, <2>1, <3>1 DEF AssignedToOwnGame
  <2>2. CASE launch.step = "assign" /\ p \in launch.pending /\ activeGame'[p] = launch.game
    BY <1>1, <2>2 DEF TInv, Reads
  <2>3. CASE sub.step = "assign" /\ p = sub.replacement /\ activeGame'[p] = sub.game
    BY <1>1, <2>3 DEF TInv, Reads
  <2> QED
    BY <1>2, <2>1, <2>2, <2>3, ActiveGameStep
<1>3. ASSUME launch'.step = "assign"
      PROVE  launch'.pending \subseteq PlayersOf(games'[launch'.game].slots)
  <2>1. CASE /\ launch.step = "assign"
             /\ launch'.game = launch.game
             /\ launch'.pending \subseteq launch.pending
    <3>1. launch.game \in GameIds
      BY <2>1 DEF TInv, Reads
    <3> QED
      BY <1>1, <2>1, <3>1
  <2>2. ASSUME NEW g \in GameIds, CreateGame(g)
        PROVE  launch'.pending \subseteq PlayersOf(games'[launch'.game].slots)
    BY <2>2, CreatedSlots
  <2> QED
    BY <1>3, <2>1, <2>2, LaunchStep
<1>4. ASSUME sub'.step \in {"mark", "assign"}
      PROVE  sub'.replacement \in PlayersOf(games'[sub'.game].slots)
  <2>1. CASE /\ sub.step \in {"mark", "assign"}
             /\ sub'.game = sub.game
             /\ sub'.replacement = sub.replacement
    <3>1. sub.game \in GameIds
      BY <2>1 DEF TInv, Reads
    <3> QED
      BY <1>1, <2>1, <3>1
  <2>2. CASE PushSlot
    <3> DEFINE sl == games[sub.game].slots
               slot == [player |-> sub.replacement, place |-> sub.place,
                        status |-> "active"]
    <3>1. /\ sub.game \in GameIds
          /\ slot \in GameSlot
          /\ sl \in Seq(GameSlot)
      BY <2>2 DEF PushSlot, TInv, TypeOK, Reads, Game, GameSlot, SlotStatus
    <3>2. games'[sub.game].slots = Append(sl, slot)
      BY <2>2, <3>1 DEF PushSlot, TInv, TypeOK, Game
    <3>3. /\ Len(sl) + 1 \in DOMAIN Append(sl, slot)
          /\ Append(sl, slot)[Len(sl) + 1] = slot
      BY <3>1, AppendProperties, LenProperties
    <3>4. sub.replacement \in PlayersOf(Append(sl, slot))
      BY <3>3 DEF PlayersOf
    <3>5. sub'.game = sub.game /\ sub'.replacement = sub.replacement
      BY <2>2 DEF PushSlot, TInv, TypeOK, Substitution
    <3> QED
      BY <3>2, <3>4, <3>5
  <2> QED
    BY <1>4, <2>1, <2>2, SubStep
<1> QED
  BY <1>2, <1>3, <1>4 DEF AssignedToOwnGame

\* create() and replacePlayer() assign a game only to players who have a slot in it by
\* then, and no later write takes the slot away.
THEOREM AssignmentsAreOwn == Spec => []AssignedToOwnGame
<1>1. OwnInv => AssignedToOwnGame
  BY DEF OwnInv
<1> QED
  BY <1>1, InitTInv, NextTInv, InitOwnInv, NextOwnInv, PTL DEF Spec

-----------------------------------------------------------------------------
(* A replaced slot stays replaced *)

NoneReplaced(sl, p) ==
  \A i \in DOMAIN sl : sl[i].player = p => sl[i].status # "replaced"

\* A player's replaced slots come first, and he has none while he waits.
Ordered(sl) ==
  \A i, j \in DOMAIN sl :
    sl[i].player = sl[j].player /\ sl[j].status = "replaced" =>
      /\ i < j => sl[i].status = "replaced"
      /\ sl[i].status # "waiting for substitute"

ReplacedKept(old, new) ==
  \A i \in DOMAIN old :
    old[i].status = "replaced" => i \in DOMAIN new /\ new[i].status = "replaced"

\* findPlayerSlot() returns the first slot, so an operation that marks a player's slots
\* active or waiting has seen that none of them is replaced.
ReplacedInv ==
  /\ \A g \in GameIds : Ordered(games[g].slots)
  /\ sub.step \in {"substitute", "cancel", "takeOwn"} =>
       NoneReplaced(games[sub.game].slots, sub.replacee)

\* The slots after an update of the status.
LEMMA WithStatusFields ==
  ASSUME NEW sl \in Seq(GameSlot), NEW p, NEW status \in SlotStatus, NEW i \in DOMAIN sl
  PROVE  /\ WithStatus(sl, p, status)[i].player = sl[i].player
         /\ sl[i].player = p => WithStatus(sl, p, status)[i].status = status
         /\ sl[i].player # p => WithStatus(sl, p, status)[i].status = sl[i].status
<1>1. sl[i] \in GameSlot
  BY PlayersOfType
<1> QED
  BY <1>1 DEF WithStatus, GameSlot

LEMMA SettledFields ==
  ASSUME NEW sl \in Seq(GameSlot), NEW i \in DOMAIN sl
  PROVE  /\ Settled(sl)[i].player = sl[i].player
         /\ Settled(sl)[i].status = "replaced" <=> sl[i].status = "replaced"
         /\ Settled(sl)[i].status # "waiting for substitute"
<1>1. sl[i] \in GameSlot
  BY PlayersOfType
<1> QED
  BY <1>1 DEF Settled, GameSlot

LEMMA MarkedReplaced ==
  ASSUME NEW sl \in Seq(GameSlot), NEW p, Ordered(sl)
  PROVE  /\ Ordered(WithStatus(sl, p, "replaced"))
         /\ ReplacedKept(sl, WithStatus(sl, p, "replaced"))
<1> DEFINE new == WithStatus(sl, p, "replaced")
<1>0. "replaced" \in SlotStatus
  BY DEF SlotStatus
<1>1. DOMAIN new = DOMAIN sl
  BY <1>0, WithStatusType
<1>2. ASSUME NEW i \in DOMAIN sl
      PROVE  /\ new[i].player = sl[i].player
             /\ sl[i].player = p => new[i].status = "replaced"
             /\ sl[i].player # p => new[i].status = sl[i].status
  BY <1>0, WithStatusFields
<1> HIDE DEF new
<1>3. Ordered(new)
  BY <1>1, <1>2 DEF Ordered
<1>4. ReplacedKept(sl, new)
  BY <1>1, <1>2 DEF ReplacedKept
<1> QED
  BY <1>3, <1>4 DEF new

LEMMA MarkedOther ==
  ASSUME NEW sl \in Seq(GameSlot), NEW p, Ordered(sl), NoneReplaced(sl, p),
         NEW status \in SlotStatus, status # "replaced"
  PROVE  /\ Ordered(WithStatus(sl, p, status))
         /\ ReplacedKept(sl, WithStatus(sl, p, status))
<1> DEFINE new == WithStatus(sl, p, status)
<1>1. DOMAIN new = DOMAIN sl
  BY WithStatusType
<1>2. ASSUME NEW i \in DOMAIN sl
      PROVE  /\ new[i].player = sl[i].player
             /\ sl[i].player = p => new[i].status = status
             /\ sl[i].player # p => new[i].status = sl[i].status
  BY WithStatusFields
<1> HIDE DEF new
<1>3. Ordered(new)
  <2> SUFFICES ASSUME NEW i \in DOMAIN sl, NEW j \in DOMAIN sl,
                      new[i].player = new[j].player, new[j].status = "replaced"
               PROVE  /\ i < j => new[i].status = "replaced"
                      /\ new[i].status # "waiting for substitute"
    BY <1>1 DEF Ordered
  <2>1. sl[j].player # p
    BY <1>2
  <2>2. sl[i].player = sl[j].player /\ sl[j].status = "replaced"
    BY <1>2, <2>1
  <2>3. new[i].status = sl[i].status
    BY <1>2, <2>1, <2>2
  <2> QED
    BY <2>2, <2>3 DEF Ordered
<1>4. ReplacedKept(sl, new)
  BY <1>1, <1>2 DEF ReplacedKept, NoneReplaced
<1> QED
  BY <1>3, <1>4 DEF new

LEMMA SettledReplaced ==
  ASSUME NEW sl \in Seq(GameSlot), Ordered(sl)
  PROVE  /\ Ordered(Settled(sl))
         /\ ReplacedKept(sl, Settled(sl))
         /\ \A p : NoneReplaced(sl, p) => NoneReplaced(Settled(sl), p)
<1> DEFINE new == Settled(sl)
<1>1. DOMAIN new = DOMAIN sl
  BY SettledType
<1>2. ASSUME NEW i \in DOMAIN sl
      PROVE  /\ new[i].player = sl[i].player
             /\ new[i].status = "replaced" <=> sl[i].status = "replaced"
             /\ new[i].status # "waiting for substitute"
  BY SettledFields
<1> HIDE DEF new
<1>3. Ordered(new)
  BY <1>1, <1>2 DEF Ordered
<1>4. ReplacedKept(sl, new)
  BY <1>1, <1>2 DEF ReplacedKept
<1>5. \A p : NoneReplaced(sl, p) => NoneReplaced(new, p)
  BY <1>1, <1>2 DEF NoneReplaced
<1> QED
  BY <1>3, <1>4, <1>5 DEF new

LEMMA PushedReplaced ==
  ASSUME NEW sl \in Seq(GameSlot), NEW slot \in GameSlot, slot.status = "active", Ordered(sl)
  PROVE  /\ Ordered(Append(sl, slot))
         /\ ReplacedKept(sl, Append(sl, slot))
<1> DEFINE new == Append(sl, slot)
           n == Len(sl)
<1>1. DOMAIN sl = 1..n /\ n \in Nat
  BY LenProperties
<1>2. DOMAIN new = 1..(n + 1) /\ new[n + 1] = slot
  BY AppendProperties, LenProperties
<1>3. \A i \in 1..n : new[i] = sl[i]
  BY AppendProperties
<1> HIDE DEF new, n
<1>5. Ordered(new)
  <2> SUFFICES ASSUME NEW i \in 1..(n + 1), NEW j \in 1..(n + 1),
                        new[i].player = new[j].player, new[j].status = "replaced"
                 PROVE  /\ i < j => new[i].status = "replaced"
                        /\ new[i].status # "waiting for substitute"
    BY <1>2 DEF Ordered
  <2>2. j \in 1..n
    BY <1>1, <1>2
  <2>3. CASE i = n + 1
    <3>1. ~ (i < j)
      BY <1>1, <2>2, <2>3
    <3>2. new[i].status = "active"
      BY <1>2, <2>3
    <3> QED
      BY <3>1, <3>2
  <2>4. CASE i \in 1..n
    BY <1>1, <1>3, <2>2, <2>4 DEF Ordered
  <2>5. i = n + 1 \/ i \in 1..n
    BY <1>1
  <2> QED
    BY <2>3, <2>4, <2>5
<1>6. ReplacedKept(sl, new)
  BY <1>1, <1>2, <1>3 DEF ReplacedKept
<1> QED
  BY <1>5, <1>6 DEF new

\* What a pending request has seen: a slot of the player that is active or waits.
LEMMA RequestStep ==
  ASSUME TInv, ReplacedInv, [Next]_vars, sub'.step \in {"substitute", "cancel", "takeOwn"}
  PROVE  \/ sub' = sub
         \/ /\ UNCHANGED games
            /\ sub'.game \in GameIds
            /\ NoneReplaced(games[sub'.game].slots, sub'.replacee)
<1> USE DEF TInv, TypeOK, dbVars
<1>0. ASSUME NEW g \in GameIds
      PROVE  /\ DOMAIN games[g].slots \subseteq Nat
             /\ Ordered(games[g].slots)
  BY <1>0, LenProperties DEF Game, ReplacedInv
<1>1. CASE UNCHANGED sub
  BY <1>1
<1>2. ASSUME NEW g \in GameIds, NEW p \in Players, BeginSubstitute(g, p)
      PROVE  /\ UNCHANGED games /\ sub'.game = g /\ sub'.replacee = p
             /\ NoneReplaced(games[g].slots, p)
  <2>1. UNCHANGED games /\ sub'.game = g /\ sub'.replacee = p
    BY <1>2 DEF BeginSubstitute, NoSubstitution
  <2>2. PICK i \in DOMAIN games[g].slots :
          /\ games[g].slots[i].player = p
          /\ games[g].slots[i].status = "active"
          /\ \A j \in DOMAIN games[g].slots : j < i => games[g].slots[j].player # p
    BY <1>2 DEF BeginSubstitute, FirstSlotHas
  <2>3. ASSUME NEW j \in DOMAIN games[g].slots,
               games[g].slots[j].player = p, games[g].slots[j].status = "replaced"
        PROVE  FALSE
    <3>1. i \in Nat /\ j \in Nat /\ ~ (j < i) /\ i # j
      BY <1>0, <2>2, <2>3
    <3>2. i < j
      BY <3>1
    <3> QED
      BY <1>0, <2>2, <2>3, <3>2 DEF Ordered
  <2>4. NoneReplaced(games[g].slots, p)
    BY <2>3 DEF NoneReplaced
  <2> QED
    BY <2>1, <2>4
<1>3. ASSUME NEW g \in GameIds, NEW p \in Players, BeginCancel(g, p)
      PROVE  /\ UNCHANGED games /\ sub'.game = g /\ sub'.replacee = p
             /\ NoneReplaced(games[g].slots, p)
  <2>1. UNCHANGED games /\ sub'.game = g /\ sub'.replacee = p
    BY <1>3 DEF BeginCancel, NoSubstitution
  <2>2. PICK i \in DOMAIN games[g].slots :
          /\ games[g].slots[i].player = p
          /\ games[g].slots[i].status = "waiting for substitute"
    BY <1>3 DEF BeginCancel, FirstSlotHas
  <2>3. NoneReplaced(games[g].slots, p)
    BY <1>0, <2>2 DEF NoneReplaced, Ordered
  <2> QED
    BY <2>1, <2>3
<1>4. CASE ReplaceOwn
  <2>1. /\ sub.game \in GameIds
        /\ UNCHANGED games /\ sub'.game = sub.game /\ sub'.replacee = sub.replacee
    BY <1>4 DEF ReplaceOwn, Reads, Substitution
  <2>2. PICK i \in DOMAIN games[sub.game].slots :
          /\ games[sub.game].slots[i].player = sub.replacee
          /\ games[sub.game].slots[i].status = "waiting for substitute"
    BY <1>4 DEF ReplaceOwn, WaitingSlots
  <2>3. NoneReplaced(games[sub.game].slots, sub.replacee)
    BY <1>0, <2>1, <2>2 DEF NoneReplaced, Ordered
  <2> QED
    BY <2>1, <2>3
<1>5. CASE \/ NothingToReplace \/ Substitute \/ Cancel \/ TakeOwnSlot
           \/ ReleaseReplacee \/ Restart
  <2>1. sub' = NoSubstitution
    BY <1>5 DEF NothingToReplace, Substitute, Cancel, TakeOwnSlot, MarkSlots,
       ReleaseReplacee, Restart
  <2> QED
    BY <2>1 DEF NoSubstitution
<1>6. CASE ReplaceOther \/ PushSlot \/ MarkReplaced \/ AssignReplacement
  <2>1. sub'.step \in {"push", "mark", "assign", "release"}
    <3>1. CASE ReplaceOther
      <4>1. PICK i \in WaitingSlots(sub.game, sub.replacee) :
              sub' = [sub EXCEPT !.step = "push", !.live = InProgress(sub.game),
                                 !.place = games[sub.game].slots[i].place]
        BY <3>1 DEF ReplaceOther
      <4> QED
        BY <4>1 DEF Substitution
    <3>2. CASE PushSlot
      BY <3>2 DEF PushSlot, Substitution
    <3>3. CASE MarkReplaced
      BY <3>3 DEF MarkReplaced, Substitution
    <3>4. CASE AssignReplacement
      BY <3>4 DEF AssignReplacement, Substitution
    <3> QED
      BY <1>6, <3>1, <3>2, <3>3, <3>4
  <2> QED
    BY <2>1
<1>7. ASSUME NEW h \in GameIds, NEW x \in Players, NEW y \in Players, BeginReplace(h, x, y)
      PROVE  sub'.step = "getGame"
  BY <1>7 DEF BeginReplace, NoSubstitution
<1>8. CASE UNCHANGED vars
  BY <1>1, <1>8 DEF vars
<1>9. CASE \/ \E q \in Players : JoinQueue(q) \/ LeaveQueue(q) \/ AssignGame(q)
           \/ BeginLaunch \/ ResetQueue
           \/ FreeAllMedics \/ MedicsAreFree \/ EndUpdate
           \/ \E u \in unsets : UnsetActiveGame(u)
  BY <1>1, <1>9 DEF JoinQueue, LeaveQueue, AssignGame, BeginLaunch, ResetQueue,
     FreeAllMedics, MedicsAreFree, EndUpdate, UnsetActiveGame
<1>10. CASE \E h \in GameIds :
             \/ CreateGame(h) \/ MatchStarts(h) \/ MatchEnds(h) \/ FreeAllPlayers(h)
             \/ BeginUpdate(h) \/ BeginForceEnd(h) \/ ForceEnd(h)
  BY <1>1, <1>10 DEF CreateGame, MatchStarts, MatchEnds, FreeAllPlayers, BeginUpdate,
     BeginForceEnd, ForceEnd
<1> QED
  BY <1>2, <1>3, <1>4, <1>5, <1>6, <1>7, <1>8, <1>9, <1>10 DEF Next

LEMMA InitReplacedInv == Init => ReplacedInv
<1> SUFFICES ASSUME Init PROVE ReplacedInv
  OBVIOUS
<1>1. \A g \in GameIds : games[g].slots = <<>>
  <2>1. games = [g \in GameIds |-> NotCreated]
    BY DEF Init
  <2>2. NotCreated.slots = <<>>
    BY DEF NotCreated
  <2> QED
    BY <2>1, <2>2
<1>2. \A g \in GameIds : Ordered(games[g].slots)
  <2>1. DOMAIN <<>> = {}
    BY EmptySeq
  <2>2. Ordered(<<>>)
    BY <2>1, Zenon DEF Ordered
  <2> QED
    BY <1>1, <2>2
<1>3. sub.step = "idle"
  <2>1. sub = NoSubstitution
    BY DEF Init
  <2> QED
    BY <2>1 DEF NoSubstitution
<1> QED
  BY <1>2, <1>3 DEF ReplacedInv

\* The slots of every game keep what is replaced, in order.
LEMMA SlotsOrdered ==
  ASSUME TInv, ReplacedInv, [Next]_vars, NEW g \in GameIds
  PROVE  /\ Ordered(games'[g].slots)
         /\ ReplacedKept(games[g].slots, games'[g].slots)
<1> DEFINE sl == games[g].slots
<1>1. sl \in Seq(GameSlot) /\ Ordered(sl)
  BY DEF TInv, TypeOK, Game, ReplacedInv
<1>2. CASE games'[g].slots = sl
  BY <1>1, <1>2 DEF ReplacedKept
<1>3. CASE CreateGame(g)
  <2>1. PICK player \in [1..Size -> queue] :
          games' = [games EXCEPT ![g] =
            [state |-> "launching",
             slots |-> [i \in 1..Size |->
               [player |-> player[i], place |-> i, status |-> "active"]]]]
    BY <1>3 DEF CreateGame
  <2> DEFINE new == [i \in 1..Size |->
                      [player |-> player[i], place |-> i, status |-> "active"]]
  <2>2. games'[g].slots = new
    BY <2>1 DEF TInv, TypeOK
  <2>3. \A i \in DOMAIN new : new[i].status = "active"
    OBVIOUS
  <2>4. sl = <<>>
    BY <1>3 DEF CreateGame, NotCreated
  <2>5. Ordered(new)
    BY <2>3 DEF Ordered
  <2>6. ReplacedKept(sl, new)
    BY <2>4, EmptySeq DEF ReplacedKept
  <2> QED
    BY <2>2, <2>5, <2>6
<1>4. CASE games'[g].slots = Settled(sl)
  BY <1>1, <1>4, SettledReplaced
<1>5. ASSUME NEW status \in SlotStatus, status # "replaced",
             Substitute \/ Cancel \/ TakeOwnSlot, sub.game = g,
             games'[g].slots = WithStatus(sl, sub.replacee, status)
      PROVE  /\ Ordered(games'[g].slots)
             /\ ReplacedKept(games[g].slots, games'[g].slots)
  <2>1. NoneReplaced(sl, sub.replacee)
    BY <1>5 DEF Substitute, Cancel, TakeOwnSlot, MarkSlots, ReplacedInv
  <2> QED
    BY <1>1, <1>5, <2>1, MarkedOther
<1>6. CASE games'[g].slots = WithStatus(sl, sub.replacee, "replaced")
  BY <1>1, <1>6, MarkedReplaced
<1>7. ASSUME PushSlot, sub.game = g,
             games'[g].slots = Append(sl,
               [player |-> sub.replacement, place |-> sub.place, status |-> "active"])
      PROVE  /\ Ordered(games'[g].slots)
             /\ ReplacedKept(games[g].slots, games'[g].slots)
  <2>1. [player |-> sub.replacement, place |-> sub.place, status |-> "active"] \in GameSlot
    BY <1>7 DEF PushSlot, TInv, Reads, GameSlot, SlotStatus
  <2> QED
    BY <1>1, <1>7, <2>1, PushedReplaced
<1>8. "active" \in SlotStatus /\ "waiting for substitute" \in SlotStatus
  BY DEF SlotStatus
<1> QED
  BY <1>2, <1>3, <1>4, <1>5, <1>6, <1>7, <1>8, GameStep

\* A pending request still has nothing to bring back.
LEMMA RequestsStaySound ==
  ASSUME TInv, ReplacedInv, [Next]_vars, sub'.step \in {"substitute", "cancel", "takeOwn"}
  PROVE  NoneReplaced(games'[sub'.game].slots, sub'.replacee)
<1>1. CASE UNCHANGED games /\ NoneReplaced(games[sub'.game].slots, sub'.replacee)
  BY <1>1
<1>2. CASE sub' = sub
  <2> DEFINE g == sub.game
             sl == games[g].slots
  <2>1. g \in GameIds /\ NoneReplaced(sl, sub.replacee)
    BY <1>2 DEF TInv, Reads, ReplacedInv
  <2>2. sl \in Seq(GameSlot) /\ Ordered(sl)
    BY <2>1 DEF TInv, TypeOK, Game, ReplacedInv
  <2>3. CASE games'[g].slots = sl
    BY <1>2, <2>1, <2>3
  <2>4. CASE games'[g].slots = Settled(sl)
    BY <1>2, <2>1, <2>2, <2>4, SettledReplaced
  <2>5. CASE CreateGame(g)
    <3>1. PICK player \in [1..Size -> queue] :
            games' = [games EXCEPT ![g] =
              [state |-> "launching",
               slots |-> [i \in 1..Size |->
                 [player |-> player[i], place |-> i, status |-> "active"]]]]
      BY <2>5 DEF CreateGame
    <3>2. games'[g].slots = [i \in 1..Size |->
            [player |-> player[i], place |-> i, status |-> "active"]]
      BY <2>1, <3>1 DEF TInv, TypeOK
    <3>3. \A i \in DOMAIN games'[g].slots : games'[g].slots[i].status = "active"
      BY <3>2
    <3>4. NoneReplaced(games'[g].slots, sub.replacee)
      BY <3>3 DEF NoneReplaced
    <3> QED
      BY <1>2, <3>4
  <2>6. ASSUME Substitute \/ Cancel \/ TakeOwnSlot PROVE FALSE
    <3>1. sub' = NoSubstitution
      BY <2>6 DEF Substitute, Cancel, TakeOwnSlot, MarkSlots
    <3>2. sub'.step = "idle"
      BY <3>1 DEF NoSubstitution
    <3> QED
      BY <3>2
  <2>7. ~ (PushSlot \/ MarkReplaced)
    BY <1>2 DEF PushSlot, MarkReplaced
  <2> QED
    BY <2>1, <2>3, <2>4, <2>5, <2>6, <2>7, GameStep
<1> QED
  BY <1>1, <1>2, RequestStep

LEMMA NextReplacedInv == TInv /\ ReplacedInv /\ [Next]_vars => ReplacedInv'
BY SlotsOrdered, RequestsStaySound DEF ReplacedInv

\* The updates that set a status back match every slot of the player, yet none of them
\* revives a replaced slot: a player who returned to a game he was replaced in is found
\* by his first slot, which is replaced, and cannot ask for a substitute again.
THEOREM ReplacementsAreFinal == Spec => ReplacedStaysReplaced
<1>1. TInv /\ ReplacedInv /\ [Next]_vars =>
        [\A g \in GameIds : \A i \in DOMAIN games[g].slots :
           games[g].slots[i].status = "replaced" =>
             i \in DOMAIN games'[g].slots /\ games'[g].slots[i].status = "replaced"]_vars
  BY SlotsOrdered DEF ReplacedKept
<1> QED
  BY <1>1, InitTInv, NextTInv, InitReplacedInv, NextReplacedInv, PTL
     DEF Spec, ReplacedStaysReplaced

-----------------------------------------------------------------------------
(* One thing at a time *)

\* An end that is still to come takes no game by surprise: nobody is substituted in a
\* game forceEnd() has read, and whoever waits does so in a game in progress.
RequestInv ==
  /\ RequestsEndWithGame
  /\ \A g \in GameIds : forcing[g] # "over" /\ (forcing[g] = "live" => InProgress(g))
  /\ sub.step # "idle" => InProgress(sub.game) /\ forcing[sub.game] # "live"

\* The players of a game that is over are still to be released.
ToRelease(g) ==
  \/ g \in timers
  \/ model.game = g /\ model.step \in {"freeAllMedics", "free"}
  \/ \E u \in unsets : u.game = g

\* A release is of players of a game that is over.
ReleaseInv ==
  /\ \A g \in GameIds : ToRelease(g) => Over(g)
  /\ \A u \in unsets : u.player \in PlayersOf(games[u.game].slots)

\* The player is of the game until its players are released.
Bound(p, g) == p \in PlayersOf(games[g].slots) /\ (InProgress(g) \/ ToRelease(g))

\* A player is of one game at a time; if he is in the queue, the game is the one that is
\* launched for it, or the one he has just got a slot in; a replacement is of the game he
\* is going to play.
BoundInv ==
  /\ \A p \in Players : \A g, h \in GameIds : Bound(p, g) /\ Bound(p, h) => g = h
  /\ \A p \in queue : \A g \in GameIds : Bound(p, g) =>
       \/ launch.game = g
       \/ sub.step = "mark" /\ sub.game = g /\ sub.replacement = p
  /\ \A p \in Players : \A g \in GameIds :
       sub.replacement = p /\ Bound(p, g) => sub.game = g

\* A launch is of a full queue that nobody leaves, not even as a replacement.
QueueInv ==
  /\ launch.step # "assign" => launch.game = NoGame /\ launch.pending = {}
  /\ launch.pending \subseteq queue
  /\ launch.step # "idle" => sub.replacement \notin queue
  /\ launch.step = "getWinner" => Cardinality(queue) = Size

\* p has a place, q of them, in the slots sl.
HasPlaceIn(sl, p) == \E i \in DOMAIN sl : sl[i].player = p /\ Holds(sl, i)

HoldsPlaceIn(sl, p, q) ==
  \E i \in DOMAIN sl : sl[i].player = p /\ sl[i].place = q /\ Holds(sl, i)

\* What a substitution has read of the game is still so.
SubInv ==
  /\ sub.step \in {"substitute", "cancel", "takeOwn"} => HasPlace(sub.game, sub.replacee)
  /\ sub.step \in {"getGame", "push"} /\ sub.replacee # sub.replacement =>
       ~ HasPlace(sub.game, sub.replacement)
  /\ sub.step \in {"push", "mark", "assign", "release"} => sub.replacee # sub.replacement
  /\ sub.step \in {"push", "mark"} =>
       HoldsPlaceIn(games[sub.game].slots, sub.replacee, sub.place)
  /\ sub.step = "mark" =>
       HoldsPlaceIn(games[sub.game].slots, sub.replacement, sub.place)
  /\ sub.step \in {"assign", "release"} =>
       /\ ~ HasPlace(sub.game, sub.replacee)
       /\ sub.replacee \in PlayersOf(games[sub.game].slots)

\* Every place of the slots sl is held.
AllPlaces(sl) ==
  \A q \in 1..Size : \E i \in DOMAIN sl : sl[i].place = q /\ Holds(sl, i)

\* Nobody holds two slots of sl.
OneSlotEach(sl) ==
  \A i, j \in DOMAIN sl :
    Holds(sl, i) /\ Holds(sl, j) /\ sl[i].player = sl[j].player => i = j

\* Nobody shares a place of sl but those in P, who share q.
OnePlaceEach(sl, P, q) ==
  \A i, j \in DOMAIN sl :
    Holds(sl, i) /\ Holds(sl, j) /\ sl[i].place = sl[j].place =>
      i = j \/ (sl[i].player \in P /\ sl[j].player \in P /\ sl[i].place = q)

\* Only a replacement between its two writes has two players share a place.
Sharing(g) ==
  IF sub.step = "mark" /\ sub.game = g THEN {sub.replacee, sub.replacement} ELSE {}

TeamInv ==
  \A g \in GameIds : InProgress(g) =>
    /\ AllPlaces(games[g].slots)
    /\ OneSlotEach(games[g].slots)
    /\ OnePlaceEach(games[g].slots, Sharing(g), sub.place)

SerialInv ==
  /\ BoundInv
  /\ QueueInv
  /\ SubInv
  /\ TeamInv
  /\ PlayingIsAssigned

-----------------------------------------------------------------------------
\* The players, the places and who holds them, whatever is asked of the slots.
SameSlots(old, new) ==
  /\ DOMAIN new = DOMAIN old
  /\ \A i \in DOMAIN old : /\ new[i].player = old[i].player
                           /\ new[i].place = old[i].place
                           /\ Holds(new, i) <=> Holds(old, i)

LEMMA SameSlotsSame ==
  ASSUME NEW old, NEW new, SameSlots(old, new)
  PROVE  /\ PlayersOf(new) = PlayersOf(old)
         /\ \A p : HasPlaceIn(new, p) <=> HasPlaceIn(old, p)
         /\ \A p, q : HoldsPlaceIn(new, p, q) <=> HoldsPlaceIn(old, p, q)
         /\ AllPlaces(old) => AllPlaces(new)
         /\ OneSlotEach(old) => OneSlotEach(new)
         /\ \A P, q : OnePlaceEach(old, P, q) => OnePlaceEach(new, P, q)
<1> USE DEF SameSlots
<1> HIDE DEF Holds
<1>1. PlayersOf(new) = PlayersOf(old)
  BY DEF PlayersOf
<1>2. \A p : HasPlaceIn(new, p) <=> HasPlaceIn(old, p)
  BY DEF HasPlaceIn
<1>3. \A p, q : HoldsPlaceIn(new, p, q) <=> HoldsPlaceIn(old, p, q)
  BY DEF HoldsPlaceIn
<1>4. AllPlaces(old) => AllPlaces(new)
  BY DEF AllPlaces
<1>5. OneSlotEach(old) => OneSlotEach(new)
  BY DEF OneSlotEach
<1>6. \A P, q : OnePlaceEach(old, P, q) => OnePlaceEach(new, P, q)
  BY DEF OnePlaceEach
<1> QED BY <1>1, <1>2, <1>3, <1>4, <1>5, <1>6

LEMMA SettledSame ==
  ASSUME NEW sl \in Seq(GameSlot)
  PROVE  SameSlots(sl, Settled(sl))
<1>1. DOMAIN Settled(sl) = DOMAIN sl
  BY SettledType
<1>2. ASSUME NEW i \in DOMAIN sl
      PROVE  /\ Settled(sl)[i].player = sl[i].player
             /\ Settled(sl)[i].place = sl[i].place
             /\ Settled(sl)[i].status = "replaced" <=> sl[i].status = "replaced"
  <2>1. sl[i] \in GameSlot
    BY PlayersOfType
  <2> QED BY <2>1 DEF Settled, GameSlot
<1> QED BY <1>1, <1>2 DEF SameSlots, Holds

\* The slots after an update of the status: who held a place before holds it, but for
\* the player whose slots are marked.
LEMMA MarkedSlots ==
  ASSUME NEW sl \in Seq(GameSlot), NEW p, NEW status \in SlotStatus
  PROVE  /\ DOMAIN WithStatus(sl, p, status) = DOMAIN sl
         /\ \A i \in DOMAIN sl :
              /\ WithStatus(sl, p, status)[i].player = sl[i].player
              /\ WithStatus(sl, p, status)[i].place = sl[i].place
              /\ sl[i].player = p => WithStatus(sl, p, status)[i].status = status
              /\ sl[i].player # p => WithStatus(sl, p, status)[i].status = sl[i].status
<1>1. DOMAIN WithStatus(sl, p, status) = DOMAIN sl
  BY WithStatusType
<1>2. ASSUME NEW i \in DOMAIN sl
      PROVE  WithStatus(sl, p, status)[i].place = sl[i].place
  <2>1. sl[i] \in GameSlot
    BY PlayersOfType
  <2> QED BY <2>1 DEF WithStatus, GameSlot
<1> QED BY <1>1, <1>2, WithStatusFields

LEMMA MarkedSame ==
  ASSUME NEW sl \in Seq(GameSlot), NEW p, NEW status \in SlotStatus,
         status # "replaced", NoneReplaced(sl, p)
  PROVE  SameSlots(sl, WithStatus(sl, p, status))
<1> DEFINE new == WithStatus(sl, p, status)
<1>1. /\ DOMAIN new = DOMAIN sl
      /\ \A i \in DOMAIN sl : /\ new[i].player = sl[i].player
                              /\ new[i].place = sl[i].place
                              /\ sl[i].player = p => new[i].status = status
                              /\ sl[i].player # p => new[i].status = sl[i].status
  BY MarkedSlots
<1> HIDE DEF new
<1>2. SameSlots(sl, new)
  BY <1>1 DEF SameSlots, Holds, NoneReplaced
<1> QED BY <1>2 DEF new

\* Nobody gains or loses a place but in a game that is created, or a substitution.
LEMMA SlotsStep ==
  ASSUME TInv, ReplacedInv, [Next]_vars, NEW g \in GameIds
  PROVE  \/ SameSlots(games[g].slots, games'[g].slots)
         \/ CreateGame(g)
         \/ PushSlot /\ sub.game = g
         \/ MarkReplaced /\ sub.game = g
<1> DEFINE sl == games[g].slots
<1>1. sl \in Seq(GameSlot)
  BY DEF TInv, TypeOK, Game
<1>2. CASE games'[g].slots = sl
  BY <1>2 DEF SameSlots
<1>3. CASE games'[g].slots = Settled(sl)
  BY <1>1, <1>3, SettledSame
<1>4. ASSUME NEW status \in {"active", "waiting for substitute"},
             Substitute \/ Cancel \/ TakeOwnSlot, sub.game = g,
             games'[g].slots = WithStatus(sl, sub.replacee, status)
      PROVE  SameSlots(games[g].slots, games'[g].slots)
  <2>1. NoneReplaced(sl, sub.replacee)
    BY <1>4 DEF Substitute, Cancel, TakeOwnSlot, MarkSlots, ReplacedInv
  <2> QED BY <1>1, <1>4, <2>1, MarkedSame DEF SlotStatus
<1> QED BY <1>2, <1>3, <1>4, GameStep

\* A game that is not in progress gets so only by its creation.
LEMMA ProgressStep ==
  ASSUME TInv, [Next]_vars, NEW g \in GameIds
  PROVE  /\ InProgress(g)' => InProgress(g) \/ CreateGame(g)
         /\ InProgress(g) => InProgress(g)' \/ MatchEnds(g) \/ ForceEnd(g)
<1>1. CASE CreateGame(g)
  <2>1. games[g].state = "none"
    BY <1>1 DEF CreateGame, NotCreated
  <2> QED BY <1>1, <2>1 DEF InProgress
<1>2. CASE MatchStarts(g) /\ games'[g].state = "started"
  BY <1>2 DEF MatchStarts, InProgress
<1>3. CASE games'[g].state = games[g].state
  BY <1>3 DEF InProgress
<1>4. CASE MatchEnds(g) /\ games'[g].state = "ended"
  BY <1>4 DEF InProgress
<1>5. CASE ForceEnd(g) /\ games'[g].state = "interrupted"
  BY <1>5 DEF InProgress
<1> QED BY <1>1, <1>2, <1>3, <1>4, <1>5, GameStep

\* What a step does to the substitution.
LEMMA SubSteps ==
  ASSUME TInv, [Next]_vars
  PROVE  \/ sub' = sub
         \/ /\ sub' = NoSubstitution
            /\ Restart \/ sub.step \notin {"push", "mark", "assign"}
         \/ \E g \in GameIds, p \in Players : BeginSubstitute(g, p) \/ BeginCancel(g, p)
         \/ \E g \in GameIds, x, y \in Players : BeginReplace(g, x, y)
         \/ ReplaceOwn \/ ReplaceOther \/ PushSlot \/ MarkReplaced \/ AssignReplacement
<1>1. CASE UNCHANGED vars
  BY <1>1 DEF vars
<1>2. CASE \/ \E q \in Players : JoinQueue(q) \/ LeaveQueue(q) \/ AssignGame(q)
           \/ BeginLaunch \/ ResetQueue
           \/ FreeAllMedics \/ MedicsAreFree \/ EndUpdate
           \/ \E u \in unsets : UnsetActiveGame(u)
  BY <1>2 DEF JoinQueue, LeaveQueue, AssignGame, BeginLaunch, ResetQueue,
     FreeAllMedics, MedicsAreFree, EndUpdate, UnsetActiveGame
<1>3. CASE \E h \in GameIds :
             \/ CreateGame(h) \/ MatchStarts(h) \/ MatchEnds(h) \/ FreeAllPlayers(h)
             \/ BeginUpdate(h) \/ BeginForceEnd(h) \/ ForceEnd(h)
  BY <1>3 DEF CreateGame, MatchStarts, MatchEnds, FreeAllPlayers, BeginUpdate,
     BeginForceEnd, ForceEnd
<1>4. CASE \/ NothingToReplace \/ Substitute \/ Cancel \/ TakeOwnSlot
           \/ ReleaseReplacee \/ Restart
  BY <1>4 DEF NothingToReplace, Substitute, Cancel, TakeOwnSlot, MarkSlots,
     ReleaseReplacee, Restart
<1> QED BY <1>1, <1>2, <1>3, <1>4 DEF Next

LEMMA ReplaceOwnDoes ==
  ASSUME TInv, ReplaceOwn
  PROVE  /\ sub.game \in GameIds /\ sub.replacee \in Players
         /\ sub.replacement = sub.replacee
         /\ sub'.step = "takeOwn" /\ sub'.game = sub.game
         /\ sub'.replacee = sub.replacee /\ sub'.replacement = sub.replacement
         /\ UNCHANGED <<games, activeGame, queue, launch, model, forcing, timers, unsets>>
BY DEF ReplaceOwn, TInv, TypeOK, Reads, Substitution, dbVars

LEMMA ReplaceOtherDoes ==
  ASSUME TInv, ReplaceOther
  PROVE  /\ sub.game \in GameIds /\ sub.replacee \in Players
         /\ sub.replacement # sub.replacee
         /\ sub'.step = "push" /\ sub'.game = sub.game
         /\ sub'.replacee = sub.replacee /\ sub'.replacement = sub.replacement
         /\ \E i \in WaitingSlots(sub.game, sub.replacee) :
              sub'.place = games[sub.game].slots[i].place
         /\ UNCHANGED <<games, activeGame, queue, launch, model, forcing, timers, unsets>>
<1>1. PICK i \in WaitingSlots(sub.game, sub.replacee) :
        sub' = [sub EXCEPT !.step = "push", !.live = InProgress(sub.game),
                           !.place = games[sub.game].slots[i].place]
  BY DEF ReplaceOther
<1> DEFINE live  == InProgress(sub.game)
           place == games[sub.game].slots[i].place
<1>2. sub' = [sub EXCEPT !.step = "push", !.live = live, !.place = place]
  BY <1>1
<1> HIDE DEF live, place
<1>3. /\ sub'.step = "push" /\ sub'.game = sub.game /\ sub'.replacee = sub.replacee
      /\ sub'.replacement = sub.replacement /\ sub'.place = place
  BY <1>2 DEF TInv, TypeOK, Substitution
<1> QED BY <1>3 DEF ReplaceOther, TInv, Reads, dbVars, place

\* The three actions that only take the replacement a step further.
LEMMA ReplacementSteps ==
  ASSUME TInv, PushSlot \/ MarkReplaced \/ AssignReplacement
  PROVE  /\ sub.game \in GameIds /\ sub.replacee \in Players /\ sub.replacement \in Players
         /\ sub.place \in 1..Size
         /\ PushSlot => sub.step = "push" /\ sub'.step = "mark"
         /\ MarkReplaced => sub.step = "mark" /\ sub'.step = "assign"
         /\ AssignReplacement => sub.step = "assign" /\ sub'.step = "release"
         /\ sub'.game = sub.game /\ sub'.replacee = sub.replacee
         /\ sub'.replacement = sub.replacement /\ sub'.place = sub.place
         /\ UNCHANGED <<launch, model, forcing, timers, unsets>>
BY DEF PushSlot, MarkReplaced, AssignReplacement, TInv, TypeOK, Reads, Substitution

-----------------------------------------------------------------------------
LEMMA InitRequestInv == Init => RequestInv /\ ReleaseInv
<1> SUFFICES ASSUME Init PROVE RequestInv /\ ReleaseInv
  OBVIOUS
<1>1. \A g \in GameIds : games[g].slots = <<>>
  <2>1. games = [g \in GameIds |-> NotCreated]
    BY DEF Init
  <2> QED BY <2>1 DEF NotCreated
<1>2. RequestsEndWithGame
  <2>1. \A g \in GameIds : DOMAIN games[g].slots = {}
    BY <1>1, EmptySeq
  <2> QED BY <2>1 DEF RequestsEndWithGame
<1>3. forcing = [g \in GameIds |-> "none"]
  BY DEF Init
<1>4. sub.step = "idle" /\ model.step = "idle" /\ timers = {} /\ unsets = {}
  BY DEF Init, NoSubstitution, NoModelUpdate
<1>5. RequestInv
  BY <1>2, <1>3, <1>4 DEF RequestInv
<1> QED BY <1>4, <1>5 DEF ReleaseInv, ToRelease

\* Who waits after a step did so before, or is of a game in progress.
LEMMA WaitingStep ==
  ASSUME TInv, RequestInv, [Next]_vars, NEW g \in GameIds, NEW i \in DOMAIN games'[g].slots,
         games'[g].slots[i].status = "waiting for substitute"
  PROVE  InProgress(g)'
<1> DEFINE sl == games[g].slots
<1>0. sl \in Seq(GameSlot)
  BY DEF TInv, TypeOK, Game
<1>1. CASE games'[g] = games[g]
  BY <1>1 DEF RequestInv, RequestsEndWithGame, InProgress
<1>2. CASE CreateGame(g)
  <2>1. PICK player \in [1..Size -> queue] :
          games' = [games EXCEPT ![g] =
            [state |-> "launching",
             slots |-> [j \in 1..Size |->
               [player |-> player[j], place |-> j, status |-> "active"]]]]
    BY <1>2 DEF CreateGame
  <2>2. games'[g].state = "launching"
    BY <2>1 DEF TInv, TypeOK
  <2> QED BY <2>2 DEF InProgress
<1>3. CASE games'[g].state = "started"
  BY <1>3 DEF InProgress
<1>4. CASE games'[g].slots = Settled(sl)
  BY <1>0, <1>4, SettledType, SettledFields
<1>5. CASE Substitute /\ sub.game = g /\ games'[g].state = games[g].state
  BY <1>5 DEF Substitute, MarkSlots, RequestInv, InProgress
<1>6. CASE /\ Cancel \/ TakeOwnSlot
           /\ sub.game = g /\ games'[g].state = games[g].state
  BY <1>6 DEF Cancel, TakeOwnSlot, MarkSlots, RequestInv, InProgress
<1>7. CASE /\ MarkReplaced \/ PushSlot
           /\ sub.game = g /\ games'[g].state = games[g].state
  BY <1>7 DEF MarkReplaced, PushSlot, RequestInv, InProgress
<1> QED BY <1>1, <1>2, <1>3, <1>4, <1>5, <1>6, <1>7, GameStep

\* What forceEnd() has read.
LEMMA ForcingSerial ==
  ASSUME Overlap = FALSE, TInv, [Next]_vars, NEW g \in GameIds
  PROVE  \/ forcing'[g] = forcing[g]
         \/ forcing'[g] \in {"none", "done"}
         \/ BeginForceEnd(g) /\ InProgress(g) /\ sub.game # g /\ forcing'[g] = "live"
            /\ UNCHANGED <<games, sub>>
<1> USE DEF TInv, TypeOK
<1>1. CASE UNCHANGED forcing
  BY <1>1
<1>2. ASSUME NEW h \in GameIds, BeginForceEnd(h)
      PROVE  \/ forcing'[g] = forcing[g]
             \/ BeginForceEnd(g) /\ InProgress(g) /\ sub.game # g /\ forcing'[g] = "live"
                /\ UNCHANGED <<games, sub>>
  <2>1. InProgress(h) /\ sub.game # h
    BY <1>2 DEF BeginForceEnd, Undisturbed
  <2>2. forcing' = [forcing EXCEPT ![h] = "live"]
    BY <1>2, <2>1 DEF BeginForceEnd
  <2> QED BY <1>2, <2>1, <2>2 DEF BeginForceEnd, dbVars
<1>3. ASSUME NEW h \in GameIds, ForceEnd(h)
      PROVE  forcing'[g] = forcing[g] \/ forcing'[g] = "done"
  BY <1>3 DEF ForceEnd
<1>4. CASE Restart
  BY <1>4 DEF Restart
<1>5. CASE UNCHANGED vars
  BY <1>1, <1>5 DEF vars
<1>6. CASE \/ \E q \in Players : JoinQueue(q) \/ LeaveQueue(q) \/ AssignGame(q)
           \/ BeginLaunch \/ ResetQueue
           \/ FreeAllMedics \/ MedicsAreFree \/ EndUpdate
           \/ \E u \in unsets : UnsetActiveGame(u)
           \/ NothingToReplace \/ ReplaceOwn \/ ReplaceOther
           \/ Substitute \/ Cancel \/ TakeOwnSlot \/ PushSlot \/ MarkReplaced
           \/ AssignReplacement \/ ReleaseReplacee
  BY <1>1, <1>6 DEF JoinQueue, LeaveQueue, AssignGame, BeginLaunch, ResetQueue,
     FreeAllMedics, MedicsAreFree, EndUpdate, UnsetActiveGame, NothingToReplace,
     ReplaceOwn, ReplaceOther, Substitute, Cancel, TakeOwnSlot, MarkSlots, PushSlot,
     MarkReplaced, AssignReplacement, ReleaseReplacee
<1>7. CASE \E h \in GameIds :
             \/ CreateGame(h) \/ MatchStarts(h) \/ MatchEnds(h) \/ FreeAllPlayers(h)
             \/ BeginUpdate(h)
             \/ \E q \in Players : BeginSubstitute(h, q) \/ BeginCancel(h, q)
             \/ \E x, y \in Players : BeginReplace(h, x, y)
  BY <1>1, <1>7 DEF CreateGame, MatchStarts, MatchEnds, FreeAllPlayers, BeginUpdate,
     BeginSubstitute, BeginCancel, BeginReplace
<1> QED BY <1>2, <1>3, <1>4, <1>5, <1>6, <1>7 DEF Next

LEMMA NextRequestInv ==
  ASSUME Overlap = FALSE, TInv, RequestInv, [Next]_vars
  PROVE  RequestInv'
<1>1. RequestsEndWithGame'
  BY WaitingStep DEF RequestsEndWithGame
<1>2. ASSUME NEW g \in GameIds, InProgress(g), MatchEnds(g) \/ ForceEnd(g)
      PROVE  (sub.step # "idle" => sub.game # g) /\ forcing'[g] # "live"
  <2>1. CASE MatchEnds(g)
    BY <2>1 DEF MatchEnds, Undisturbed, RequestInv, TInv, TypeOK
  <2>2. CASE ForceEnd(g)
    <3>1. forcing[g] = "live" /\ forcing'[g] = "done"
      BY <2>2 DEF ForceEnd, TInv, TypeOK, RequestInv
    <3> QED BY <3>1 DEF RequestInv
  <2> QED BY <1>2, <2>1, <2>2
<1>3. ASSUME NEW g \in GameIds
      PROVE  forcing'[g] # "over" /\ (forcing'[g] = "live" => InProgress(g)')
  <2>1. CASE forcing'[g] = forcing[g]
    <3>1. CASE InProgress(g)
      BY <2>1, <3>1, <1>2, ProgressStep DEF RequestInv
    <3> QED BY <2>1, <3>1 DEF RequestInv
  <2>2. CASE BeginForceEnd(g) /\ InProgress(g) /\ forcing'[g] = "live" /\ UNCHANGED games
    BY <2>2 DEF InProgress
  <2> QED BY <2>1, <2>2, ForcingSerial
<1> DEFINE Goes(g) == games'[g].state \in {"launching", "started"}
<1>4. ASSUME sub'.step # "idle" PROVE Goes(sub'.game) /\ forcing'[sub'.game] # "live"
  <2>1. CASE sub.step # "idle" /\ sub'.game = sub.game
    <3>1. sub.game \in GameIds /\ InProgress(sub.game) /\ forcing[sub.game] # "live"
      BY <2>1 DEF TInv, Reads, RequestInv
    <3>2. Goes(sub.game)
      <4>1. PICK g \in GameIds : g = sub.game
        BY <3>1
      <4>2. InProgress(g)'
        BY <1>2, <2>1, <3>1, <4>1, ProgressStep
      <4> QED BY <4>1, <4>2 DEF InProgress
    <3>3. forcing'[sub.game] # "live"
      BY <3>1, ForcingSerial
    <3> QED BY <2>1, <3>2, <3>3
  <2>2. ASSUME NEW g \in GameIds, NEW p \in Players, BeginSubstitute(g, p) \/ BeginCancel(g, p)
        PROVE  Goes(sub'.game) /\ forcing'[sub'.game] # "live"
    <3>1. sub'.game = g /\ InProgress(g) /\ forcing[g] # "live" /\ UNCHANGED <<games, forcing>>
      BY <2>2 DEF BeginSubstitute, BeginCancel, NoSubstitution, dbVars
    <3> QED BY <3>1 DEF InProgress
  <2>3. ASSUME NEW g \in GameIds, NEW x \in Players, NEW y \in Players, BeginReplace(g, x, y)
        PROVE  Goes(sub'.game) /\ forcing'[sub'.game] # "live"
    <3>1. sub'.game = g /\ forcing[g] # "live" /\ UNCHANGED <<games, forcing>>
      BY <2>3 DEF BeginReplace, NoSubstitution, dbVars
    <3>2. InProgress(g)
      BY <2>3 DEF BeginReplace, WaitingSlots, RequestInv, RequestsEndWithGame
    <3> QED BY <3>1, <3>2 DEF InProgress
  <2>4. CASE sub' = sub
    BY <1>4, <2>1, <2>4
  <2>5. CASE sub' = NoSubstitution
    BY <1>4, <2>5 DEF NoSubstitution
  <2>6. CASE ReplaceOwn
    BY <2>1, <2>6, ReplaceOwnDoes DEF ReplaceOwn
  <2>7. CASE ReplaceOther
    BY <2>1, <2>7, ReplaceOtherDoes DEF ReplaceOther
  <2>8. CASE PushSlot \/ MarkReplaced \/ AssignReplacement
    BY <2>1, <2>8, ReplacementSteps
  <2> QED BY <2>2, <2>3, <2>4, <2>5, <2>6, <2>7, <2>8, SubSteps
<1> QED BY <1>1, <1>3, <1>4 DEF RequestInv, InProgress

\* Whoever waits for a substitute does so in a game in progress, also after a restart.
THEOREM RequestsEnd == ASSUME Overlap = FALSE PROVE Spec => []RequestsEndWithGame
<1>1. Init => TInv /\ RequestInv
  BY InitTInv, InitRequestInv
<1>2. TInv /\ RequestInv /\ [Next]_vars => (TInv /\ RequestInv)'
  BY NextTInv, NextRequestInv
<1>3. RequestInv => RequestsEndWithGame
  BY DEF RequestInv
<1> QED BY <1>1, <1>2, <1>3, PTL DEF Spec

-----------------------------------------------------------------------------
\* The players of a game are released after its end, and only then.
LEMMA UnsetsStep ==
  ASSUME TInv, [Next]_vars, NEW u \in unsets', u \notin unsets
  PROVE  /\ u.game \in GameIds
         /\ u.player \in PlayersOf(games[u.game].slots)
         /\ ToRelease(u.game) \/ ForceEnd(u.game)
<1> USE DEF TInv, TypeOK
<1>1. ASSUME NEW g \in GameIds, NEW by, u \in UnsetsOf(by, g, PlayersOf(games[g].slots))
      PROVE  u.game = g /\ u.player \in PlayersOf(games[g].slots)
  BY <1>1 DEF UnsetsOf
<1>2. ASSUME NEW g \in GameIds, FreeAllPlayers(g)
      PROVE  /\ u.game \in GameIds
             /\ u.player \in PlayersOf(games[u.game].slots)
             /\ ToRelease(u.game)
  <2>1. g \in timers /\ u \in UnsetsOf("timer", g, PlayersOf(games[g].slots))
    BY <1>2 DEF FreeAllPlayers
  <2> QED BY <1>1, <2>1 DEF ToRelease
<1>3. ASSUME NEW g \in GameIds, ForceEnd(g)
      PROVE  /\ u.game \in GameIds
             /\ u.player \in PlayersOf(games[u.game].slots)
             /\ ForceEnd(u.game)
  <2>1. u \in UnsetsOf("force", g, PlayersOf(games[g].slots))
    BY <1>3 DEF ForceEnd
  <2> QED BY <1>1, <1>3, <2>1
<1>4. CASE FreeAllMedics
  <2> DEFINE g == model.game
             sl == games[g].slots
             P == {sl[i].player : i \in {j \in DOMAIN sl : sl[j].place \in Medics}}
  <2>1. u \in UnsetsOf("medics", g, P)
    BY <1>4 DEF FreeAllMedics
  <2>2. P \subseteq PlayersOf(sl)
    BY DEF PlayersOf
  <2>3. g \in GameIds /\ ToRelease(g)
    BY <1>4 DEF FreeAllMedics, Reads, ToRelease
  <2> HIDE DEF P, sl
  <2>4. u.game = g /\ u.player \in P
    BY <2>1 DEF UnsetsOf
  <2> QED BY <2>2, <2>3, <2>4 DEF sl
<1>5. CASE unsets' \subseteq unsets
  BY <1>5
<1>6. CASE UNCHANGED vars
  BY <1>5, <1>6 DEF vars
<1>7. CASE \/ \E q \in Players : JoinQueue(q) \/ LeaveQueue(q) \/ AssignGame(q)
           \/ BeginLaunch \/ ResetQueue
           \/ MedicsAreFree \/ EndUpdate
           \/ \E v \in unsets : UnsetActiveGame(v)
           \/ NothingToReplace \/ ReplaceOwn \/ ReplaceOther
           \/ Substitute \/ Cancel \/ TakeOwnSlot \/ PushSlot \/ MarkReplaced
           \/ AssignReplacement \/ ReleaseReplacee \/ Restart
  BY <1>5, <1>7 DEF JoinQueue, LeaveQueue, AssignGame, BeginLaunch, ResetQueue,
     MedicsAreFree, EndUpdate, UnsetActiveGame, NothingToReplace,
     ReplaceOwn, ReplaceOther, Substitute, Cancel, TakeOwnSlot, MarkSlots, PushSlot,
     MarkReplaced, AssignReplacement, ReleaseReplacee, Restart
<1>8. CASE \E h \in GameIds :
             \/ CreateGame(h) \/ MatchStarts(h) \/ MatchEnds(h)
             \/ BeginUpdate(h) \/ BeginForceEnd(h)
             \/ \E q \in Players : BeginSubstitute(h, q) \/ BeginCancel(h, q)
             \/ \E x, y \in Players : BeginReplace(h, x, y)
  BY <1>5, <1>8 DEF CreateGame, MatchStarts, MatchEnds, BeginUpdate, BeginForceEnd,
     BeginSubstitute, BeginCancel, BeginReplace
<1> QED BY <1>2, <1>3, <1>4, <1>5, <1>6, <1>7, <1>8 DEF Next

LEMMA TimersStep ==
  ASSUME TInv, [Next]_vars, NEW g \in timers', g \notin timers
  PROVE  ToRelease(g)
<1>1. CASE MedicsAreFree
  BY <1>1 DEF MedicsAreFree, ToRelease
<1>2. ASSUME NEW h \in GameIds, FreeAllPlayers(h) PROVE FALSE
  BY <1>2 DEF FreeAllPlayers
<1>3. CASE Restart \/ UNCHANGED vars
  BY <1>3 DEF Restart, vars
<1>4. CASE \/ \E q \in Players : JoinQueue(q) \/ LeaveQueue(q) \/ AssignGame(q)
           \/ BeginLaunch \/ ResetQueue
           \/ FreeAllMedics \/ EndUpdate
           \/ \E v \in unsets : UnsetActiveGame(v)
           \/ NothingToReplace \/ ReplaceOwn \/ ReplaceOther
           \/ Substitute \/ Cancel \/ TakeOwnSlot \/ PushSlot \/ MarkReplaced
           \/ AssignReplacement \/ ReleaseReplacee
  BY <1>4 DEF JoinQueue, LeaveQueue, AssignGame, BeginLaunch, ResetQueue,
     FreeAllMedics, EndUpdate, UnsetActiveGame, NothingToReplace,
     ReplaceOwn, ReplaceOther, Substitute, Cancel, TakeOwnSlot, MarkSlots, PushSlot,
     MarkReplaced, AssignReplacement, ReleaseReplacee
<1>5. CASE \E h \in GameIds :
             \/ CreateGame(h) \/ MatchStarts(h) \/ MatchEnds(h)
             \/ BeginUpdate(h) \/ BeginForceEnd(h) \/ ForceEnd(h)
             \/ \E q \in Players : BeginSubstitute(h, q) \/ BeginCancel(h, q)
             \/ \E x, y \in Players : BeginReplace(h, x, y)
  BY <1>5 DEF CreateGame, MatchStarts, MatchEnds, BeginUpdate, BeginForceEnd, ForceEnd,
     BeginSubstitute, BeginCancel, BeginReplace
<1> QED BY <1>1, <1>2, <1>3, <1>4, <1>5 DEF Next

LEMMA ModelStep ==
  ASSUME TInv, [Next]_vars, model'.step \in {"freeAllMedics", "free"}
  PROVE  \/ model'.game = model.game /\ model.step \in {"freeAllMedics", "free"}
         \/ \E g \in GameIds : g = model'.game /\ MatchEnds(g)
<1> USE DEF TInv, TypeOK, ModelUpdate
<1>1. CASE UNCHANGED model
  BY <1>1
<1>2. ASSUME NEW g \in GameIds, MatchEnds(g) PROVE model'.game = g
  BY <1>2 DEF MatchEnds, NoModelUpdate
<1>3. CASE FreeAllMedics
  BY <1>3 DEF FreeAllMedics
<1>4. CASE MedicsAreFree \/ EndUpdate \/ Restart
  <2>1. model' = NoModelUpdate
    BY <1>4 DEF MedicsAreFree, EndUpdate, Restart
  <2> QED BY <2>1 DEF NoModelUpdate
<1>5. ASSUME NEW g \in GameIds, BeginUpdate(g) PROVE FALSE
  BY <1>5 DEF BeginUpdate
<1>6. CASE UNCHANGED vars
  BY <1>1, <1>6 DEF vars
<1>7. CASE \/ \E q \in Players : JoinQueue(q) \/ LeaveQueue(q) \/ AssignGame(q)
           \/ BeginLaunch \/ ResetQueue
           \/ \E v \in unsets : UnsetActiveGame(v)
           \/ NothingToReplace \/ ReplaceOwn \/ ReplaceOther
           \/ Substitute \/ Cancel \/ TakeOwnSlot \/ PushSlot \/ MarkReplaced
           \/ AssignReplacement \/ ReleaseReplacee
  BY <1>1, <1>7 DEF JoinQueue, LeaveQueue, AssignGame, BeginLaunch, ResetQueue,
     UnsetActiveGame, NothingToReplace,
     ReplaceOwn, ReplaceOther, Substitute, Cancel, TakeOwnSlot, MarkSlots, PushSlot,
     MarkReplaced, AssignReplacement, ReleaseReplacee
<1>8. CASE \E h \in GameIds :
             \/ CreateGame(h) \/ MatchStarts(h) \/ FreeAllPlayers(h)
             \/ BeginForceEnd(h) \/ ForceEnd(h)
             \/ \E q \in Players : BeginSubstitute(h, q) \/ BeginCancel(h, q)
             \/ \E x, y \in Players : BeginReplace(h, x, y)
  BY <1>1, <1>8 DEF CreateGame, MatchStarts, FreeAllPlayers, BeginForceEnd, ForceEnd,
     BeginSubstitute, BeginCancel, BeginReplace
<1> QED BY <1>2, <1>3, <1>4, <1>5, <1>6, <1>7, <1>8 DEF Next

\* A release begins when the game ends.
LEMMA ReleaseStep ==
  ASSUME TInv, [Next]_vars, NEW g \in GameIds
  PROVE  ToRelease(g)' => ToRelease(g) \/ MatchEnds(g) \/ ForceEnd(g)
<1>1. ASSUME g \in timers' PROVE ToRelease(g)
  BY <1>1, TimersStep DEF ToRelease
<1>2. ASSUME model'.game = g, model'.step \in {"freeAllMedics", "free"}
      PROVE  ToRelease(g) \/ MatchEnds(g)
  BY <1>2, ModelStep DEF ToRelease
<1>3. ASSUME NEW u \in unsets', u.game = g PROVE ToRelease(g) \/ ForceEnd(g)
  BY <1>3, UnsetsStep DEF ToRelease
<1> QED BY <1>1, <1>2, <1>3 DEF ToRelease

LEMMA NextReleaseInv == TInv /\ ReleaseInv /\ [Next]_vars => ReleaseInv'
<1> SUFFICES ASSUME TInv, ReleaseInv, [Next]_vars PROVE ReleaseInv'
  OBVIOUS
<1>1. ASSUME NEW g \in GameIds, ToRelease(g)' PROVE Over(g)'
  <2>1. CASE ToRelease(g)
    BY <2>1, OverStaysOver DEF ReleaseInv
  <2>2. CASE MatchEnds(g)
    <3>1. games' = [games EXCEPT ![g].state = "ended",
                                 ![g].slots = Settled(games[g].slots)]
      BY <2>2 DEF MatchEnds
    <3> QED BY <3>1, GamesUpdate DEF Over, TInv, TypeOK
  <2>3. CASE ForceEnd(g)
    <3>1. games' = [games EXCEPT ![g].state = "interrupted",
                                 ![g].slots = Settled(games[g].slots)]
      BY <2>3 DEF ForceEnd
    <3> QED BY <3>1, GamesUpdate DEF Over, TInv, TypeOK
  <2> QED BY <1>1, <2>1, <2>2, <2>3, ReleaseStep
<1>2. ASSUME NEW u \in unsets' PROVE u.player \in PlayersOf(games'[u.game].slots)
  <2>1. u.game \in GameIds /\ u.player \in PlayersOf(games[u.game].slots)
    BY UnsetsStep DEF ReleaseInv, TInv, TypeOK, Unset
  <2> QED BY <2>1, SlotsKept, KeptPlayers
<1> QED BY <1>1, <1>2 DEF ReleaseInv

\* Nobody is of a game he was not of before, but by its creation or a substitution.
LEMMA BoundStep ==
  ASSUME Overlap = FALSE, TInv, ReplacedInv, RequestInv, [Next]_vars,
         NEW p \in Players, NEW g \in GameIds
  PROVE  Bound(p, g)' => \/ Bound(p, g)
                         \/ CreateGame(g)
                         \/ PushSlot /\ sub.game = g /\ (InProgress(g) \/ ToRelease(g))
<1> SUFFICES ASSUME Bound(p, g)', ~ CreateGame(g)
             PROVE  Bound(p, g) \/ (PushSlot /\ sub.game = g
                                    /\ (InProgress(g) \/ ToRelease(g)))
  OBVIOUS
<1>1. InProgress(g) \/ ToRelease(g)
  <2>1. MatchEnds(g) => InProgress(g)
    BY DEF MatchEnds, InProgress
  <2>2. ForceEnd(g) => InProgress(g)
    BY DEF ForceEnd, RequestInv
  <2> QED BY <2>1, <2>2, ProgressStep, ReleaseStep DEF Bound
<1>2. CASE SameSlots(games[g].slots, games'[g].slots)
  BY <1>1, <1>2, SameSlotsSame DEF Bound
<1>3. CASE MarkReplaced /\ sub.game = g
  <2>1. games[g].slots \in Seq(GameSlot)
    BY DEF TInv, TypeOK, Game
  <2>2. games' = [games EXCEPT ![g].slots =
                    WithStatus(games[g].slots, sub.replacee, "replaced")]
    BY <1>3 DEF MarkReplaced
  <2>3. games'[g].slots = WithStatus(games[g].slots, sub.replacee, "replaced")
    BY <2>2, GamesUpdate DEF TInv, TypeOK
  <2> DEFINE sl == games[g].slots
             new == WithStatus(sl, sub.replacee, "replaced")
  <2>a. DOMAIN new = DOMAIN sl /\ \A i \in DOMAIN sl : new[i].player = sl[i].player
    BY <2>1, WithStatusType DEF SlotStatus
  <2> HIDE DEF new, sl
  <2>b. PlayersOf(new) = PlayersOf(sl)
    BY <2>a DEF PlayersOf
  <2>4. PlayersOf(games'[g].slots) = PlayersOf(games[g].slots)
    BY <2>3, <2>b DEF new, sl
  <2> QED BY <1>1, <2>4 DEF Bound
<1> QED BY <1>1, <1>2, <1>3, SlotsStep

-----------------------------------------------------------------------------
(* The teams *)

\* create() gives every player of the full queue a place of his own.
LEMMA CreatedTeam ==
  ASSUME NEW Q, Cardinality(Q) = Size, NEW sl, DOMAIN sl = 1..Size,
         \A i \in 1..Size :
           sl[i].player \in Q /\ sl[i].place = i /\ sl[i].status = "active",
         \A p \in Q : \E i \in 1..Size : sl[i].player = p
  PROVE  /\ AllPlaces(sl) /\ OneSlotEach(sl)
         /\ \A P, q : OnePlaceEach(sl, P, q)
         /\ PlayersOf(sl) \subseteq Q
<1> DEFINE player == [i \in 1..Size |-> sl[i].player]
<1>1. \A i, j \in 1..Size : player[i] = player[j] => i = j
  <2>1. player \in Surjection(1..Size, Q)
    BY DEF Surjection
  <2>2. IsFiniteSet(1..Size) /\ Cardinality(1..Size) = Size
    <3>1. Size \in Nat \ {0, 1}
      BY GamesAssumption DEF GamesAssumption
    <3>2. 1 \in Int /\ Size \in Int /\ ~ (1 > Size) /\ Size - 1 + 1 = Size
      BY <3>1
    <3> QED BY <3>2, FS_Interval
  <2>3. player \in Injection(1..Size, Q)
    BY <2>1, <2>2, FS_Surjection
  <2> QED BY <2>3 DEF Injection, IsInjective
<1>2. \A i \in 1..Size : Holds(sl, i) /\ sl[i].player = player[i] /\ sl[i].place = i
  BY DEF Holds
<1>4. PlayersOf(sl) \subseteq Q
  BY <1>2 DEF PlayersOf
<1>5. AllPlaces(sl) /\ OneSlotEach(sl)
  BY <1>1, <1>2 DEF AllPlaces, OneSlotEach
<1>6. \A P, q : OnePlaceEach(sl, P, q)
  BY <1>2 DEF OnePlaceEach
<1> QED BY <1>4, <1>5, <1>6

\* The slot of a replacement is one more for the place.
LEMMA PushedTeam ==
  ASSUME NEW sl \in Seq(GameSlot), NEW slot \in GameSlot, slot.status = "active",
         NEW new, new = Append(sl, slot), NEW y, y = slot.player, NEW q, q = slot.place
  PROVE  /\ \A p : HasPlaceIn(new, p) => HasPlaceIn(sl, p) \/ p = y
         /\ PlayersOf(new) \subseteq PlayersOf(sl) \cup {y}
         /\ HoldsPlaceIn(new, y, q)
         /\ \A x : HoldsPlaceIn(sl, x, q) => HoldsPlaceIn(new, x, q)
         /\ AllPlaces(sl) => AllPlaces(new)
         /\ OneSlotEach(sl) /\ ~ HasPlaceIn(sl, y) => OneSlotEach(new)
         /\ \A x : OneSlotEach(sl) /\ OnePlaceEach(sl, {}, q) /\ HoldsPlaceIn(sl, x, q)
                    => OnePlaceEach(new, {x, y}, q)
<1> DEFINE n == Len(sl)
<1>1. DOMAIN sl = 1..n /\ n \in Nat
  BY LenProperties
<1>2. DOMAIN new = 1..(n + 1) /\ new[n + 1] = slot /\ \A i \in 1..n : new[i] = sl[i]
  BY AppendProperties, LenProperties
<1> HIDE DEF n
<1>4. \A i \in DOMAIN new : i = n + 1 \/ i \in DOMAIN sl
  BY <1>1, <1>2
<1>5. \A i \in DOMAIN sl : i \in DOMAIN new /\ new[i] = sl[i] /\ i # n + 1
  BY <1>1, <1>2
<1>6. n + 1 \in DOMAIN new
  BY <1>1, <1>2
<1>7. \A i \in DOMAIN sl : Holds(new, i) <=> Holds(sl, i)
  BY <1>5 DEF Holds
<1>8. Holds(new, n + 1) /\ new[n + 1].player = y /\ new[n + 1].place = q
  BY <1>2 DEF Holds
<1>9. \A p : HasPlaceIn(new, p) => HasPlaceIn(sl, p) \/ p = y
  BY <1>4, <1>5, <1>7, <1>8 DEF HasPlaceIn
<1>10. PlayersOf(new) \subseteq PlayersOf(sl) \cup {y}
  BY <1>4, <1>5, <1>8 DEF PlayersOf
<1>11. HoldsPlaceIn(new, y, q)
  BY <1>6, <1>8 DEF HoldsPlaceIn
<1>12. \A x : HoldsPlaceIn(sl, x, q) => HoldsPlaceIn(new, x, q)
  BY <1>5, <1>7 DEF HoldsPlaceIn
<1>13. AllPlaces(sl) => AllPlaces(new)
  BY <1>5, <1>7 DEF AllPlaces
<1>14. ASSUME OneSlotEach(sl), ~ HasPlaceIn(sl, y) PROVE OneSlotEach(new)
  BY <1>4, <1>5, <1>7, <1>8, <1>14 DEF OneSlotEach, HasPlaceIn
<1>15. ASSUME NEW x, OneSlotEach(sl), OnePlaceEach(sl, {}, q), HoldsPlaceIn(sl, x, q)
       PROVE  OnePlaceEach(new, {x, y}, q)
  <2>1. PICK k \in DOMAIN sl : sl[k].player = x /\ sl[k].place = q /\ Holds(sl, k)
    BY <1>15 DEF HoldsPlaceIn
  <2>2. ASSUME NEW i \in DOMAIN sl, Holds(sl, i), sl[i].place = q PROVE sl[i].player = x
    BY <1>15, <2>1, <2>2 DEF OnePlaceEach
  <2>3. SUFFICES ASSUME NEW i \in DOMAIN new, NEW j \in DOMAIN new,
                        Holds(new, i), Holds(new, j), new[i].place = new[j].place, i # j
                 PROVE  /\ new[i].player \in {x, y} /\ new[j].player \in {x, y}
                        /\ new[i].place = q
    BY DEF OnePlaceEach
  <2>4. CASE i \in DOMAIN sl /\ j \in DOMAIN sl
    BY <1>5, <1>7, <1>15, <2>3, <2>4 DEF OnePlaceEach
  <2>5. CASE i = n + 1 /\ j \in DOMAIN sl
    BY <1>5, <1>7, <1>8, <2>2, <2>3, <2>5
  <2>6. CASE i \in DOMAIN sl /\ j = n + 1
    BY <1>5, <1>7, <1>8, <2>2, <2>3, <2>6
  <2> QED BY <1>4, <2>3, <2>4, <2>5, <2>6
<1> QED BY <1>9, <1>10, <1>11, <1>12, <1>13, <1>14, <1>15

\* The player who is replaced leaves his place to the one who shares it.
LEMMA ReplacedTeam ==
  ASSUME NEW sl \in Seq(GameSlot), NEW x, NEW new,
         new = WithStatus(sl, x, "replaced")
  PROVE  /\ \A p : HasPlaceIn(new, p) => HasPlaceIn(sl, p)
         /\ ~ HasPlaceIn(new, x)
         /\ PlayersOf(new) = PlayersOf(sl)
         /\ OneSlotEach(sl) => OneSlotEach(new)
         /\ \A y, q :
              /\ OneSlotEach(sl) /\ AllPlaces(sl) /\ x # y
              /\ HoldsPlaceIn(sl, x, q) /\ HoldsPlaceIn(sl, y, q)
              => AllPlaces(new)
         /\ \A y, q : OneSlotEach(sl) /\ OnePlaceEach(sl, {x, y}, q)
                         => \A P, r : OnePlaceEach(new, P, r)
<1>1. /\ DOMAIN new = DOMAIN sl
      /\ \A i \in DOMAIN sl : /\ new[i].player = sl[i].player
                              /\ new[i].place = sl[i].place
                              /\ sl[i].player = x => new[i].status = "replaced"
                              /\ sl[i].player # x => new[i].status = sl[i].status
  <2>1. "replaced" \in SlotStatus
    BY DEF SlotStatus
  <2> QED BY <2>1, MarkedSlots
<1>2. \A i \in DOMAIN sl : Holds(new, i) <=> Holds(sl, i) /\ sl[i].player # x
  BY <1>1 DEF Holds
<1>3. \A p : HasPlaceIn(new, p) => HasPlaceIn(sl, p)
  BY <1>1, <1>2 DEF HasPlaceIn
<1>4. ~ HasPlaceIn(new, x)
  BY <1>1, <1>2 DEF HasPlaceIn
<1>5. PlayersOf(new) = PlayersOf(sl)
  BY <1>1 DEF PlayersOf
<1>6. OneSlotEach(sl) => OneSlotEach(new)
  BY <1>1, <1>2 DEF OneSlotEach
<1>7. ASSUME NEW y, NEW q, OneSlotEach(sl), AllPlaces(sl), x # y,
             HoldsPlaceIn(sl, x, q), HoldsPlaceIn(sl, y, q), NEW r \in 1..Size
      PROVE  \E i \in DOMAIN new : new[i].place = r /\ Holds(new, i)
  <2>1. PICK i \in DOMAIN sl : sl[i].place = r /\ Holds(sl, i)
    BY <1>7 DEF AllPlaces
  <2>2. PICK k \in DOMAIN sl : sl[k].player = x /\ sl[k].place = q /\ Holds(sl, k)
    BY <1>7 DEF HoldsPlaceIn
  <2>3. PICK j \in DOMAIN sl : sl[j].player = y /\ sl[j].place = q /\ Holds(sl, j)
    BY <1>7 DEF HoldsPlaceIn
  <2>4. CASE sl[i].player # x
    BY <1>1, <1>2, <2>1, <2>4
  <2>5. CASE sl[i].player = x
    <3>1. i = k
      BY <1>7, <2>1, <2>2, <2>5 DEF OneSlotEach
    <3> QED BY <1>1, <1>2, <1>7, <2>1, <2>2, <2>3, <3>1
  <2> QED BY <2>4, <2>5
<1>8. ASSUME NEW y, NEW q, OneSlotEach(sl), OnePlaceEach(sl, {x, y}, q), NEW P, NEW r
      PROVE  OnePlaceEach(new, P, r)
  BY <1>1, <1>2, <1>8 DEF OnePlaceEach, OneSlotEach
<1>9. \A y, q :
        /\ OneSlotEach(sl) /\ AllPlaces(sl) /\ x # y
        /\ HoldsPlaceIn(sl, x, q) /\ HoldsPlaceIn(sl, y, q)
        => AllPlaces(new)
  BY <1>7 DEF AllPlaces
<1> QED BY <1>3, <1>4, <1>5, <1>6, <1>8, <1>9

-----------------------------------------------------------------------------
(* What a step does to the launch, the queue, the slots and the assignments *)

LEMMA LaunchSteps ==
  ASSUME TInv, [Next]_vars
  PROVE  \/ launch' = launch
         \/ \E p \in Players : AssignGame(p)
         \/ BeginLaunch \/ ResetQueue \/ Restart
         \/ \E g \in GameIds : CreateGame(g)
<1>1. CASE UNCHANGED vars
  BY <1>1 DEF vars
<1>2. CASE \/ \E q \in Players : JoinQueue(q) \/ LeaveQueue(q)
           \/ FreeAllMedics \/ MedicsAreFree \/ EndUpdate
           \/ \E u \in unsets : UnsetActiveGame(u)
           \/ NothingToReplace \/ ReplaceOwn \/ ReplaceOther
           \/ Substitute \/ Cancel \/ TakeOwnSlot \/ PushSlot \/ MarkReplaced
           \/ AssignReplacement \/ ReleaseReplacee
  BY <1>2 DEF JoinQueue, LeaveQueue, FreeAllMedics, MedicsAreFree, EndUpdate,
     UnsetActiveGame, NothingToReplace, ReplaceOwn, ReplaceOther, Substitute, Cancel,
     TakeOwnSlot, MarkSlots, PushSlot, MarkReplaced, AssignReplacement, ReleaseReplacee
<1>3. CASE \E h \in GameIds :
             \/ MatchStarts(h) \/ MatchEnds(h) \/ FreeAllPlayers(h)
             \/ BeginUpdate(h) \/ BeginForceEnd(h) \/ ForceEnd(h)
             \/ \E q \in Players : BeginSubstitute(h, q) \/ BeginCancel(h, q)
             \/ \E x, y \in Players : BeginReplace(h, x, y)
  BY <1>3 DEF MatchStarts, MatchEnds, FreeAllPlayers, BeginUpdate, BeginForceEnd,
     ForceEnd, BeginSubstitute, BeginCancel, BeginReplace
<1> QED BY <1>1, <1>2, <1>3 DEF Next

LEMMA QueueSteps ==
  ASSUME TInv, [Next]_vars
  PROVE  \/ queue' = queue
         \/ \E p \in Players : JoinQueue(p) \/ LeaveQueue(p)
         \/ MarkReplaced \/ ResetQueue \/ Restart
<1>1. CASE UNCHANGED vars
  BY <1>1 DEF vars
<1>2. CASE \/ \E q \in Players : AssignGame(q)
           \/ BeginLaunch
           \/ FreeAllMedics \/ MedicsAreFree \/ EndUpdate
           \/ \E u \in unsets : UnsetActiveGame(u)
           \/ NothingToReplace \/ ReplaceOwn \/ ReplaceOther
           \/ Substitute \/ Cancel \/ TakeOwnSlot \/ PushSlot
           \/ AssignReplacement \/ ReleaseReplacee
  BY <1>2 DEF AssignGame, BeginLaunch, FreeAllMedics, MedicsAreFree, EndUpdate,
     UnsetActiveGame, NothingToReplace, ReplaceOwn, ReplaceOther, Substitute, Cancel,
     TakeOwnSlot, MarkSlots, PushSlot, AssignReplacement, ReleaseReplacee
<1>3. CASE \E h \in GameIds :
             \/ CreateGame(h) \/ MatchStarts(h) \/ MatchEnds(h) \/ FreeAllPlayers(h)
             \/ BeginUpdate(h) \/ BeginForceEnd(h) \/ ForceEnd(h)
             \/ \E q \in Players : BeginSubstitute(h, q) \/ BeginCancel(h, q)
             \/ \E x, y \in Players : BeginReplace(h, x, y)
  BY <1>3 DEF CreateGame, MatchStarts, MatchEnds, FreeAllPlayers, BeginUpdate,
     BeginForceEnd, ForceEnd, BeginSubstitute, BeginCancel, BeginReplace
<1> QED BY <1>1, <1>2, <1>3 DEF Next

\* An assignment is lost to a release, or to the substitution of the player.
LEMMA UnassignStep ==
  ASSUME TInv, [Next]_vars, NEW p \in Players
  PROVE  \/ activeGame'[p] = activeGame[p]
         \/ /\ launch.step = "assign" /\ p \in launch.pending
            /\ activeGame'[p] = launch.game
         \/ /\ AssignReplacement /\ p = sub.replacement
            /\ activeGame'[p] = sub.game
         \/ ReleaseReplacee /\ p = sub.replacee
         \/ \E u \in unsets : UnsetActiveGame(u) /\ p = u.player
         \/ Restart
<1> USE DEF TInv, TypeOK, dbVars
<1>1. CASE UNCHANGED activeGame
  BY <1>1
<1>2. ASSUME NEW q \in Players, AssignGame(q)
      PROVE  \/ activeGame'[p] = activeGame[p]
             \/ /\ launch.step = "assign" /\ p \in launch.pending
                /\ activeGame'[p] = launch.game
  BY <1>2 DEF AssignGame
<1>3. CASE AssignReplacement
  BY <1>3 DEF AssignReplacement
<1>4. CASE ReleaseReplacee
  BY <1>4 DEF ReleaseReplacee
<1>5. ASSUME NEW u \in unsets, UnsetActiveGame(u)
      PROVE  activeGame'[p] = activeGame[p] \/ p = u.player
  BY <1>5 DEF UnsetActiveGame
<1>6. CASE UNCHANGED vars
  BY <1>1, <1>6 DEF vars
<1>7. CASE \/ \E q \in Players : JoinQueue(q) \/ LeaveQueue(q)
           \/ BeginLaunch \/ ResetQueue \/ FreeAllMedics \/ MedicsAreFree \/ EndUpdate
           \/ NothingToReplace \/ ReplaceOwn \/ ReplaceOther
           \/ Substitute \/ Cancel \/ TakeOwnSlot \/ PushSlot \/ MarkReplaced
  BY <1>1, <1>7 DEF JoinQueue, LeaveQueue, BeginLaunch, ResetQueue, FreeAllMedics,
     MedicsAreFree, EndUpdate, NothingToReplace, ReplaceOwn, ReplaceOther, Substitute,
     Cancel, TakeOwnSlot, MarkSlots, PushSlot, MarkReplaced
<1>8. CASE \E h \in GameIds :
             \/ CreateGame(h) \/ MatchStarts(h) \/ MatchEnds(h) \/ FreeAllPlayers(h)
             \/ BeginUpdate(h) \/ BeginForceEnd(h) \/ ForceEnd(h)
             \/ \E q \in Players : BeginSubstitute(h, q) \/ BeginCancel(h, q)
             \/ \E x, y \in Players : BeginReplace(h, x, y)
  BY <1>1, <1>8 DEF CreateGame, MatchStarts, MatchEnds, FreeAllPlayers, BeginUpdate,
     BeginForceEnd, ForceEnd, BeginSubstitute, BeginCancel, BeginReplace
<1> QED BY <1>2, <1>3, <1>4, <1>5, <1>6, <1>7, <1>8 DEF Next

LEMMA CreateGameDoes ==
  ASSUME TInv, QueueInv, NEW g \in GameIds, CreateGame(g)
  PROVE  /\ launch.step = "getWinner"
         /\ launch'.step = "assign" /\ launch'.game = g /\ launch'.pending = queue
         /\ UNCHANGED <<activeGame, queue, sub, model, forcing, timers, unsets>>
         /\ \A h \in GameIds : h # g => games'[h] = games[h]
         /\ ~ InProgress(g) /\ ~ Over(g)
         /\ AllPlaces(games'[g].slots) /\ OneSlotEach(games'[g].slots)
         /\ \A P, q : OnePlaceEach(games'[g].slots, P, q)
         /\ PlayersOf(games'[g].slots) \subseteq queue
<1>1. PICK player \in [1..Size -> queue] :
        /\ \A p \in queue : \E i \in 1..Size : player[i] = p
        /\ games' = [games EXCEPT ![g] =
             [state |-> "launching",
              slots |-> [i \in 1..Size |->
                [player |-> player[i], place |-> i, status |-> "active"]]]]
  BY DEF CreateGame
<1> DEFINE sl == [i \in 1..Size |->
                   [player |-> player[i], place |-> i, status |-> "active"]]
<1>2. games'[g].slots = sl /\ \A h \in GameIds : h # g => games'[h] = games[h]
  BY <1>1 DEF TInv, TypeOK
<1>3. Cardinality(queue) = Size
  BY DEF CreateGame, QueueInv
<1>4. /\ AllPlaces(sl) /\ OneSlotEach(sl)
      /\ \A P, q : OnePlaceEach(sl, P, q)
      /\ PlayersOf(sl) \subseteq queue
  <2>1. DOMAIN sl = 1..Size
    OBVIOUS
  <2>2. \A i \in 1..Size :
          sl[i].player \in queue /\ sl[i].place = i /\ sl[i].status = "active"
    OBVIOUS
  <2>3. \A p \in queue : \E i \in 1..Size : sl[i].player = p
    BY <1>1
  <2> HIDE DEF sl
  <2> QED BY <1>3, <2>1, <2>2, <2>3, CreatedTeam
<1>5. games[g].state = "none"
  BY DEF CreateGame, NotCreated
<1>6. /\ launch.step = "getWinner"
      /\ launch' = [step |-> "assign", game |-> g, pending |-> queue]
      /\ UNCHANGED <<activeGame, queue, sub, model, forcing, timers, unsets>>
  BY DEF CreateGame
<1>7. ~ InProgress(g) /\ ~ Over(g)
  BY <1>5 DEF InProgress, Over
<1> HIDE DEF sl
<1> QED BY <1>2, <1>4, <1>6, <1>7

LEMMA PushSlotDoes ==
  ASSUME TInv, PushSlot
  PROVE  /\ \A h \in GameIds : h # sub.game => games'[h] = games[h]
         /\ games'[sub.game].state = games[sub.game].state
         /\ games[sub.game].slots \in Seq(GameSlot)
         /\ \E slot \in GameSlot :
              /\ slot.player = sub.replacement /\ slot.place = sub.place
              /\ slot.status = "active"
              /\ games'[sub.game].slots = Append(games[sub.game].slots, slot)
         /\ UNCHANGED <<activeGame, queue>>
<1> DEFINE slot == [player |-> sub.replacement, place |-> sub.place, status |-> "active"]
           new  == Append(games[sub.game].slots, slot)
<1>1. sub.game \in GameIds /\ games[sub.game].slots \in Seq(GameSlot)
  BY DEF PushSlot, TInv, TypeOK, Reads, Game
<1>4. /\ slot \in GameSlot /\ slot.player = sub.replacement /\ slot.place = sub.place
      /\ slot.status = "active"
  BY DEF PushSlot, TInv, Reads, GameSlot, SlotStatus
<1>2. games' = [games EXCEPT ![sub.game].slots = new] /\ UNCHANGED <<activeGame, queue>>
  BY DEF PushSlot
<1> HIDE DEF new
<1>3. /\ \A h \in GameIds : h # sub.game => games'[h] = games[h]
      /\ games'[sub.game].state = games[sub.game].state
      /\ games'[sub.game].slots = new
  BY <1>1, <1>2, GamesUpdate DEF TInv, TypeOK
<1> HIDE DEF slot
<1> QED BY <1>1, <1>2, <1>3, <1>4 DEF new

LEMMA MarkReplacedDoes ==
  ASSUME TInv, MarkReplaced
  PROVE  /\ \A h \in GameIds : h # sub.game => games'[h] = games[h]
         /\ games'[sub.game].state = games[sub.game].state
         /\ games'[sub.game].slots =
              WithStatus(games[sub.game].slots, sub.replacee, "replaced")
         /\ UNCHANGED activeGame
         /\ queue' = IF launch.step = "idle" THEN queue \ {sub.replacement} ELSE queue
<1> DEFINE new == WithStatus(games[sub.game].slots, sub.replacee, "replaced")
<1>1. sub.game \in GameIds
  BY DEF MarkReplaced, TInv, Reads
<1>2. games' = [games EXCEPT ![sub.game].slots = new] /\ UNCHANGED activeGame
  BY DEF MarkReplaced
<1> HIDE DEF new
<1>3. /\ \A h \in GameIds : h # sub.game => games'[h] = games[h]
      /\ games'[sub.game].state = games[sub.game].state
      /\ games'[sub.game].slots = new
  BY <1>1, <1>2, GamesUpdate DEF TInv, TypeOK
<1> QED BY <1>2, <1>3 DEF new, MarkReplaced

\* Who has a place in a game in progress had it, or gets it now.
LEMMA PlaceStep ==
  ASSUME TInv, ReplacedInv, QueueInv, [Next]_vars, NEW g \in GameIds, NEW p \in Players,
         InProgress(g)', HasPlace(g, p)'
  PROVE  \/ InProgress(g) /\ HasPlace(g, p)
         \/ CreateGame(g) /\ p \in queue
         \/ PushSlot /\ sub.game = g /\ p = sub.replacement
<1>0. games[g].slots \in Seq(GameSlot) /\ HasPlaceIn(games'[g].slots, p)
  BY DEF TInv, TypeOK, Game, HasPlace, HasPlaceIn
<1>1. CASE CreateGame(g)
  <2>1. PlayersOf(games'[g].slots) \subseteq queue
    BY <1>1, CreateGameDoes
  <2> QED BY <1>0, <1>1, <2>1 DEF HasPlaceIn, PlayersOf
<1>2. CASE ~ CreateGame(g) /\ SameSlots(games[g].slots, games'[g].slots)
  <2>1. HasPlaceIn(games[g].slots, p)
    BY <1>0, <1>2, SameSlotsSame
  <2> QED BY <1>2, <2>1, ProgressStep DEF HasPlace, HasPlaceIn
<1>3. CASE PushSlot /\ sub.game = g
  <2>1. HasPlaceIn(games[g].slots, p) \/ p = sub.replacement
    BY <1>0, <1>3, PushSlotDoes, ReplacementSteps, PushedTeam
  <2>2. InProgress(g)
    BY <1>3, PushSlotDoes DEF InProgress
  <2> QED BY <1>3, <2>1, <2>2 DEF HasPlace, HasPlaceIn
<1>4. CASE MarkReplaced /\ sub.game = g
  <2>2. HasPlaceIn(games[g].slots, p)
    BY <1>0, <1>4, MarkReplacedDoes, ReplacedTeam
  <2>3. InProgress(g)
    BY <1>4, MarkReplacedDoes DEF InProgress
  <2> QED BY <2>2, <2>3 DEF HasPlace, HasPlaceIn
<1> QED BY <1>1, <1>2, <1>3, <1>4, SlotsStep

\* So is who is of a game.
LEMMA BoundSteps ==
  ASSUME Overlap = FALSE, TInv, ReplacedInv, RequestInv, ReleaseInv, QueueInv, [Next]_vars,
         NEW p \in Players, NEW g \in GameIds, Bound(p, g)'
  PROVE  \/ Bound(p, g)
         \/ CreateGame(g) /\ p \in queue
         \/ PushSlot /\ sub.game = g /\ p = sub.replacement
<1>1. CASE CreateGame(g)
  BY <1>1, CreateGameDoes DEF Bound
<1>2. CASE PushSlot /\ sub.game = g /\ (InProgress(g) \/ ToRelease(g))
  <2>1. games[g].slots \in Seq(GameSlot)
    BY DEF TInv, TypeOK, Game
  <2>a. p \in PlayersOf(games'[g].slots)
    BY DEF Bound
  <2>2. p \in PlayersOf(games[g].slots) \/ p = sub.replacement
    BY <1>2, <2>a, <2>1, PushSlotDoes, ReplacementSteps, PushedTeam
  <2> QED BY <1>2, <2>2 DEF Bound
<1> QED BY <1>1, <1>2, BoundStep

-----------------------------------------------------------------------------
(* Every step keeps one thing at a time *)

Serial == TInv /\ ReplacedInv /\ RequestInv /\ ReleaseInv /\ SerialInv

LEMMA BeginSubDoes ==
  ASSUME NEW g \in GameIds, NEW p \in Players, BeginSubstitute(g, p) \/ BeginCancel(g, p)
  PROVE  /\ sub.step = "idle" /\ sub'.step \in {"substitute", "cancel"} /\ sub'.game = g
         /\ sub'.replacee = p /\ sub'.replacement = NoPlayer
         /\ UNCHANGED <<games, activeGame, queue, launch, model, forcing, timers, unsets>>
         /\ InProgress(g) /\ HasPlace(g, p)
<1>1. HasPlace(g, p)
  BY DEF BeginSubstitute, BeginCancel, FirstSlotHas, HasPlace, Holds
<1> QED BY <1>1 DEF BeginSubstitute, BeginCancel, NoSubstitution, dbVars

LEMMA BeginReplaceDoes ==
  ASSUME Overlap = FALSE, RequestInv, NEW g \in GameIds, NEW x \in Players, NEW y \in Players,
         BeginReplace(g, x, y)
  PROVE  /\ sub.step = "idle" /\ sub'.step = "getGame" /\ sub'.game = g
         /\ sub'.replacee = x /\ sub'.replacement = y
         /\ UNCHANGED <<games, activeGame, queue, launch, model, forcing, timers, unsets>>
         /\ InProgress(g) /\ HasPlace(g, x)
         /\ x = y \/ activeGame[y] = NoGame
         /\ y \in queue => launch.step = "idle"
         /\ \A h \in GameIds : h # g => ~ Attached(y, h)
<1>1. PICK i \in DOMAIN games[g].slots :
        /\ games[g].slots[i].player = x
        /\ games[g].slots[i].status = "waiting for substitute"
  BY DEF BeginReplace, WaitingSlots
<1>2. InProgress(g) /\ HasPlace(g, x)
  BY <1>1 DEF RequestInv, RequestsEndWithGame, HasPlace, Holds
<1> QED BY <1>2 DEF BeginReplace, NoSubstitution, dbVars, Unattached

LEMMA NextQueueInv ==
  ASSUME Overlap = FALSE, Serial, [Next]_vars
  PROVE  QueueInv'
<1> USE DEF Serial, SerialInv
<1>0. /\ launch \in Launch /\ queue \subseteq Players /\ NoPlayer \notin Players
      /\ NoPlayer \notin queue
  BY GamesAssumption DEF GamesAssumption, TInv, TypeOK
<1>1. ASSUME NEW p \in Players, AssignGame(p)
      PROVE  /\ launch.step = "assign" /\ launch'.step = "assign"
             /\ launch'.game = launch.game /\ launch'.pending \subseteq launch.pending
             /\ UNCHANGED <<queue, sub>>
  BY <1>0, <1>1 DEF AssignGame, Launch
<1>2. BeginLaunch => /\ launch'.step = "getWinner" /\ launch'.game = NoGame
                     /\ launch'.pending = {} /\ sub.replacement \notin queue
                     /\ Cardinality(queue) = Size /\ UNCHANGED <<queue, sub>>
  BY DEF BeginLaunch, NoLaunch
<1>3. ResetQueue \/ Restart => launch' = NoLaunch
  BY DEF ResetQueue, Restart
<1>4. NoLaunch.step = "idle" /\ NoLaunch.game = NoGame /\ NoLaunch.pending = {}
  BY DEF NoLaunch
<1>5. launch'.step # "assign" => launch'.game = NoGame /\ launch'.pending = {}
  BY <1>1, <1>2, <1>3, <1>4, CreateGameDoes, LaunchSteps DEF QueueInv
<1>6. ASSUME NEW p \in Players, JoinQueue(p) \/ LeaveQueue(p)
      PROVE  launch.step = "idle" /\ launch' = launch
  BY <1>6 DEF JoinQueue, LeaveQueue
<1>7. MarkReplaced => /\ launch' = launch /\ sub'.replacement = sub.replacement
                      /\ launch.step # "idle" => queue' = queue
  BY MarkReplacedDoes, ReplacementSteps
<1>8. launch'.step # "idle" => queue' = queue
  BY <1>3, <1>4, <1>6, <1>7, QueueSteps
<1>9. launch'.pending \subseteq queue'
  <2>1. CASE launch'.step # "idle"
    BY <1>1, <1>2, <1>3, <1>4, <1>8, <2>1, CreateGameDoes, LaunchSteps DEF QueueInv
  <2>2. CASE launch'.step = "idle"
    BY <1>5, <2>2
  <2> QED BY <2>1, <2>2
<1>10. ASSUME launch'.step # "idle" PROVE sub'.replacement \notin queue'
  <2>1. queue' = queue
    BY <1>8, <1>10
  <2>2. CASE launch' = launch
    <3>1. ASSUME NEW g \in GameIds, NEW p \in Players,
                 BeginSubstitute(g, p) \/ BeginCancel(g, p)
          PROVE  sub'.replacement \notin queue
      BY <1>0, <3>1, BeginSubDoes
    <3>2. ASSUME NEW g \in GameIds, NEW x \in Players, NEW y \in Players,
                 BeginReplace(g, x, y)
          PROVE  sub'.replacement \notin queue
      BY <1>10, <2>2, <3>2, BeginReplaceDoes
    <3>3. sub' = NoSubstitution => sub'.replacement \notin queue
      BY <1>0 DEF NoSubstitution
    <3> QED BY <1>10, <2>1, <2>2, <3>1, <3>2, <3>3, SubSteps, ReplaceOwnDoes,
               ReplaceOtherDoes, ReplacementSteps DEF QueueInv
  <2> QED BY <1>1, <1>2, <1>3, <1>4, <1>10, <2>1, <2>2, CreateGameDoes, LaunchSteps
          DEF QueueInv
<1>11. ASSUME launch'.step = "getWinner" PROVE Cardinality(queue') = Size
  BY <1>1, <1>2, <1>3, <1>4, <1>8, <1>11, CreateGameDoes, LaunchSteps DEF QueueInv
<1> QED BY <1>5, <1>9, <1>10, <1>11 DEF QueueInv

\* Who has no game and is in no operation that gives him one has no place in a game.
LEMMA EnterAlone ==
  ASSUME Serial, NEW p \in Players, activeGame[p] = NoGame,
         p \in queue => launch.step = "idle",
         sub.replacement = p => sub.step \notin {"mark", "assign"}, NEW g \in GameIds
  PROVE  /\ ~ (InProgress(g) /\ HasPlace(g, p))
         /\ ~ Attached(p, g) => ~ Bound(p, g)
<1> USE DEF Serial, SerialInv
<1>1. activeGame[p] # g
  BY GamesAssumption DEF GamesAssumption
<1>2. p \notin launch.pending
  BY DEF QueueInv
<1>3. ~ (InProgress(g) /\ HasPlace(g, p))
  BY <1>1, <1>2 DEF PlayingIsAssigned
<1>4. InProgress(g) \/ ToRelease(g) => ~ Released(g)
  BY DEF InProgress, ToRelease, Released, Over
<1> QED BY <1>3, <1>4 DEF Attached, Bound

LEMMA NextBoundInv ==
  ASSUME Overlap = FALSE, Serial, [Next]_vars, ~ Restart
  PROVE  BoundInv'
<1> USE DEF Serial, SerialInv
<1>0. /\ queue \subseteq Players /\ NoPlayer \notin Players /\ NoGame \notin GameIds
  BY GamesAssumption DEF GamesAssumption, TInv, TypeOK
<1>1. ASSUME NEW p \in Players, NEW g \in GameIds, Bound(p, g)'
      PROVE  \/ Bound(p, g)
             \/ CreateGame(g) /\ p \in queue
             \/ PushSlot /\ sub.game = g /\ p = sub.replacement
  BY <1>1, BoundSteps
\* Whoever is in a full queue is of no game yet.
<1>2. ASSUME NEW p \in queue, NEW h \in GameIds, NEW g \in GameIds, CreateGame(g)
      PROVE  ~ Bound(p, h)
  <2>1. launch.game = NoGame /\ sub.replacement # p
    BY <1>2, CreateGameDoes DEF QueueInv
  <2> QED BY <1>0, <2>1 DEF BoundInv
<1>3. ASSUME NEW g \in GameIds, CreateGame(g), PushSlot PROVE FALSE
  BY <1>3, CreateGameDoes, ReplacementSteps
<1>4. ASSUME NEW p \in Players, NEW g \in GameIds, NEW h \in GameIds,
             Bound(p, g)', Bound(p, h)'
      PROVE  g = h
  <2>1. CASE Bound(p, g) /\ Bound(p, h)
    BY <2>1 DEF BoundInv
  <2>2. ASSUME NEW a \in GameIds, NEW b \in GameIds, CreateGame(a), p \in queue, Bound(p, b)
        PROVE  FALSE
    BY <1>2, <2>2
  <2>3. ASSUME NEW a \in GameIds, NEW b \in GameIds, PushSlot, sub.game = a,
               p = sub.replacement, Bound(p, b)
        PROVE  a = b
    BY <2>3 DEF BoundInv
  <2>4. CreateGame(g) /\ CreateGame(h) => g = h
    BY CreateGameDoes
  <2> QED BY <1>1, <1>3, <1>4, <2>1, <2>2, <2>3, <2>4
<1>5. ASSUME NEW p \in queue', NEW g \in GameIds, Bound(p, g)'
      PROVE  \/ launch'.game = g
             \/ sub'.step = "mark" /\ sub'.game = g /\ sub'.replacement = p
  <2>1. CASE p \notin queue
    <3>a. ~ MarkReplaced /\ ~ ResetQueue /\ queue' # queue
      BY <1>5, <2>1, MarkReplacedDoes DEF ResetQueue
    <3>1. PICK q \in Players : JoinQueue(q) \/ LeaveQueue(q)
      BY <3>a, QueueSteps
    <3>2. JoinQueue(q) /\ p = q
      BY <1>5, <2>1, <3>1 DEF JoinQueue, LeaveQueue
    <3>3. /\ activeGame[p] = NoGame /\ launch.step = "idle" /\ sub.replacement # p
          /\ ~ Attached(p, g)
          /\ UNCHANGED <<games, sub, model, timers, unsets>>
      BY <3>2 DEF JoinQueue, Unattached, dbVars
    <3>4. Bound(p, g)
      BY <1>5, <3>3 DEF Bound, InProgress, ToRelease
    <3> QED BY <3>2, <3>3, <3>4, EnterAlone
  <2>2. CASE p \in queue /\ Bound(p, g) /\ launch.game = g
    <3>1. launch.step = "assign"
      BY <1>0, <2>2 DEF QueueInv
    <3>2. ~ ResetQueue
      BY <1>5 DEF ResetQueue
    <3>3. ASSUME NEW q \in Players, AssignGame(q) PROVE launch'.game = launch.game
      BY <3>3 DEF AssignGame, TInv, TypeOK, Launch
    <3>4. ~ BeginLaunch
      BY <3>1 DEF BeginLaunch
    <3> QED BY <2>2, <3>1, <3>2, <3>3, <3>4, LaunchSteps, CreateGameDoes
  <2>3. CASE p \in queue /\ sub.step = "mark" /\ sub.game = g /\ sub.replacement = p
    <3>1. ~ MarkReplaced
      BY <1>5, <2>3, MarkReplacedDoes DEF QueueInv
    <3>2. sub' = sub
      BY <2>3, <3>1, SubSteps, BeginSubDoes, BeginReplaceDoes, ReplacementSteps
      DEF ReplaceOwn, ReplaceOther
    <3> QED BY <2>3, <3>2
  <2>4. CASE CreateGame(g)
    BY <2>4, CreateGameDoes
  <2>5. CASE PushSlot /\ sub.game = g /\ p = sub.replacement
    BY <2>5, ReplacementSteps
  <2>6. p \in queue => p \in Players
    BY <1>0
  <2> QED BY <1>1, <1>5, <2>1, <2>2, <2>3, <2>4, <2>5, <2>6 DEF BoundInv
<1>6. ASSUME NEW p \in Players, NEW g \in GameIds, sub'.replacement = p, Bound(p, g)'
      PROVE  sub'.game = g
  <2>1. CASE sub'.game = sub.game /\ sub'.replacement = sub.replacement
    <3>1. ~ (CreateGame(g) /\ p \in queue)
      BY <1>6, <2>1, CreateGameDoes DEF QueueInv
    <3> QED BY <1>1, <1>6, <2>1, <3>1 DEF BoundInv
  <2>2. sub' # NoSubstitution
    BY <1>0, <1>6 DEF NoSubstitution
  <2>3. ASSUME NEW h \in GameIds, NEW q \in Players, BeginSubstitute(h, q) \/ BeginCancel(h, q)
        PROVE  FALSE
    BY <1>0, <1>6, <2>3, BeginSubDoes
  <2>4. ASSUME NEW h \in GameIds, NEW x \in Players, NEW y \in Players, BeginReplace(h, x, y)
        PROVE  sub'.game = g
    <3>1. /\ sub.step = "idle" /\ sub'.game = h /\ y = p
          /\ UNCHANGED <<games, model, timers, unsets>>
          /\ x = y \/ activeGame[y] = NoGame
          /\ y \in queue => launch.step = "idle"
          /\ h # g => ~ Attached(y, g)
          /\ InProgress(h) /\ HasPlace(h, x)
      BY <1>6, <2>4, BeginReplaceDoes
    <3>2. Bound(p, g)
      BY <1>6, <3>1 DEF Bound, InProgress, ToRelease
    <3>3. CASE x = y
      <4>1. Bound(p, h)
        BY <3>1, <3>3 DEF Bound, HasPlace, PlayersOf
      <4> QED BY <3>1, <3>2, <4>1 DEF BoundInv
    <3>4. CASE activeGame[y] = NoGame
      BY <3>1, <3>2, <3>4, EnterAlone
    <3> QED BY <3>1, <3>3, <3>4
  <2>5. sub' = sub => sub'.game = g
    BY <2>1
  <2> QED BY <2>1, <2>2, <2>3, <2>4, <2>5, SubSteps, ReplaceOwnDoes, ReplaceOtherDoes,
             ReplacementSteps
<1> QED BY <1>4, <1>5, <1>6 DEF BoundInv

LEMMA NextSubInv ==
  ASSUME Overlap = FALSE, Serial, [Next]_vars, ~ Restart
  PROVE  SubInv'
<1> USE DEF Serial, SerialInv
\* Another step leaves the slots of the game alone.
<1>1. ASSUME sub.step # "idle", ~ PushSlot, ~ MarkReplaced
      PROVE  /\ sub.game \in GameIds
             /\ PlayersOf(games'[sub.game].slots) = PlayersOf(games[sub.game].slots)
             /\ \A p : HasPlaceIn(games'[sub.game].slots, p)
                         <=> HasPlaceIn(games[sub.game].slots, p)
             /\ \A p, q : HoldsPlaceIn(games'[sub.game].slots, p, q)
                            <=> HoldsPlaceIn(games[sub.game].slots, p, q)
  <2>1. sub.game \in GameIds
    BY <1>1 DEF TInv, Reads
  <2>2. PICK g \in GameIds : g = sub.game
    BY <2>1
  <2>3. ~ CreateGame(g)
    BY <1>1, <2>2, CreateGameDoes DEF RequestInv
  <2>4. SameSlots(games[g].slots, games'[g].slots)
    BY <1>1, <2>3, SlotsStep
  <2> QED BY <2>1, <2>2, <2>4, SameSlotsSame
<1> USE DEF HasPlace
<1>2. CASE sub' = sub
  <2>1. ~ PushSlot /\ ~ MarkReplaced
    BY <1>2, ReplacementSteps
  <2> QED BY <1>1, <1>2, <2>1 DEF SubInv, HasPlaceIn
<1>3. CASE sub' = NoSubstitution
  BY <1>3 DEF SubInv, NoSubstitution
<1>4. ASSUME NEW g \in GameIds, NEW p \in Players, BeginSubstitute(g, p) \/ BeginCancel(g, p)
      PROVE  SubInv'
  BY <1>4, BeginSubDoes DEF SubInv
<1>5. ASSUME NEW g \in GameIds, NEW x \in Players, NEW y \in Players, BeginReplace(g, x, y)
      PROVE  SubInv'
  <2>1. /\ sub.step = "idle" /\ sub'.step = "getGame" /\ sub'.game = g
        /\ sub'.replacee = x /\ sub'.replacement = y /\ UNCHANGED games
        /\ x = y \/ activeGame[y] = NoGame
        /\ y \in queue => launch.step = "idle"
        /\ InProgress(g)
    <3>1. RequestInv
      OBVIOUS
    <3> QED BY ONLY Overlap = FALSE, <1>5, <3>1, BeginReplaceDoes
  <2>2. x # y => ~ HasPlace(g, y)
    BY <2>1, EnterAlone
  <2> QED BY <2>1, <2>2 DEF SubInv
<1>6. CASE ReplaceOwn
  <2>1. HasPlace(sub.game, sub.replacee)
    BY <1>6 DEF ReplaceOwn, WaitingSlots, Holds
  <2> QED BY <1>6, <2>1, ReplaceOwnDoes DEF SubInv
<1>7. CASE ReplaceOther
  <2>1. PICK i \in WaitingSlots(sub.game, sub.replacee) :
          sub'.place = games[sub.game].slots[i].place
    BY <1>7, ReplaceOtherDoes
  <2>2. HoldsPlaceIn(games[sub.game].slots, sub.replacee, sub'.place)
    BY <2>1 DEF WaitingSlots, Holds, HoldsPlaceIn
  <2>3. ~ HasPlace(sub.game, sub.replacement)
    BY <1>7, ReplaceOtherDoes DEF ReplaceOther, SubInv
  <2> QED BY <1>7, <2>2, <2>3, ReplaceOtherDoes DEF SubInv
<1>8. CASE PushSlot
  <2>1. games[sub.game].slots \in Seq(GameSlot)
    BY <1>8, ReplacementSteps DEF TInv, TypeOK, Game
  <2>a. PICK sl, new, x, y, q :
          /\ sl = games[sub.game].slots /\ new = games'[sub.game].slots
          /\ x = sub.replacee /\ y = sub.replacement /\ q = sub.place
    OBVIOUS
  <2>b. /\ sl \in Seq(GameSlot)
        /\ \E slot \in GameSlot : /\ slot.player = y /\ slot.place = q
                                 /\ slot.status = "active" /\ new = Append(sl, slot)
    BY <1>8, <2>1, <2>a, PushSlotDoes, ReplacementSteps
  <2>c. HoldsPlaceIn(new, y, q) /\ (HoldsPlaceIn(sl, x, q) => HoldsPlaceIn(new, x, q))
    BY <2>b, PushedTeam
  <2>2. HoldsPlaceIn(games'[sub.game].slots, sub.replacement, sub.place)
    BY <2>a, <2>c
  <2>3. HoldsPlaceIn(games[sub.game].slots, sub.replacee, sub.place)
    BY <1>8, ReplacementSteps DEF SubInv
  <2>4. HoldsPlaceIn(games'[sub.game].slots, sub.replacee, sub.place)
    BY <2>3, <2>a, <2>c
  <2>5. sub.replacee # sub.replacement
    BY <1>8, ReplacementSteps DEF SubInv
  <2> QED BY <1>8, <2>2, <2>4, <2>5, ReplacementSteps DEF SubInv
<1>9. CASE MarkReplaced
  <2>1. games[sub.game].slots \in Seq(GameSlot)
    BY <1>9, ReplacementSteps DEF TInv, TypeOK, Game
  <2>2. /\ ~ HasPlaceIn(games'[sub.game].slots, sub.replacee)
        /\ PlayersOf(games'[sub.game].slots) = PlayersOf(games[sub.game].slots)
    BY <1>9, <2>1, MarkReplacedDoes, ReplacedTeam
  <2>3. /\ sub.replacee # sub.replacement
        /\ HoldsPlaceIn(games[sub.game].slots, sub.replacee, sub.place)
    BY <1>9, ReplacementSteps DEF SubInv
  <2>4. sub.replacee \in PlayersOf(games[sub.game].slots)
    BY <2>3 DEF HoldsPlaceIn, PlayersOf
  <2> QED BY <1>9, <2>2, <2>3, <2>4, ReplacementSteps DEF SubInv, HasPlaceIn
<1>10. CASE AssignReplacement
  <2>1. UNCHANGED games
    BY <1>10 DEF AssignReplacement
  <2> QED BY <1>10, <2>1, ReplacementSteps DEF SubInv
<1> QED BY <1>2, <1>3, <1>4, <1>5, <1>6, <1>7, <1>8, <1>9, <1>10, SubSteps

LEMMA NextTeamInv ==
  ASSUME Overlap = FALSE, Serial, [Next]_vars, ~ Restart
  PROVE  TeamInv'
<1> USE DEF Serial, SerialInv
<1> DEFINE Others(g) == IF sub'.step = "mark" /\ sub'.game = g
                        THEN {sub'.replacee, sub'.replacement} ELSE {}
<1> SUFFICES ASSUME NEW g \in GameIds, InProgress(g)'
             PROVE  /\ AllPlaces(games'[g].slots)
                    /\ OneSlotEach(games'[g].slots)
                    /\ OnePlaceEach(games'[g].slots, Others(g), sub'.place)
  BY DEF TeamInv, Sharing
<1>0. games[g].slots \in Seq(GameSlot)
  BY DEF TInv, TypeOK, Game
<1>a. ASSUME NEW sl, NEW P, NEW q, OnePlaceEach(sl, {}, q)
      PROVE  \A r : OnePlaceEach(sl, P, r)
  BY <1>a DEF OnePlaceEach
<1>1. CASE CreateGame(g)
  <2>1. \A P, q : OnePlaceEach(games'[g].slots, P, q)
    BY <1>1, CreateGameDoes
  <2> HIDE DEF Others
  <2> QED BY <1>1, <2>1, CreateGameDoes
<1>2. CASE /\ SameSlots(games[g].slots, games'[g].slots) /\ ~ CreateGame(g)
           /\ ~ (MarkReplaced /\ sub.game = g)
  <2>1. /\ AllPlaces(games[g].slots) /\ OneSlotEach(games[g].slots)
        /\ OnePlaceEach(games[g].slots, Sharing(g), sub.place)
    BY <1>2, ProgressStep DEF TeamInv
  <2>2. /\ AllPlaces(games'[g].slots) /\ OneSlotEach(games'[g].slots)
        /\ OnePlaceEach(games'[g].slots, Sharing(g), sub.place)
    BY <1>2, <2>1, SameSlotsSame
  <2>3. CASE sub.step = "mark" /\ sub.game = g /\ sub' = sub
    BY <2>2, <2>3 DEF Sharing
  <2>4. CASE ~ (sub.step = "mark" /\ sub.game = g)
    <3>1. OnePlaceEach(games'[g].slots, {}, sub.place)
      BY <2>2, <2>4 DEF Sharing
    <3> HIDE DEF Others
    <3> QED BY <1>a, <2>2, <3>1
  <2>5. CASE sub.step = "mark" /\ sub.game = g /\ sub' # sub
    <3>1. MarkReplaced
      BY <2>5, SubSteps, BeginSubDoes, BeginReplaceDoes, ReplacementSteps
      DEF ReplaceOwn, ReplaceOther
    <3> QED BY <1>2, <2>5, <3>1
  <2> QED BY <2>3, <2>4, <2>5
<1>3. CASE PushSlot /\ sub.game = g
  <2>1. InProgress(g) /\ sub.step = "push"
    BY <1>3, ReplacementSteps DEF RequestInv
  <2>2. /\ AllPlaces(games[g].slots) /\ OneSlotEach(games[g].slots)
        /\ OnePlaceEach(games[g].slots, {}, sub.place)
    BY <2>1 DEF TeamInv, Sharing
  <2>3. /\ HoldsPlaceIn(games[g].slots, sub.replacee, sub.place)
        /\ ~ HasPlaceIn(games[g].slots, sub.replacement)
    BY <1>3, <2>1 DEF SubInv, HasPlace, HasPlaceIn
  <2>a. PICK sl, new, x, y, q :
          /\ sl = games[sub.game].slots /\ new = games'[sub.game].slots
          /\ x = sub.replacee /\ y = sub.replacement /\ q = sub.place
    OBVIOUS
  <2>b. /\ sl \in Seq(GameSlot)
        /\ \E slot \in GameSlot : /\ slot.player = y /\ slot.place = q
                                 /\ slot.status = "active" /\ new = Append(sl, slot)
    BY <1>0, <1>3, <2>a, PushSlotDoes, ReplacementSteps
  <2>c. /\ AllPlaces(sl) /\ OneSlotEach(sl) /\ OnePlaceEach(sl, {}, q)
        /\ HoldsPlaceIn(sl, x, q) /\ ~ HasPlaceIn(sl, y)
    BY <1>3, <2>2, <2>3, <2>a
  <2>d. AllPlaces(new) /\ OneSlotEach(new) /\ OnePlaceEach(new, {x, y}, q)
    BY <2>b, <2>c, PushedTeam
  <2>4. /\ AllPlaces(games'[g].slots) /\ OneSlotEach(games'[g].slots)
        /\ OnePlaceEach(games'[g].slots, {sub.replacee, sub.replacement}, sub.place)
    BY <1>3, <2>a, <2>d
  <2> QED BY <1>3, <2>4, ReplacementSteps
<1>4. CASE MarkReplaced /\ sub.game = g
  <2>1. InProgress(g) /\ sub.step = "mark"
    BY <1>4, ReplacementSteps DEF RequestInv
  <2>2. /\ AllPlaces(games[g].slots) /\ OneSlotEach(games[g].slots)
        /\ OnePlaceEach(games[g].slots, {sub.replacee, sub.replacement}, sub.place)
    BY <1>4, <2>1 DEF TeamInv, Sharing
  <2>3. /\ HoldsPlaceIn(games[g].slots, sub.replacee, sub.place)
        /\ HoldsPlaceIn(games[g].slots, sub.replacement, sub.place)
        /\ sub.replacee # sub.replacement
    BY <1>4, <2>1 DEF SubInv
  <2>a. PICK sl, new, x, y, q :
          /\ sl = games[g].slots /\ new = games'[g].slots
          /\ x = sub.replacee /\ y = sub.replacement /\ q = sub.place
    OBVIOUS
  <2>b. sl \in Seq(GameSlot) /\ new = WithStatus(sl, x, "replaced")
    BY <1>0, <1>4, <2>a, MarkReplacedDoes
  <2>c. /\ AllPlaces(sl) /\ OneSlotEach(sl) /\ OnePlaceEach(sl, {x, y}, q)
        /\ HoldsPlaceIn(sl, x, q) /\ HoldsPlaceIn(sl, y, q) /\ x # y
    BY <2>2, <2>3, <2>a
  <2>d. AllPlaces(new) /\ OneSlotEach(new) /\ \A P, r : OnePlaceEach(new, P, r)
    BY <2>b, <2>c, ReplacedTeam
  <2>4. /\ AllPlaces(games'[g].slots) /\ OneSlotEach(games'[g].slots)
        /\ \A P, r : OnePlaceEach(games'[g].slots, P, r)
    BY <2>a, <2>d
  <2> HIDE DEF Others
  <2> QED BY <2>4
<1> QED BY <1>1, <1>2, <1>3, <1>4, SlotsStep

LEMMA NextPlaying ==
  ASSUME Overlap = FALSE, Serial, [Next]_vars, ~ Restart
  PROVE  PlayingIsAssigned'
<1> USE DEF Serial, SerialInv
<1> SUFFICES ASSUME NEW g \in GameIds, NEW p \in Players, InProgress(g)', HasPlace(g, p)'
             PROVE  \/ activeGame'[p] = g
                    \/ launch'.game = g /\ p \in launch'.pending
                    \/ /\ sub'.step \in {"mark", "assign"} /\ sub'.game = g
                       /\ sub'.replacement = p
  BY DEF PlayingIsAssigned
<1>0. NoGame \notin GameIds
  BY GamesAssumption DEF GamesAssumption
<1>1. CASE CreateGame(g) /\ p \in queue
  BY <1>1, CreateGameDoes
<1>2. CASE PushSlot /\ sub.game = g /\ p = sub.replacement
  BY <1>2, ReplacementSteps
<1>3. CASE InProgress(g) /\ HasPlace(g, p)
  <2>1. Bound(p, g)
    BY <1>3 DEF Bound, HasPlace, PlayersOf
  \* What is assigned to him is this game.
  <2>2. ASSUME launch.step = "assign", p \in launch.pending PROVE launch.game = g
    BY <2>1, <2>2 DEF BoundInv, QueueInv
  <2>3. sub.replacement = p => sub.game = g
    BY <2>1 DEF BoundInv
  \* No release is of him.
  <2>4. ASSUME NEW u \in unsets, p = u.player PROVE FALSE
    <3>1. u.game \in GameIds /\ ToRelease(u.game) /\ p \in PlayersOf(games[u.game].slots)
      BY <2>4 DEF ReleaseInv, TInv, TypeOK, Unset, ToRelease
    <3>2. Over(u.game) /\ Bound(p, u.game)
      BY <3>1 DEF ReleaseInv, Bound
    <3> QED BY <1>3, <2>1, <3>1, <3>2 DEF BoundInv, Over, InProgress
  <2>5. ASSUME ReleaseReplacee, p = sub.replacee PROVE FALSE
    <3>1. sub.step = "release" /\ sub.game \in GameIds
      BY <2>5 DEF ReleaseReplacee, TInv, Reads
    <3>2. /\ p \in PlayersOf(games[sub.game].slots) /\ ~ HasPlace(sub.game, p)
          /\ InProgress(sub.game)
      BY <2>5, <3>1 DEF SubInv, RequestInv
    <3>3. Bound(p, sub.game)
      BY <3>2 DEF Bound
    <3> QED BY <1>3, <2>1, <3>1, <3>2, <3>3 DEF BoundInv
  <2>6. activeGame'[p] = activeGame[p] \/ activeGame'[p] = g
    BY <2>2, <2>3, <2>4, <2>5, UnassignStep
  <2>7. CASE activeGame[p] = g
    BY <2>6, <2>7
  <2>8. CASE launch.game = g /\ p \in launch.pending
    <3>1. launch.step = "assign" /\ launch.pending # {}
      BY <2>8 DEF QueueInv
    <3>2. ASSUME NEW q \in Players, AssignGame(q)
          PROVE  \/ activeGame'[p] = g
                 \/ launch'.game = g /\ p \in launch'.pending
      BY <2>8, <3>2 DEF AssignGame, TInv, TypeOK, Launch
    <3> QED BY <2>8, <3>1, <3>2, LaunchSteps, CreateGameDoes DEF BeginLaunch, ResetQueue
  <2>9. CASE sub.step \in {"mark", "assign"} /\ sub.game = g /\ sub.replacement = p
    <3>1. AssignReplacement => activeGame'[p] = g
      BY <2>9 DEF AssignReplacement, TInv, TypeOK
    <3> QED BY <2>9, <3>1, SubSteps, BeginSubDoes, BeginReplaceDoes, ReplacementSteps
            DEF ReplaceOwn, ReplaceOther
  <2> QED BY <1>3, <2>7, <2>8, <2>9 DEF PlayingIsAssigned
<1> QED BY <1>1, <1>2, <1>3, PlaceStep

-----------------------------------------------------------------------------
LEMMA InitSerialInv == Init => SerialInv
<1> SUFFICES ASSUME Init PROVE SerialInv
  OBVIOUS
<1>1. \A g \in GameIds : games[g].state = "none"
  <2>1. games = [g \in GameIds |-> NotCreated]
    BY DEF Init
  <2> QED BY <2>1 DEF NotCreated
<1>2. \A g \in GameIds : ~ InProgress(g)
  BY <1>1 DEF InProgress
<1>3. /\ queue = {} /\ timers = {} /\ unsets = {} /\ model.step = "idle"
      /\ launch = NoLaunch /\ sub = NoSubstitution
  BY DEF Init, NoModelUpdate
<1>4. \A p \in Players : \A g \in GameIds : ~ Bound(p, g)
  BY <1>2, <1>3 DEF Bound, ToRelease
<1>5. BoundInv
  BY <1>3, <1>4 DEF BoundInv
<1>6. QueueInv /\ SubInv
  BY <1>3 DEF QueueInv, SubInv, NoLaunch, NoSubstitution
<1>7. TeamInv /\ PlayingIsAssigned
  BY <1>2 DEF TeamInv, PlayingIsAssigned
<1> QED BY <1>5, <1>6, <1>7 DEF SerialInv

LEMMA NextCrashes ==
  ASSUME TInv, [Next]_vars, crashes' = 0
  PROVE  crashes = 0 /\ ~ Restart
<1>1. crashes \in Nat
  BY GamesAssumption DEF GamesAssumption, TInv, TypeOK
<1>2. ~ Restart
  BY <1>1 DEF Restart
<1>3. CASE UNCHANGED vars
  BY <1>2, <1>3 DEF vars
<1>4. CASE \/ \E q \in Players : JoinQueue(q) \/ LeaveQueue(q) \/ AssignGame(q)
           \/ BeginLaunch \/ ResetQueue
           \/ FreeAllMedics \/ MedicsAreFree \/ EndUpdate
           \/ \E u \in unsets : UnsetActiveGame(u)
           \/ NothingToReplace \/ ReplaceOwn \/ ReplaceOther
           \/ Substitute \/ Cancel \/ TakeOwnSlot \/ PushSlot \/ MarkReplaced
           \/ AssignReplacement \/ ReleaseReplacee
  BY <1>2, <1>4 DEF JoinQueue, LeaveQueue, AssignGame, BeginLaunch, ResetQueue,
     FreeAllMedics, MedicsAreFree, EndUpdate, UnsetActiveGame, NothingToReplace,
     ReplaceOwn, ReplaceOther, Substitute, Cancel, TakeOwnSlot, MarkSlots, PushSlot,
     MarkReplaced, AssignReplacement, ReleaseReplacee
<1>5. CASE \E h \in GameIds :
             \/ CreateGame(h) \/ MatchStarts(h) \/ MatchEnds(h) \/ FreeAllPlayers(h)
             \/ BeginUpdate(h) \/ BeginForceEnd(h) \/ ForceEnd(h)
             \/ \E q \in Players : BeginSubstitute(h, q) \/ BeginCancel(h, q)
             \/ \E x, y \in Players : BeginReplace(h, x, y)
  BY <1>2, <1>5 DEF CreateGame, MatchStarts, MatchEnds, FreeAllPlayers, BeginUpdate,
     BeginForceEnd, ForceEnd, BeginSubstitute, BeginCancel, BeginReplace
<1> QED BY <1>2, <1>3, <1>4, <1>5 DEF Next

LEMMA NextSerial ==
  ASSUME Overlap = FALSE, Serial, [Next]_vars, ~ Restart
  PROVE  Serial'
<1>1. TInv' /\ ReplacedInv' /\ RequestInv' /\ ReleaseInv'
  BY NextTInv, NextReplacedInv, NextRequestInv, NextReleaseInv DEF Serial
<1>2. BoundInv' /\ QueueInv' /\ SubInv' /\ TeamInv' /\ PlayingIsAssigned'
  BY NextBoundInv, NextQueueInv, NextSubInv, NextTeamInv, NextPlaying
<1> QED BY <1>1, <1>2 DEF Serial, SerialInv

\* Until the process first dies; a restart leaves players without their game.
LEMMA SerialInvariant == ASSUME Overlap = FALSE PROVE Spec => [](crashes = 0 => Serial)
<1> DEFINE Inv == TInv /\ (crashes = 0 => Serial)
<1>1. Init => Inv
  BY InitTInv, InitReplacedInv, InitRequestInv, InitSerialInv DEF Serial
<1>2. Inv /\ [Next]_vars => Inv'
  BY NextTInv, NextSerial, NextCrashes
<1> QED BY <1>1, <1>2, PTL DEF Spec

\* As long as the process does not die, the operations on the queue, the games and the
\* substitutions that create(), replacePlayer() and the releases await in turn give
\* every player with a place in a game that game.
THEOREM PlayersAreAssigned ==
  ASSUME Overlap = FALSE PROVE Spec => [](crashes = 0 => PlayingIsAssigned)
<1>1. (crashes = 0 => Serial) => (crashes = 0 => PlayingIsAssigned)
  BY DEF Serial, SerialInv
<1> QED BY SerialInvariant, <1>1, PTL

\* Nobody is given a place in a second game by a launch or a substitution that began
\* before he had the first one.
THEOREM PlayersPlayOnce ==
  ASSUME Overlap = FALSE PROVE Spec => [](crashes = 0 => OneGameAtATime)
<1>1. ASSUME Serial PROVE OneGameAtATime
  <2>1. \A g \in GameIds : \A p \in Players : InProgress(g) /\ HasPlace(g, p) => Bound(p, g)
    BY DEF Bound, HasPlace, PlayersOf
  <2> QED BY <1>1, <2>1 DEF Serial, SerialInv, BoundInv, OneGameAtATime
<1> QED BY SerialInvariant, <1>1, PTL

\* A game in progress has a player for every place, one but between the two writes of
\* replacePlayer().
THEOREM PlacesAreTaken ==
  ASSUME Overlap = FALSE PROVE Spec => [](crashes = 0 => EveryPlaceIsTaken)
<1>1. ASSUME Serial PROVE EveryPlaceIsTaken
  <2> SUFFICES ASSUME NEW g \in GameIds, InProgress(g), NEW q \in 1..Size
               PROVE  LET sl == games[g].slots
                          holders == {i \in DOMAIN sl : sl[i].place = q /\ Holds(sl, i)}
                      IN  /\ holders # {}
                          /\ Cardinality(holders) > 1 =>
                               sub.step = "mark" /\ sub.game = g /\ sub.place = q
    BY DEF EveryPlaceIsTaken
  <2> DEFINE sl == games[g].slots
             holders == {i \in DOMAIN sl : sl[i].place = q /\ Holds(sl, i)}
  <2>1. AllPlaces(sl) /\ OnePlaceEach(sl, Sharing(g), sub.place)
    BY <1>1 DEF Serial, SerialInv, TeamInv
  <2>2. PICK k \in DOMAIN sl : sl[k].place = q /\ Holds(sl, k)
    BY <2>1 DEF AllPlaces
  <2>3. CASE sub.step = "mark" /\ sub.game = g /\ sub.place = q
    BY <2>2, <2>3
  <2>4. CASE ~ (sub.step = "mark" /\ sub.game = g /\ sub.place = q)
    <3>1. \A i, j \in holders : i = j
      BY <2>1, <2>4 DEF OnePlaceEach, Sharing
    <3>2. holders = {k}
      BY <2>2, <3>1
    <3> HIDE DEF holders
    <3>3. Cardinality(holders) = 1
      BY <3>2, FS_Singleton
    <3> QED BY <3>2, <3>3 DEF holders
  <2> QED BY <2>3, <2>4
<1> QED BY SerialInvariant, <1>1, PTL

-----------------------------------------------------------------------------
(* Everybody is released, and nobody from another game *)

\* The player will be released from the game.
ReleaseComes(p, g) ==
  \/ g \in timers
  \/ model.game = g /\ model.step \in {"freeAllMedics", "free"}
  \/ \E u \in unsets : u.game = g /\ u.player = p

PlayersWillBeFreed ==
  \A p \in Players : \A g \in GameIds :
    activeGame[p] = g => InProgress(g) \/ ReleaseComes(p, g)

\* A game does not end before its players are assigned.
CreatingInv ==
  launch.step = "assign" => InProgress(launch.game) /\ forcing[launch.game] # "live"

FreedInv == CreatingInv /\ PlayersWillBeFreed

LEMMA InitFreedInv == Init => FreedInv
BY GamesAssumption DEF GamesAssumption, Init, FreedInv, CreatingInv, PlayersWillBeFreed, NoLaunch

\* What is to come does come: a release goes on until the player is released.
LEMMA ReleaseGoesOn ==
  ASSUME TInv, OwnInv, [Next]_vars, ~ Restart, NEW p \in Players, NEW g \in GameIds,
         activeGame[p] = g, ReleaseComes(p, g)
  PROVE  ReleaseComes(p, g)' \/ activeGame'[p] = NoGame
<1> USE DEF TInv, TypeOK, ModelUpdate
<1>1. CASE FreeAllMedics
  BY <1>1 DEF FreeAllMedics, ReleaseComes
<1>2. CASE MedicsAreFree
  BY <1>2 DEF MedicsAreFree, ReleaseComes
<1>3. ASSUME NEW h \in GameIds, FreeAllPlayers(h)
      PROVE  ReleaseComes(p, g)'
  <2>1. p \in PlayersOf(games[g].slots)
    BY GamesAssumption DEF GamesAssumption, OwnInv, AssignedToOwnGame
  <2>2. /\ timers' = timers \ {h} /\ UNCHANGED model
        /\ unsets' = unsets \cup UnsetsOf("timer", h, PlayersOf(games[h].slots))
    BY <1>3 DEF FreeAllPlayers
  <2>3. CASE g = h
    <3>1. [by |-> "timer", game |-> g, player |-> p] \in unsets'
      BY <2>1, <2>2, <2>3 DEF UnsetsOf
    <3> QED BY <3>1 DEF ReleaseComes
  <2>4. CASE g # h
    BY <2>2, <2>4 DEF ReleaseComes
  <2> QED BY <2>3, <2>4
<1>4. ASSUME NEW u \in unsets, UnsetActiveGame(u)
      PROVE  ReleaseComes(p, g)' \/ activeGame'[p] = NoGame
  BY <1>4 DEF UnsetActiveGame, ReleaseComes
<1>5. CASE timers' = timers /\ unsets \subseteq unsets' /\ model' = model
  BY <1>5 DEF ReleaseComes
<1>6. CASE UNCHANGED vars
  BY <1>5, <1>6 DEF vars
<1>7. ASSUME NEW h \in GameIds, MatchEnds(h) \/ BeginUpdate(h)
      PROVE  ReleaseComes(p, g)'
  BY <1>7 DEF MatchEnds, BeginUpdate, ReleaseComes
<1>8. CASE EndUpdate
  BY <1>8 DEF EndUpdate, ReleaseComes
<1>9. CASE \/ \E q \in Players : JoinQueue(q) \/ LeaveQueue(q) \/ AssignGame(q)
           \/ BeginLaunch \/ ResetQueue
           \/ NothingToReplace \/ ReplaceOwn \/ ReplaceOther
           \/ Substitute \/ Cancel \/ TakeOwnSlot \/ PushSlot \/ MarkReplaced
           \/ AssignReplacement \/ ReleaseReplacee
  BY <1>5, <1>9 DEF JoinQueue, LeaveQueue, AssignGame, BeginLaunch, ResetQueue,
     NothingToReplace, ReplaceOwn, ReplaceOther, Substitute, Cancel, TakeOwnSlot,
     MarkSlots, PushSlot, MarkReplaced, AssignReplacement, ReleaseReplacee
<1>10. CASE \E h \in GameIds :
             \/ CreateGame(h) \/ MatchStarts(h) \/ BeginForceEnd(h) \/ ForceEnd(h)
             \/ \E q \in Players : BeginSubstitute(h, q) \/ BeginCancel(h, q)
             \/ \E x, y \in Players : BeginReplace(h, x, y)
  BY <1>5, <1>10 DEF CreateGame, MatchStarts, BeginForceEnd, ForceEnd,
     BeginSubstitute, BeginCancel, BeginReplace
<1> QED BY <1>1, <1>2, <1>3, <1>4, <1>6, <1>7, <1>8, <1>9, <1>10 DEF Next

\* The end of a game begins the release of all of its players.
LEMMA EndReleases ==
  ASSUME TInv, OwnInv, [Next]_vars, NEW p \in Players, NEW g \in GameIds,
         activeGame[p] = g, MatchEnds(g) \/ ForceEnd(g)
  PROVE  ReleaseComes(p, g)'
<1>1. p \in PlayersOf(games[g].slots)
  BY GamesAssumption DEF GamesAssumption, OwnInv, AssignedToOwnGame
<1>2. CASE MatchEnds(g)
  <2>1. model'.game = g /\ model'.step = "freeAllMedics"
    BY <1>2 DEF MatchEnds, NoModelUpdate
  <2> QED BY <2>1 DEF ReleaseComes
<1>3. CASE ForceEnd(g)
  <2>1. [by |-> "force", game |-> g, player |-> p] \in unsets'
    BY <1>1, <1>3 DEF ForceEnd, UnsetsOf
  <2> QED BY <2>1 DEF ReleaseComes
<1> QED BY <1>2, <1>3

\* No end comes under a launch or a substitution.
LEMMA EndsAreAlone ==
  ASSUME Overlap = FALSE, RequestInv, CreatingInv, NEW g \in GameIds,
         MatchEnds(g) \/ ForceEnd(g)
  PROVE  /\ launch.step = "assign" => launch.game # g
         /\ sub.step # "idle" => sub.game # g
<1>1. CASE MatchEnds(g)
  BY <1>1 DEF MatchEnds, Undisturbed
<1>2. CASE ForceEnd(g)
  BY <1>2 DEF ForceEnd, RequestInv, CreatingInv
<1> QED BY <1>1, <1>2

LEMMA NextCreatingInv ==
  ASSUME Overlap = FALSE, TInv, RequestInv, CreatingInv, [Next]_vars
  PROVE  CreatingInv'
<1> SUFFICES ASSUME NEW g \in GameIds, launch'.step = "assign", launch'.game = g
             PROVE  InProgress(g)' /\ forcing'[g] # "live"
  <2>1. TInv'
    BY NextTInv
  <2>2. launch'.step = "assign" => launch'.game \in GameIds
    BY <2>1 DEF TInv, Reads
  <2> QED BY <2>2 DEF CreatingInv, InProgress
<1>1. CASE launch.step = "assign" /\ launch.game = g
  <2>1. InProgress(g) /\ forcing[g] # "live"
    BY <1>1 DEF CreatingInv
  <2>2. InProgress(g)'
    BY <1>1, <2>1, ProgressStep, EndsAreAlone
  <2>3. ~ BeginForceEnd(g)
    BY <1>1 DEF BeginForceEnd, Undisturbed
  <2>4. forcing'[g] # "live"
    BY <2>1, <2>3, ForcingSerial
  <2> QED BY <2>2, <2>4
<1>2. ASSUME NEW h \in GameIds, CreateGame(h)
      PROVE  InProgress(g)' /\ forcing'[g] # "live"
  <2>1. g = h /\ UNCHANGED forcing /\ games[g].state = "none"
    BY <1>2 DEF CreateGame, NotCreated
  <2>2. forcing[g] # "live"
    BY <2>1 DEF RequestInv, InProgress
  <2>3. games'[g].state = "launching"
    BY <1>2, <2>1 DEF CreateGame, TInv, TypeOK
  <2> QED BY <2>1, <2>2, <2>3 DEF InProgress
<1> QED BY <1>1, <1>2, LaunchStep

LEMMA NextFreedInv ==
  ASSUME Overlap = FALSE, TInv, OwnInv, RequestInv, ReleaseInv, FreedInv, [Next]_vars
  PROVE  FreedInv'
<1>1. CreatingInv'
  BY NextCreatingInv DEF FreedInv
<1>2. ASSUME NEW p \in Players, NEW g \in GameIds, activeGame'[p] = g
      PROVE  InProgress(g)' \/ ReleaseComes(p, g)'
  <2>0. g # NoGame
    BY GamesAssumption DEF GamesAssumption
  <2>1. CASE Restart
    <3>1. activeGame[p] = g /\ ~ Over(g) /\ UNCHANGED games
      BY <1>2, <2>0, <2>1 DEF Restart
    <3>2. InProgress(g)
      BY <3>1 DEF FreedInv, PlayersWillBeFreed, ReleaseComes, ReleaseInv, ToRelease
    <3> QED BY <3>1, <3>2 DEF InProgress
  <2>2. CASE activeGame[p] = g /\ InProgress(g)
    BY <2>2, ProgressStep, EndReleases
  <2>3. CASE activeGame[p] = g /\ ~ InProgress(g) /\ ~ Restart
    BY <1>2, <2>0, <2>3, ReleaseGoesOn DEF FreedInv, PlayersWillBeFreed
  <2>4. CASE launch.step = "assign" /\ g = launch.game
    BY <2>4, ProgressStep, EndsAreAlone DEF FreedInv, CreatingInv
  <2>5. CASE AssignReplacement /\ g = sub.game
    <3>1. sub.step = "assign" /\ InProgress(g)
      BY <2>5 DEF AssignReplacement, RequestInv
    <3> QED BY <2>5, <3>1, ProgressStep, EndsAreAlone DEF FreedInv
  <2>6. CASE ReleaseReplacee /\ p = sub.replacee
    BY <1>2, <2>0, <2>6 DEF ReleaseReplacee, TInv, TypeOK
  <2>7. ASSUME NEW u \in unsets, UnsetActiveGame(u), p = u.player PROVE FALSE
    BY <1>2, <2>0, <2>7 DEF UnsetActiveGame, TInv, TypeOK
  <2> QED BY <1>2, <2>1, <2>2, <2>3, <2>4, <2>5, <2>6, <2>7, UnassignStep
<1> QED BY <1>1, <1>2 DEF FreedInv, PlayersWillBeFreed

LEMMA FreedInvariant ==
  ASSUME Overlap = FALSE
  PROVE  Spec => [](TInv /\ OwnInv /\ RequestInv /\ ReleaseInv /\ FreedInv)
<1> DEFINE Inv == TInv /\ OwnInv /\ RequestInv /\ ReleaseInv /\ FreedInv
<1>1. Init => Inv
  BY InitTInv, InitOwnInv, InitRequestInv, InitFreedInv
<1>2. Inv /\ [Next]_vars => Inv'
  BY NextTInv, NextOwnInv, NextRequestInv, NextReleaseInv, NextFreedInv
<1> QED BY <1>1, <1>2, PTL DEF Spec

\* Nobody is stuck in a game that is over: as long as a player has a game, it is in
\* progress, or its end, a timer or an update is going to release him, also when the
\* process has died in between.
THEOREM NobodyIsStuck == ASSUME Overlap = FALSE PROVE Spec => []PlayersWillBeFreed
<1>1. FreedInv => PlayersWillBeFreed
  BY DEF FreedInv
<1> QED BY FreedInvariant, <1>1, PTL

\* Every release that is under way is of a player who has that game or none.
ReleasesOwnPlayers == \A u \in unsets : activeGame[u.player] \in {u.game, NoGame}

\* Until the process dies, no release takes a player out of a later game, although the
\* updates that unset activeGame do not look at it and come seconds after the end.
THEOREM ReleasesSpareOthers ==
  ASSUME Overlap = FALSE PROVE Spec => [](crashes = 0 => ReleasesOwnPlayers)
<1>1. ASSUME Serial, OwnInv, FreedInv PROVE ReleasesOwnPlayers
  <2> SUFFICES ASSUME NEW u \in unsets, activeGame[u.player] # NoGame
               PROVE  activeGame[u.player] = u.game
    BY DEF ReleasesOwnPlayers
  <2>1. u.player \in Players /\ u.game \in GameIds
    BY <1>1 DEF Serial, TInv, TypeOK, Unset
  <2>2. PICK h \in GameIds : activeGame[u.player] = h
    BY <1>1, <2>1 DEF Serial, TInv, TypeOK
  <2>3. Bound(u.player, u.game)
    BY <1>1 DEF Serial, ReleaseInv, Bound, ToRelease
  <2>4. InProgress(h) \/ ToRelease(h)
    BY <1>1, <2>1, <2>2 DEF FreedInv, PlayersWillBeFreed, ReleaseComes, ToRelease
  <2>5. Bound(u.player, h)
    BY <1>1, <2>1, <2>2, <2>4 DEF OwnInv, AssignedToOwnGame, Bound
  <2> QED BY <1>1, <2>1, <2>2, <2>3, <2>5 DEF Serial, SerialInv, BoundInv
<1> QED BY <1>1, SerialInvariant, FreedInvariant, PTL

=============================================================================
