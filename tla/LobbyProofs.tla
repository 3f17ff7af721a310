---------------------------- MODULE LobbyProofs ----------------------------
(***************************************************************************)
(* Theorems about Lobby, for all players, slots and maps, every cooldown   *)
(* and number of options, and any number of scrambles in progress.         *)
(***************************************************************************)
EXTENDS Lobby, FiniteSetTheorems, SequenceTheorems, TLAPS

USE LobbyAssumption

-----------------------------------------------------------------------------
(* Types *)

\* Options are drawn from the maps they are asked for.
LEMMA MapOptionsType ==
  ASSUME NEW ms, NEW S \in MapOptions(ms)
  PROVE  S \subseteq ms
BY DEF MapOptions

LEMMA InitType == Init => TypeOK
<1> SUFFICES ASSUME Init PROVE TypeOK
  OBVIOUS
<1>1. options \subseteq Maps
  BY MapOptionsType DEF Init
<1>2. found \in Seq(SUBSET Maps)
  BY EmptySeq DEF Init
<1>3. launch \in Launch
  BY DEF Init, NoLaunch, Launch
<1> QED BY <1>1, <1>2, <1>3 DEF Init, TypeOK, EmptySeats

LEMMA NextType == TypeOK /\ [Next]_vars => TypeOK'
<1> SUFFICES ASSUME TypeOK, [Next]_vars PROVE TypeOK'
  OBVIOUS
<1> USE DEF TypeOK
<1>len. Len(found) \in Nat
  BY LenProperties
<1>1. ASSUME NEW p \in Players, NEW s \in Slots, Join(p, s) PROVE TypeOK'
  BY <1>1 DEF Join, CleanupFriendships, poolVars, scrambleVars
<1>2. ASSUME NEW p \in Players, Leave(p) PROVE TypeOK'
  BY <1>2 DEF Leave, CleanupFriendships, poolVars, scrambleVars
<1>3. ASSUME NEW p \in Players, NEW q \in Players, MarkFriend(p, q) PROVE TypeOK'
  BY <1>3 DEF MarkFriend, poolVars, scrambleVars
<1>4. ASSUME NEW p \in Players, UnmarkFriend(p) PROVE TypeOK'
  BY <1>4 DEF UnmarkFriend, poolVars, scrambleVars
<1>5. ASSUME NEW p \in Players, NEW m \in Maps, VoteForMap(p, m) PROVE TypeOK'
  BY <1>5 DEF VoteForMap, poolVars, scrambleVars
<1>6. CASE ScrambleMaps
  BY <1>6, <1>len DEF ScrambleMaps, AskForMaps, poolVars
<1>7. CASE FindMaps
  <2>1. Rested \in SUBSET Maps
    BY DEF Rested
  <2>2. found' \in Seq(SUBSET Maps)
    BY <1>7, <2>1, AppendProperties DEF FindMaps
  <2> QED BY <1>7, <2>2 DEF FindMaps, poolVars
<1>8. CASE Scramble
  <2>1. Head(found) \in SUBSET Maps /\ Tail(found) \in Seq(SUBSET Maps)
    BY <1>8, HeadTailProperties DEF Scramble
  <2>2. options' \in SUBSET Maps
    BY <1>8, <2>1, MapOptionsType DEF Scramble
  <2> QED BY <1>8, <2>1, <2>2 DEF Scramble, poolVars
<1>9. ASSUME NEW m \in Maps, AddMap(m) PROVE TypeOK'
  BY <1>9 DEF AddMap, scrambleVars
<1>10. ASSUME NEW m \in Maps, RemoveMap(m) PROVE TypeOK'
  BY <1>10 DEF RemoveMap, scrambleVars
<1>11. CASE DeleteMaps
  BY <1>11 DEF DeleteMaps, scrambleVars
<1>12. ASSUME NEW ms \in SUBSET Maps, InsertMaps(ms) PROVE TypeOK'
  BY <1>12 DEF InsertMaps, scrambleVars
<1>13. CASE RefreshMaps
  BY <1>13, <1>len DEF RefreshMaps, AskForMaps
<1>14. CASE StartLaunch
  BY <1>14 DEF StartLaunch, Launch, poolVars, scrambleVars
<1>15. CASE CoolDown
  <2>1. cooldown' \in [Maps -> 0..MapCooldown]
    BY <1>15 DEF CoolDown
  <2>2. launch' \in Launch
    BY <1>15 DEF CoolDown, Launch
  <2> QED BY <1>15, <2>1, <2>2 DEF CoolDown, scrambleVars
<1>16. CASE MarkPlayed
  <2>1. cooldown' \in [Maps -> 0..MapCooldown]
    BY <1>16 DEF MarkPlayed
  <2>2. launch' \in Launch
    BY <1>16 DEF MarkPlayed, Launch
  <2> QED BY <1>16, <1>len, <2>1, <2>2 DEF MarkPlayed, AskForMaps
<1>17. CASE CreateGame
  BY <1>17 DEF CreateGame, Launch, poolVars, scrambleVars
<1>18. CASE Reset
  BY <1>18 DEF Reset, NoLaunch, Launch, EmptySeats, CleanupFriendships, poolVars,
               scrambleVars
<1>19. CASE Restart
  <2>1. pool' \in SUBSET Maps /\ cooldown' \in [Maps -> 0..MapCooldown]
    BY <1>19 DEF Restart
  <2>2. options' \in SUBSET Maps
    BY <1>19, <2>1, MapOptionsType DEF Restart
  <2>3. found' \in Seq(SUBSET Maps) /\ launch' \in Launch
    BY <1>19, EmptySeq DEF Restart, NoLaunch, Launch
  <2>4. seat' \in [Slots -> Players \cup {NoPlayer}]
    BY <1>19 DEF Restart, EmptySeats
  <2> QED BY <1>19, <2>1, <2>2, <2>3, <2>4 DEF Restart
<1>20. CASE UNCHANGED vars
  BY <1>20 DEF vars, poolVars, scrambleVars
<1> QED BY <1>1, <1>2, <1>3, <1>4, <1>5, <1>6, <1>7, <1>8, <1>9, <1>10, <1>11, <1>12,
           <1>13, <1>14, <1>15, <1>16, <1>17, <1>18, <1>19, <1>20 DEF Next

\* Every variable keeps its type in every behaviour.
THEOREM TypeCorrect == Spec => []TypeOK
BY InitType, NextType, PTL DEF Spec

-----------------------------------------------------------------------------
(* Friendships *)

LEMMA InitFriendships == Init => FriendshipsAreSound
BY DEF Init, FriendshipsAreSound

LEMMA NextFriendships ==
  TypeOK /\ FriendshipsAreSound /\ [Next]_vars => FriendshipsAreSound'
<1> SUFFICES ASSUME TypeOK, FriendshipsAreSound, [Next]_vars
             PROVE  FriendshipsAreSound'
  OBVIOUS
<1> USE DEF FriendshipsAreSound
<1>1. ASSUME friendships' = CleanupFriendships(seat')
      PROVE  FriendshipsAreSound'
  <2>1. \A f \in friendships' : f \in friendships /\ IsMedic(f[1], seat')
    BY <1>1 DEF CleanupFriendships
  <2> QED BY <2>1
<1>2. ASSUME friendships' \subseteq friendships, seat' = seat
      PROVE  FriendshipsAreSound'
  BY <1>2
<1>3. ASSUME NEW p \in Players, NEW q \in Players, MarkFriend(p, q)
      PROVE  FriendshipsAreSound'
  <2>1. /\ seat' = seat
        /\ IsMedic(p, seat) /\ ~ IsMedic(q, seat)
        /\ \A f \in friendships : f[2] # q
        /\ friendships' = {f \in friendships : f[1] # p} \cup {<<p, q>>}
    BY <1>3 DEF MarkFriend
  <2>2. p # q
    BY <2>1
  <2>3. \A f \in friendships' : IsMedic(f[1], seat') /\ f[1] # f[2]
    BY <2>1, <2>2
  <2>4. \A f, g \in friendships' : f[1] = g[1] \/ f[2] = g[2] => f = g
    BY <2>1
  <2> QED BY <2>3, <2>4
<1>4. ASSUME NEW p \in Players,
             \/ \E s \in Slots : Join(p, s)
             \/ Leave(p)
      PROVE  FriendshipsAreSound'
  BY <1>4, <1>1 DEF Join, Leave
<1>5. ASSUME NEW p \in Players,
             UnmarkFriend(p) \/ \E m \in Maps : VoteForMap(p, m)
      PROVE  FriendshipsAreSound'
  BY <1>5, <1>2 DEF UnmarkFriend, VoteForMap
<1>6. CASE ScrambleMaps \/ FindMaps \/ Scramble
  BY <1>6, <1>2 DEF ScrambleMaps, FindMaps, Scramble
<1>7. CASE \/ \E m \in Maps : AddMap(m) \/ RemoveMap(m)
           \/ DeleteMaps
           \/ \E ms \in SUBSET Maps : InsertMaps(ms)
           \/ RefreshMaps
  BY <1>7, <1>2 DEF AddMap, RemoveMap, DeleteMaps, InsertMaps, RefreshMaps
<1>8. CASE StartLaunch \/ CoolDown \/ MarkPlayed \/ CreateGame
  BY <1>8, <1>2 DEF StartLaunch, CoolDown, MarkPlayed, CreateGame
<1>9. CASE Reset
  BY <1>9, <1>1 DEF Reset
<1>10. CASE Restart
  BY <1>10 DEF Restart
<1>11. CASE UNCHANGED vars
  BY <1>11, <1>2 DEF vars
<1> QED BY <1>3, <1>4, <1>5, <1>6, <1>7, <1>8, <1>9, <1>10, <1>11 DEF Next

\* Friendships stay one to one and belong to the medics in the queue.
THEOREM SoundFriendships == Spec => []FriendshipsAreSound
<1>1. Init => TypeOK /\ FriendshipsAreSound
  BY InitType, InitFriendships
<1>2. TypeOK /\ FriendshipsAreSound /\ [Next]_vars => (TypeOK /\ FriendshipsAreSound)'
  BY NextType, NextFriendships
<1> QED BY <1>1, <1>2, PTL DEF Spec

-----------------------------------------------------------------------------
(* Votes *)

LEMMA NextVotes == VotesAreCounted /\ [Next]_vars => VotesAreCounted'
<1> SUFFICES ASSUME VotesAreCounted, [Next]_vars PROVE VotesAreCounted'
  OBVIOUS
<1> USE DEF VotesAreCounted
<1>1. ASSUME votes' \subseteq votes, options' = options PROVE VotesAreCounted'
  BY <1>1
<1>2. ASSUME votes' = {} PROVE VotesAreCounted'
  BY <1>2
<1>3. ASSUME NEW p \in Players, NEW m \in Maps, VoteForMap(p, m)
      PROVE  VotesAreCounted'
  <2>1. /\ m \in options /\ options' = options
        /\ votes' = {v \in votes : v[1] # p} \cup {<<p, m>>}
    BY <1>3 DEF VoteForMap
  <2>2. \A v \in votes' : v[2] \in options'
    BY <2>1
  <2>3. \A v, w \in votes' : v[1] = w[1] => v = w
    BY <2>1
  <2> QED BY <2>2, <2>3
<1>4. ASSUME NEW p \in Players,
             \/ \E s \in Slots : Join(p, s)
             \/ Leave(p)
             \/ \E q \in Players : MarkFriend(p, q)
             \/ UnmarkFriend(p)
      PROVE  VotesAreCounted'
  BY <1>4, <1>1 DEF Join, Leave, MarkFriend, UnmarkFriend
<1>5. CASE ScrambleMaps \/ FindMaps
  BY <1>5, <1>1 DEF ScrambleMaps, FindMaps
<1>6. CASE Scramble \/ Restart
  BY <1>6, <1>2 DEF Scramble, Restart
<1>7. CASE \/ \E m \in Maps : AddMap(m) \/ RemoveMap(m)
           \/ DeleteMaps
           \/ \E ms \in SUBSET Maps : InsertMaps(ms)
           \/ RefreshMaps
  BY <1>7, <1>1 DEF AddMap, RemoveMap, DeleteMaps, InsertMaps, RefreshMaps
<1>8. CASE StartLaunch \/ CoolDown \/ MarkPlayed \/ CreateGame \/ Reset
  BY <1>8, <1>1 DEF StartLaunch, CoolDown, MarkPlayed, CreateGame, Reset
<1>9. CASE UNCHANGED vars
  BY <1>9, <1>1 DEF vars
<1> QED BY <1>3, <1>4, <1>5, <1>6, <1>7, <1>8, <1>9 DEF Next

\* Votes are for maps one can vote for, one of each player.
THEOREM CountedVotes == Spec => []VotesAreCounted
<1>1. Init => VotesAreCounted
  BY DEF Init, VotesAreCounted
<1> QED BY <1>1, NextVotes, PTL DEF Spec

-----------------------------------------------------------------------------
(* The pool: maps that rest do not wake up on the same day *)

PoolFits == IF change = "insert" THEN pool = {} ELSE Enough(pool)

WakeOneByOne ==
  \A m, n \in pool : m # n /\ cooldown[m] = cooldown[n] => cooldown[m] = 0

RoomForWinner ==
  launch.step = "markPlayed" => \A m \in pool : cooldown[m] < MapCooldown

PoolInv == PoolFits /\ WakeOneByOne /\ RoomForWinner

\* More maps than cooldowns, and no two resting equally long: one has rested.
LEMMA PoolRests == TypeOK /\ PoolInv => SomeMapRested
<1> SUFFICES ASSUME TypeOK, PoolInv, change # "insert", Rested = {} PROVE FALSE
  BY DEF SomeMapRested
<1> DEFINE f == [m \in pool |-> cooldown[m]]
<1>1. IsFiniteSet(pool) /\ Cardinality(pool) > MapCooldown
  BY FS_Subset DEF TypeOK, PoolInv, PoolFits, Enough
<1>2. IsFiniteSet(1..MapCooldown) /\ Cardinality(1..MapCooldown) = MapCooldown
  BY FS_Interval
<1>3. \A m \in pool : cooldown[m] \in 1..MapCooldown
  BY DEF TypeOK, Rested
<1>4. f \in [pool -> 1..MapCooldown]
  BY <1>3
<1>5. PICK m, n \in pool : m # n /\ f[m] = f[n]
  <2>1. Cardinality(1..MapCooldown) < Cardinality(pool)
    BY <1>1, <1>2, FS_CardinalityType
  <2> HIDE DEF f
  <2> QED BY <1>1, <1>2, <1>4, <2>1, FS_PigeonHole
<1>6. cooldown[m] = 0
  BY <1>5 DEF PoolInv, WakeOneByOne
<1> QED BY <1>3, <1>5, <1>6

LEMMA InitPool == Init => PoolInv
BY DEF Init, NoLaunch, PoolInv, PoolFits, WakeOneByOne, RoomForWinner

LEMMA NextPool == TypeOK /\ PoolInv /\ [Next]_vars => PoolInv'
<1> SUFFICES ASSUME TypeOK, PoolInv, [Next]_vars PROVE PoolInv'
  OBVIOUS
<1> USE DEF PoolInv, PoolFits, WakeOneByOne, RoomForWinner, Enough
<1>t. /\ pool \subseteq Maps /\ IsFiniteSet(pool) /\ Cardinality(pool) \in Nat
      /\ \A m \in Maps : cooldown[m] \in 0..MapCooldown
      /\ DOMAIN cooldown = Maps
  BY FS_Subset, FS_CardinalityType DEF TypeOK
<1>1. ASSUME UNCHANGED poolVars, launch'.step # "markPlayed" PROVE PoolInv'
  BY <1>1 DEF poolVars
<1>2. ASSUME UNCHANGED <<pool, cooldown>>, launch' = launch,
             change # "insert", change' # "insert"
      PROVE  PoolInv'
  BY <1>2
<1>3. ASSUME UNCHANGED poolVars, launch' = launch PROVE PoolInv'
  BY <1>3 DEF poolVars
<1>4. ASSUME NEW p \in Players,
             \/ \E s \in Slots : Join(p, s)
             \/ Leave(p)
             \/ \E q \in Players : MarkFriend(p, q)
             \/ UnmarkFriend(p)
             \/ \E m \in Maps : VoteForMap(p, m)
      PROVE  PoolInv'
  BY <1>4, <1>3 DEF Join, Leave, MarkFriend, UnmarkFriend, VoteForMap
<1>5. CASE ScrambleMaps \/ FindMaps \/ Scramble
  BY <1>5, <1>3 DEF ScrambleMaps, FindMaps, Scramble
<1>6. ASSUME NEW m \in Maps, AddMap(m) PROVE PoolInv'
  <2>1. /\ change # "insert" /\ change' # "insert" /\ launch' = launch
        /\ pool' = pool \cup {m} /\ m \notin pool
        /\ cooldown' = [cooldown EXCEPT ![m] = 0]
    BY <1>6 DEF AddMap
  <2>2. Enough(pool')
    <3>1. Cardinality(pool \cup {m}) = Cardinality(pool) + 1
      BY <1>t, <2>1, FS_AddElement
    <3>2. Cardinality(pool) > MapCooldown
      BY <2>1
    <3>3. Cardinality(pool \cup {m}) > MapCooldown
      BY <1>t, <3>1, <3>2
    <3> QED BY <2>1, <3>3
  <2>3. \A n \in pool : cooldown'[n] = cooldown[n]
    BY <1>t, <2>1
  <2>4. cooldown'[m] = 0
    BY <1>t, <2>1
  <2>5. WakeOneByOne'
    BY <2>1, <2>3, <2>4
  <2>6. RoomForWinner'
    BY <1>t, <2>1, <2>3, <2>4
  <2> QED BY <2>1, <2>2, <2>5, <2>6
<1>7. ASSUME NEW m \in Maps, RemoveMap(m) PROVE PoolInv'
  BY <1>7 DEF RemoveMap
<1>8. CASE DeleteMaps
  BY <1>8 DEF DeleteMaps
<1>9. ASSUME NEW ms \in SUBSET Maps, InsertMaps(ms) PROVE PoolInv'
  <2>1. /\ change' # "insert" /\ launch' = launch /\ pool' = ms /\ Enough(ms)
        /\ cooldown' = [m \in Maps |-> 0]
    BY <1>9 DEF InsertMaps
  <2>2. \A m \in pool' : cooldown'[m] = 0
    BY <2>1
  <2> QED BY <2>1, <2>2
<1>10. CASE RefreshMaps
  BY <1>10, <1>2 DEF RefreshMaps
<1>11. CASE StartLaunch
  BY <1>11, <1>1 DEF StartLaunch
<1>12. CASE CoolDown
  <2>1. /\ pool' = pool /\ change' = change
        /\ cooldown' = [m \in Maps |-> IF m \in pool /\ cooldown[m] > 0
                                       THEN cooldown[m] - 1 ELSE cooldown[m]]
    BY <1>12 DEF CoolDown
  <2>2. \A m \in pool :
          cooldown'[m] = IF cooldown[m] > 0 THEN cooldown[m] - 1 ELSE 0
    BY <1>t, <2>1
  <2>3. ASSUME NEW m \in pool, NEW n \in pool, m # n, cooldown'[m] = cooldown'[n],
               cooldown'[m] # 0
        PROVE  FALSE
    <3>1. cooldown[m] = cooldown[n] /\ cooldown[m] > 0
      BY <1>t, <2>2, <2>3
    <3> QED BY <2>3, <3>1
  <2>4. WakeOneByOne'
    BY <2>1, <2>3
  <2>5. RoomForWinner'
    BY <1>t, <2>1, <2>2
  <2> QED BY <2>1, <2>4, <2>5
<1>13. CASE MarkPlayed
  <2>1. /\ pool' = pool /\ change' = change
        /\ cooldown' = IF launch.map \in pool
                       THEN [cooldown EXCEPT ![launch.map] = MapCooldown] ELSE cooldown
        /\ launch.step = "markPlayed"
    BY <1>13 DEF MarkPlayed
  <2>2. launch'.step = "create"
    BY <1>13 DEF MarkPlayed, TypeOK, Launch
  <2>3. \A m \in pool :
          cooldown'[m] = IF m = launch.map THEN MapCooldown ELSE cooldown[m]
    BY <1>t, <2>1
  <2>4. \A m \in pool : cooldown[m] < MapCooldown
    BY <2>1
  <2>5. WakeOneByOne'
    BY <1>t, <2>1, <2>3, <2>4
  <2> QED BY <2>1, <2>2, <2>5
<1>14. CASE CreateGame
  BY <1>14, <1>1 DEF CreateGame, TypeOK, Launch
<1>15. CASE Reset
  BY <1>15, <1>1 DEF Reset, NoLaunch
<1>16. CASE Restart
  <2>1. /\ pool' = IF pool = {} THEN Maps ELSE pool
        /\ cooldown' = IF pool = {} THEN [m \in Maps |-> 0] ELSE cooldown
        /\ change' = "none" /\ launch'.step = "idle"
    BY <1>16 DEF Restart, NoLaunch
  <2>2. Enough(pool')
    BY <2>1
  <2>3. WakeOneByOne'
    BY <2>1
  <2> QED BY <2>1, <2>2, <2>3
<1>17. CASE UNCHANGED vars
  BY <1>17, <1>3 DEF vars, poolVars
<1> QED BY <1>4, <1>5, <1>6, <1>7, <1>8, <1>9, <1>10, <1>11, <1>12, <1>13, <1>14, <1>15,
           <1>16, <1>17 DEF Next

LEMMA PoolAlways == Spec => [](TypeOK /\ PoolInv)
<1>1. Init => TypeOK /\ PoolInv
  BY InitType, InitPool
<1>2. TypeOK /\ PoolInv /\ [Next]_vars => (TypeOK /\ PoolInv)'
  BY NextType, NextPool
<1> QED BY <1>1, <1>2, PTL DEF Spec

\* Unless the admins are replacing the pool, some map in it has rested.
THEOREM AlwaysSomeMapRested == Spec => []SomeMapRested
BY PoolAlways, PoolRests, PTL

-----------------------------------------------------------------------------
(* The options: what the last scramble finds *)

LastFound == IF found = <<>> THEN options ELSE found[Len(found)]

OptionsInv ==
  asked = 0 /\ change = "none" => LastFound \subseteq Rested /\ LastFound # {}

\* There is an option when there is a map to draw it from.
LEMMA MapOptionsNonempty ==
  ASSUME NEW ms \in SUBSET Maps, ms # {}, NEW S \in MapOptions(ms)
  PROVE  S # {}
<1>1. IsFiniteSet(ms)
  BY FS_Subset
<1>2. Cardinality(ms) \in Nat /\ Cardinality(ms) # 0
  BY <1>1, FS_EmptySet, FS_CardinalityType
<1>3. Cardinality(S) # 0
  BY <1>2 DEF MapOptions
<1> QED BY <1>3, FS_EmptySet

LEMMA LastFoundType == TypeOK => LastFound \in SUBSET Maps
<1> SUFFICES ASSUME TypeOK PROVE LastFound \in SUBSET Maps
  OBVIOUS
<1>1. CASE found = <<>>
  BY <1>1 DEF TypeOK, LastFound
<1>2. CASE found # <<>>
  <2>1. found \in Seq(SUBSET Maps)
    BY DEF TypeOK
  <2>2. Len(found) \in 1..Len(found)
    BY <1>2, <2>1, EmptySeq
  <2> QED BY <1>2, <2>1, <2>2, LenProperties DEF LastFound
<1> QED BY <1>1, <1>2

LEMMA InitOptions == Init => OptionsInv
<1> SUFFICES ASSUME Init PROVE OptionsInv
  OBVIOUS
<1>1. options \in MapOptions(pool) /\ pool \in SUBSET Maps /\ Rested = pool
  BY DEF Init, Rested
<1>2. pool # {}
  <2>1. Cardinality(pool) > MapCooldown
    BY DEF Init, Enough
  <2>2. Cardinality({}) = 0
    BY FS_EmptySet
  <2> QED BY <2>1, <2>2
<1>3. LastFound = options
  BY DEF Init, LastFound
<1> QED BY <1>1, <1>2, <1>3, MapOptionsType, MapOptionsNonempty DEF OptionsInv

LEMMA NextOptions ==
  TypeOK /\ PoolInv /\ PoolInv' /\ TypeOK' /\ OptionsInv /\ [Next]_vars => OptionsInv'
<1> SUFFICES ASSUME TypeOK, PoolInv, PoolInv', TypeOK', OptionsInv, [Next]_vars
             PROVE  OptionsInv'
  OBVIOUS
<1>t. found \in Seq(SUBSET Maps) /\ Len(found) \in Nat /\ asked \in Nat
  BY LenProperties DEF TypeOK
<1>1. ASSUME UNCHANGED <<poolVars, scrambleVars, options>> PROVE OptionsInv'
  BY <1>1 DEF poolVars, scrambleVars, OptionsInv, LastFound, Rested
<1>2. ASSUME asked' # 0 \/ change' # "none" PROVE OptionsInv'
  BY <1>2 DEF OptionsInv
<1>3. ASSUME NEW p \in Players,
             \/ \E s \in Slots : Join(p, s)
             \/ Leave(p)
             \/ \E q \in Players : MarkFriend(p, q)
             \/ UnmarkFriend(p)
             \/ \E m \in Maps : VoteForMap(p, m)
      PROVE  OptionsInv'
  BY <1>3, <1>1 DEF Join, Leave, MarkFriend, UnmarkFriend, VoteForMap
<1>4. CASE ScrambleMaps
  BY <1>4, <1>2, <1>t DEF ScrambleMaps, AskForMaps
<1>5. CASE FindMaps
  <2>1. /\ found' = Append(found, Rested) /\ UNCHANGED poolVars
    BY <1>5 DEF FindMaps
  <2>2. Rested \in SUBSET Maps
    BY DEF Rested, TypeOK
  <2>3. LastFound' = Rested /\ Rested' = Rested
    BY <1>t, <2>1, <2>2, AppendProperties DEF LastFound, Rested, poolVars
  <2>4. change' = "none" => Rested # {}
    BY <2>1, PoolRests DEF poolVars, SomeMapRested
  <2> QED BY <2>3, <2>4 DEF OptionsInv
<1>6. CASE Scramble
  <2>1. /\ found # <<>> /\ options' \in MapOptions(Head(found))
        /\ found' = Tail(found) /\ UNCHANGED <<poolVars, asked>>
    BY <1>6 DEF Scramble
  <2>2. /\ Head(found) \in SUBSET Maps /\ Head(found) = found[1]
        /\ Len(Tail(found)) = Len(found) - 1
        /\ \A i \in 1..Len(Tail(found)) : Tail(found)[i] = found[i + 1]
    BY <1>t, <2>1, HeadTailProperties
  <2>3. Rested' = Rested /\ LastFound = found[Len(found)]
    BY <2>1 DEF Rested, LastFound, poolVars
  <2>4. CASE Tail(found) = <<>>
    <3>1. Len(found) = 1
      <4>1. Len(Tail(found)) = 0
        BY <2>4, EmptySeq
      <4> QED BY <1>t, <2>2, <4>1
    <3>2. LastFound = Head(found) /\ LastFound' = options'
      BY <2>1, <2>2, <2>3, <2>4, <3>1 DEF LastFound
    <3>3. LastFound' \subseteq LastFound
      BY <2>1, <3>2, MapOptionsType
    <3>4. LastFound # {} => LastFound' # {}
      BY <2>1, <2>2, <3>2, MapOptionsNonempty
    <3> QED BY <2>1, <2>3, <3>3, <3>4 DEF OptionsInv, poolVars
  <2>5. CASE Tail(found) # <<>>
    <3>1. Tail(found) \in Seq(SUBSET Maps)
      BY <1>t, <2>1, HeadTailProperties
    <3>2. Len(Tail(found)) \in 1..Len(Tail(found))
      BY <2>5, <3>1, EmptySeq
    <3>3. Tail(found)[Len(Tail(found))] = found[Len(found)]
      BY <1>t, <2>2, <3>2
    <3>4. LastFound' = LastFound
      BY <2>1, <2>3, <2>5, <3>3 DEF LastFound
    <3> QED BY <2>1, <2>3, <3>4 DEF OptionsInv, poolVars
  <2> QED BY <2>4, <2>5
<1>7. CASE \/ \E m \in Maps : AddMap(m) \/ RemoveMap(m)
           \/ DeleteMaps
           \/ \E ms \in SUBSET Maps : InsertMaps(ms)
  BY <1>7, <1>2 DEF AddMap, RemoveMap, DeleteMaps, InsertMaps
<1>8. CASE RefreshMaps \/ MarkPlayed
  BY <1>8, <1>2, <1>t DEF RefreshMaps, MarkPlayed, AskForMaps
<1>9. CASE CoolDown
  <2>1. /\ UNCHANGED <<pool, change, asked, found, options>>
        /\ \A m \in Maps : cooldown[m] = 0 => cooldown'[m] = 0
    BY <1>9 DEF CoolDown, scrambleVars, TypeOK
  <2>2. Rested \subseteq Rested'
    BY <2>1 DEF Rested, TypeOK
  <2> QED BY <2>1, <2>2 DEF OptionsInv, LastFound
<1>10. CASE StartLaunch \/ CreateGame \/ Reset
  BY <1>10, <1>1 DEF StartLaunch, CreateGame, Reset
<1>11. CASE Restart
  <2>1. /\ options' \in MapOptions(Rested') /\ found' = <<>> /\ change' = "none"
    BY <1>11 DEF Restart, Rested
  <2>2. LastFound' = options'
    BY <2>1 DEF LastFound
  <2>3. Rested' \in SUBSET Maps
    BY DEF Rested, TypeOK
  <2>4. Rested' # {}
    <3>1. (TypeOK /\ PoolInv => SomeMapRested)'
      BY PoolRests, PTL
    <3> QED BY <2>1, <3>1 DEF SomeMapRested
  <2> QED BY <2>1, <2>2, <2>3, <2>4, MapOptionsType, MapOptionsNonempty DEF OptionsInv
<1>12. CASE UNCHANGED vars
  BY <1>12, <1>1 DEF vars, poolVars, scrambleVars
<1> QED BY <1>3, <1>4, <1>5, <1>6, <1>7, <1>8, <1>9, <1>10, <1>11, <1>12 DEF Next

LEMMA OptionsAlways == Spec => [](TypeOK /\ PoolInv /\ OptionsInv)
<1> DEFINE Inv == TypeOK /\ PoolInv /\ OptionsInv
<1>1. Init => Inv
  BY InitType, InitPool, InitOptions
<1>2. Inv /\ [Next]_vars => Inv'
  BY NextType, NextPool, NextOptions
<1> QED BY <1>1, <1>2, PTL DEF Spec

\* When the scrambles have ended every option is a map of the pool that has rested.
THEOREM RestedOptions == Spec => []OptionsAreRested
<1>1. OptionsInv => OptionsAreRested
  BY DEF OptionsInv, OptionsAreRested, NoScramble, LastFound
<1> QED BY <1>1, OptionsAlways, PTL

\* The vote is without options only while a scramble that ends it is on its way.
THEOREM EmptyVotesEnd == Spec => []EmptyVoteEnds
<1>1. OptionsInv => EmptyVoteEnds
  BY DEF OptionsInv, EmptyVoteEnds, NoScramble, LastFound
<1> QED BY <1>1, OptionsAlways, PTL
=============================================================================
