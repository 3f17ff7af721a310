--------------------------- MODULE ServersProofs ---------------------------
(***************************************************************************)
(* Theorems about Servers, for every set of games and of servers and any   *)
(* number of crashes: type correctness whatever overlaps, and that games   *)
(* keep their servers, and that clean-ups spare them, when no two updates  *)
(* of one document overlap.                                                *)
(***************************************************************************)
EXTENDS Servers, TLAPS

USE ServersAssumption

-----------------------------------------------------------------------------
\* Only a game that was created is launched, and doLaunch() reads a game only to
\* update it.
LaunchInv ==
  /\ \A g \in GameIds :
       games[g].state = "none" =>
         /\ g \notin created \cup ToSet(waiting) \cup orphans \cup {launch.game}
         /\ games[g].server = NoServer
  /\ launch.read # "no" => launch.step \in {"tell", "configure"}

\* A release writes, or waits for the cron job's look at the game, alone: the server
\* still has the game that it was found with, and is dirty.
Committed(r) == r.step = "write" \/ r.by = "cron"

ReleaseInv(r) ==
  /\ r.step = "write" \/ r.by # "cron" => Over(r.game)
  /\ Committed(r) =>
       /\ servers[r.server].game = r.game
       /\ ~ ToBeDirty(r.server)
       /\ \A q \in releases : q.server = r.server /\ Committed(q) => q = r

\* What is going to be written to a server, or has been scheduled for it.
Pending(s) == \E u \in ToSet(updates) : u.server = s

UpdateInv(u) ==
  IF u.set = "dirty"
  THEN servers[u.server].game # NoGame /\ cleanups[u.server] = 0
  ELSE /\ servers[u.server].game = NoGame /\ ~ servers[u.server].clean
       /\ u.server \notin used /\ cleanups[u.server] = 0

ServerInv(s) ==
  /\ servers[s].game # NoGame => s \in used
  /\ s \in used /\ servers[s].clean => ToBeDirty(s)
  /\ cleanups[s] > 0 => /\ cleanups[s] = 1
                        /\ servers[s].game = NoGame /\ ~ servers[s].clean
                        /\ ~ Pending(s)

\* A server that was found stays free, clean and alone until it is assigned, and a game
\* in progress has the server that it is told of.
FoundInv ==
  /\ launch.step = "assign" =>
       /\ servers[launch.server].game = NoGame /\ servers[launch.server].clean
       /\ ~ Pending(launch.server)
  /\ launch.step \in {"tell", "configure"} /\ InProgress(launch.game) =>
       servers[launch.server].game = launch.game

OneUpdateEach(q) == \A i, j \in 1..Len(q) : q[i].server = q[j].server => i = j

SerialInv ==
  /\ FoundInv
  /\ \A r \in releases : ReleaseInv(r)
  /\ OneUpdateEach(updates)
  /\ \A u \in ToSet(updates) : UpdateInv(u)
  /\ \A s \in ServerIds : ServerInv(s)
  /\ GameKeepsServer

-----------------------------------------------------------------------------
(* Sequences as sets *)

LEMMA AppendSet ==
  ASSUME NEW S, NEW q \in Seq(S), NEW x \in S
  PROVE  /\ Append(q, x) \in Seq(S)
         /\ ToSet(Append(q, x)) = ToSet(q) \cup {x}
<1>1. Append(q, x) \in Seq(S)
  OBVIOUS
<1>2. /\ DOMAIN q = 1..Len(q) /\ DOMAIN Append(q, x) = 1..(Len(q) + 1) /\ Len(q) \in Nat
      /\ \A i \in 1..Len(q) : Append(q, x)[i] = q[i]
      /\ Append(q, x)[Len(q) + 1] = x
  OBVIOUS
<1> QED BY <1>1, <1>2 DEF ToSet

LEMMA TailSet ==
  ASSUME NEW S, NEW q \in Seq(S), q # <<>>
  PROVE  /\ Head(q) \in S /\ Tail(q) \in Seq(S)
         /\ ToSet(q) = {Head(q)} \cup ToSet(Tail(q))
<1>1. Head(q) \in S /\ Tail(q) \in Seq(S)
  OBVIOUS
<1>2. /\ DOMAIN q = 1..Len(q) /\ DOMAIN Tail(q) = 1..(Len(q) - 1)
      /\ Len(q) \in Nat /\ Len(q) > 0 /\ Head(q) = q[1]
      /\ \A i \in 1..(Len(q) - 1) : Tail(q)[i] = q[i + 1]
  OBVIOUS
<1>3. \A i \in 1..Len(q) :
        i = 1 \/ (i - 1 \in 1..(Len(q) - 1) /\ q[i] = Tail(q)[i - 1])
  BY <1>2
<1>4. \A i \in 1..(Len(q) - 1) : i + 1 \in 1..Len(q)
  BY <1>2
<1>5. ASSUME NEW x \in ToSet(q) PROVE x \in {Head(q)} \cup ToSet(Tail(q))
  <2>1. PICK i \in 1..Len(q) : x = q[i]
    BY <1>2 DEF ToSet
  <2>2. CASE i = 1
    BY <1>2, <2>1, <2>2
  <2>3. CASE i # 1
    BY <1>2, <1>3, <2>1, <2>3 DEF ToSet
  <2> QED BY <2>2, <2>3
<1>6. {Head(q)} \cup ToSet(Tail(q)) \subseteq ToSet(q)
  <2>1. 1 \in 1..Len(q)
    BY <1>2
  <2> QED BY <2>1, <1>2, <1>4 DEF ToSet
<1> QED BY <1>1, <1>5, <1>6

LEMMA EmptySet == ToSet(<<>>) = {}
BY DEF ToSet

-----------------------------------------------------------------------------
(* Records *)

\* A server that changes one of its fields keeps the other.
LEMMA ServerFields ==
  ASSUME NEW x \in GameServer, NEW g \in GameIds \cup {NoGame}, NEW c \in BOOLEAN
  PROVE  /\ [x EXCEPT !.game = g] = [game |-> g, clean |-> x.clean]
         /\ [x EXCEPT !.clean = c] = [game |-> x.game, clean |-> c]
         /\ [x EXCEPT !.game = g] \in GameServer
         /\ [x EXCEPT !.clean = c] \in GameServer
BY DEF GameServer

\* A release that goes on keeps its server, its game and who asked for it.
GoesOn(r, t) ==
  [by |-> r.by, game |-> r.game, server |-> r.server, step |-> "write", taken |-> t]

LEMMA ReleaseFields ==
  ASSUME NEW r \in Release, NEW t \in BOOLEAN
  PROVE  /\ [r EXCEPT !.step = "write", !.taken = t] = GoesOn(r, t)
         /\ GoesOn(r, t) \in Release
<1> DEFINE q == [r EXCEPT !.step = "write"]
<1>1. /\ q \in Release /\ q.by = r.by /\ q.game = r.game /\ q.server = r.server
      /\ q.step = "write"
  BY DEF Release
<1>2. [r EXCEPT !.step = "write", !.taken = t] = [q EXCEPT !.taken = t]
  OBVIOUS
<1> HIDE DEF q
<1>3. [q EXCEPT !.taken = t] = GoesOn(q, t) /\ GoesOn(q, t) \in Release
  BY <1>1 DEF Release, GoesOn
<1> QED BY <1>1, <1>2, <1>3 DEF GoesOn

LEMMA EndOfType ==
  ASSUME NEW by \in {"end", "launch"}, NEW g \in GameIds,
         NEW s \in ServerIds \cup {NoServer}
  PROVE  /\ EndOf(by, g, s) \in SUBSET Release
         /\ \A r \in EndOf(by, g, s) :
              r.by # "cron" /\ r.step = "check" /\ r.game = g /\ r.server = s
BY DEF EndOf, Release

-----------------------------------------------------------------------------
(* Type correctness *)

LEMMA InitType == Init => TypeOK /\ LaunchInv
<1> SUFFICES ASSUME Init PROVE TypeOK /\ LaunchInv
  OBVIOUS
<1>0. cleanups \in [ServerIds -> Nat] /\ crashes \in 0..MaxCrashes
  BY DEF Init
<1>1. games \in [GameIds -> Game] /\ servers \in [ServerIds -> GameServer]
  BY DEF Init, Game, GameServer
<1>2. launch \in Launch
  BY DEF Init, Launch, NoLaunch
<1>3. updates \in Seq(StaticUpdate) /\ waiting \in Seq(GameIds \cup {Cron})
  BY DEF Init
<1>4. TypeOK
  BY <1>0, <1>1, <1>2, <1>3 DEF Init, TypeOK, NoLaunch
<1>5. LaunchInv
  BY EmptySet DEF Init, LaunchInv, NoLaunch
<1> QED BY <1>4, <1>5

\* doLaunch() begins with the game alone.
LaunchStarts(g) ==
  /\ launch' \in Launch
  /\ launch'.step = "find" /\ launch'.game = g /\ launch'.server = NoServer
  /\ launch'.read = "no"

LEMMA StartType == ASSUME NEW g \in GameIds, DoLaunch(g) PROVE LaunchStarts(g)
<1>1. launch' = [step |-> "find", game |-> g, server |-> NoServer, read |-> "no"]
  BY DEF DoLaunch, NoLaunch
<1> QED BY <1>1 DEF LaunchStarts, Launch

\* What the launcher does, in all of its steps.
LEMMA LaunchStepType ==
  ASSUME TypeOK, LaunchInv, LaunchStep
  PROVE  TypeOK' /\ LaunchInv'
<1> USE DEF TypeOK, LaunchInv
<1>1. CASE Acquire
  <2>1. /\ Head(waiting) \in GameIds \cup {Cron}
        /\ waiting' \in Seq(GameIds \cup {Cron})
        /\ ToSet(waiting) = {Head(waiting)} \cup ToSet(waiting')
    BY <1>1, TailSet DEF Acquire
  <2>2. CASE Head(waiting) = Cron
    BY <1>1, <2>1, <2>2 DEF Acquire, InProgress, NoLaunch, Launch
  <2>3. CASE Head(waiting) # Cron
    <3>1. Head(waiting) \in GameIds
      BY <2>1, <2>3
    <3>2. launch' = [NoLaunch EXCEPT !.step = "find", !.game = Head(waiting)]
      BY <1>1, <2>3 DEF Acquire, DoLaunch
    <3>3. LaunchStarts(Head(waiting))
      BY <3>1, <3>2, StartType DEF DoLaunch
    <3> QED BY <1>1, <2>1, <2>3, <3>1, <3>3 DEF Acquire, LaunchStarts
  <2> QED BY <2>2, <2>3
<1>2. ASSUME NEW g \in GameIds, NextOrphan(g) PROVE TypeOK' /\ LaunchInv'
  BY <1>2, StartType DEF NextOrphan, LaunchStarts
<1>3. CASE FindServer
  <2>1. PICK s \in ServerIds : launch' = [launch EXCEPT !.step = "assign", !.server = s]
    BY <1>3 DEF FindServer
  <2>2. /\ launch' \in Launch /\ launch'.step = "assign" /\ launch'.server = s
        /\ launch'.game = launch.game /\ launch'.read = launch.read
    BY <2>1 DEF Launch
  <2> QED BY <1>3, <2>1, <2>2 DEF FindServer
<1>4. CASE GiveUpLaunch
  BY <1>4 DEF GiveUpLaunch, Launch, NoLaunch
<1>5. CASE AssignGameServer
  <2>1. launch.server \in ServerIds /\ launch.game \in GameIds
    BY <1>5 DEF AssignGameServer, Launch
  <2>2. servers' \in [ServerIds -> GameServer]
    <3>1. servers' = [servers EXCEPT ![launch.server] =
                        [servers[launch.server] EXCEPT !.game = launch.game]]
      BY <1>5, <2>1 DEF AssignGameServer
    <3>2. servers[launch.server] \in GameServer
      BY <2>1
    <3>3. [servers[launch.server] EXCEPT !.game = launch.game] \in GameServer
      BY <2>1, <3>2 DEF GameServer
    <3> QED BY <2>1, <3>1, <3>3
  <2>3. updates' \in Seq(StaticUpdate)
    BY <1>5, <2>1, AppendSet DEF AssignGameServer, StaticUpdate
  <2>4. launch' \in Launch /\ launch'.step = "tell" /\ launch'.game = launch.game
        /\ launch'.server = launch.server /\ launch'.read = launch.read
    BY <1>5 DEF AssignGameServer, Launch
  <2> QED BY <1>5, <2>1, <2>2, <2>3, <2>4 DEF AssignGameServer
<1>6. CASE ReadGame
  BY <1>6 DEF ReadGame, Launch
<1>7. CASE UpdateGame
  <2>1. launch.game \in GameIds /\ launch.server \in ServerIds
    BY <1>7 DEF UpdateGame, Launch
  <2>2. /\ games' = [games EXCEPT ![launch.game] = [games[launch.game] EXCEPT !.server = launch.server]]
        /\ games[launch.game].state # "none"
    BY <1>7, <2>1 DEF UpdateGame
  <2>3. games' \in [GameIds -> Game] /\ \A g \in GameIds : games'[g].state = games[g].state
    BY <2>1, <2>2 DEF Game
  <2>4. releases' \in SUBSET Release
    BY <1>7, <2>1, EndOfType DEF UpdateGame
  <2>5. /\ launch' \in Launch /\ launch'.game \in {launch.game, NoGame}
        /\ launch'.step = "idle" <=> launch'.game = NoGame
        /\ launch'.step \in {"idle", "find"} <=> launch'.server = NoServer
        /\ launch'.read # "no" => launch'.step \in {"tell", "configure"}
    BY <1>7, <2>1 DEF UpdateGame, Launch, NoLaunch
  <2> QED BY <1>7, <2>1, <2>2, <2>3, <2>4, <2>5 DEF UpdateGame
<1>8. CASE LaunchFails
  BY <1>8 DEF LaunchFails, Launch, NoLaunch
<1> QED BY <1>1, <1>2, <1>3, <1>4, <1>5, <1>6, <1>7, <1>8 DEF LaunchStep

LEMMA NextType == TypeOK /\ LaunchInv /\ [Next]_vars => TypeOK' /\ LaunchInv'
<1> SUFFICES ASSUME TypeOK, LaunchInv, [Next]_vars PROVE TypeOK' /\ LaunchInv'
  OBVIOUS
<1> USE DEF TypeOK, LaunchInv
<1>1. ASSUME NEW g \in GameIds, CreateGame(g) PROVE TypeOK' /\ LaunchInv'
  BY <1>1 DEF CreateGame, Game
<1>2. ASSUME NEW g \in GameIds, GameEnds(g) PROVE TypeOK' /\ LaunchInv'
  <2>1. games' \in [GameIds -> Game] /\ releases' \in SUBSET Release
    <3>1. games[g].server \in ServerIds \cup {NoServer}
      BY DEF Game
    <3> QED BY <1>2, <3>1, EndOfType DEF GameEnds, Game
  <2> QED BY <1>2, <2>1 DEF GameEnds, InProgress, launchVars, Game
<1>3. ASSUME NEW g \in GameIds, LaunchGame(g) PROVE TypeOK' /\ LaunchInv'
  <2>1. waiting' \in Seq(GameIds \cup {Cron}) /\ ToSet(waiting') = ToSet(waiting) \cup {g}
    BY <1>3, AppendSet DEF LaunchGame
  <2> QED BY <1>3, <2>1 DEF LaunchGame
<1>4. CASE LaunchOrphanedGames
  <2>1. waiting' \in Seq(GameIds \cup {Cron}) /\ ToSet(waiting') = ToSet(waiting) \cup {Cron}
    <3> DEFINE S == GameIds \cup {Cron}
    <3>1. waiting \in Seq(S) /\ Cron \in S /\ waiting' = Append(waiting, Cron)
      BY <1>4 DEF LaunchOrphanedGames
    <3> HIDE DEF S
    <3>2. waiting' \in Seq(S) /\ ToSet(waiting') = ToSet(waiting) \cup {Cron}
      BY <3>1, AppendSet
    <3> QED BY <3>2 DEF S
  <2> QED BY <1>4, <2>1 DEF LaunchOrphanedGames
<1>5. CASE LaunchStep
  BY <1>5, LaunchStepType
<1>6. ASSUME NEW s \in ServerIds, CheckTakenServer(s) PROVE TypeOK' /\ LaunchInv'
  <2>1. servers[s].game \in GameIds
    BY <1>6 DEF CheckTakenServer, GameServer
  <2>2. releases' \in SUBSET Release
    <3>1. [by |-> "cron", game |-> servers[s].game, server |-> s, step |-> "check",
           taken |-> FALSE] \in Release
      BY <2>1 DEF Release
    <3> QED BY <1>6, <3>1 DEF CheckTakenServer
  <2> QED BY <1>6, <2>2 DEF CheckTakenServer, launchVars
<1>7. ASSUME NEW r \in releases, CheckServer(r) \/ CheckGame(r)
      PROVE  TypeOK' /\ LaunchInv'
  <2>1. ASSUME NEW t \in BOOLEAN, GoOn(r, t) PROVE releases' \in SUBSET Release
    <3>1. releases' = (releases \ {r}) \cup {GoesOn(r, t)}
      BY <2>1, ReleaseFields DEF GoOn
    <3> QED BY <3>1, ReleaseFields
  <2>2. releases' \in SUBSET Release
    <3>1. CASE servers[r.server].game # NoGame
      <4>1. GoOn(r, TRUE) \/ releases' = releases \ {r}
        BY <1>7, <3>1 DEF CheckServer, CheckGame, GoOn
      <4> QED BY <2>1, <4>1
    <3>2. CASE servers[r.server].game = NoGame
      <4>1. GoOn(r, TRUE) \/ GoOn(r, FALSE) \/ releases' = releases \ {r}
        BY <1>7, <3>2 DEF CheckServer, CheckGame, GoOn
      <4> QED BY <2>1, <4>1
    <3> QED BY <3>1, <3>2
  <2> QED BY <1>7, <2>2 DEF CheckServer, CheckGame, launchVars
<1>8. ASSUME NEW r \in releases, ReleaseServer(r) PROVE TypeOK' /\ LaunchInv'
  <2>1. r.server \in ServerIds
    BY DEF Release
  <2>2. servers' = [servers EXCEPT ![r.server] = [servers[r.server] EXCEPT !.game = NoGame]]
    BY <1>8, <2>1 DEF ReleaseServer
  <2>3. servers' \in [ServerIds -> GameServer]
    <3>1. servers[r.server] \in GameServer
      BY <2>1
    <3>2. [servers[r.server] EXCEPT !.game = NoGame] \in GameServer
      BY <3>1 DEF GameServer
    <3> QED BY <2>1, <2>2, <3>2
  <2>4. cleanups' \in [ServerIds -> Nat]
    BY <1>8, <2>1 DEF ReleaseServer, Announcements
  <2> QED BY <1>8, <2>3, <2>4 DEF ReleaseServer, launchVars
<1>9. ASSUME NEW s \in ServerIds, CleanupServer(s) PROVE TypeOK' /\ LaunchInv'
  <2>1. updates' \in Seq(StaticUpdate)
    BY <1>9, AppendSet DEF CleanupServer, StaticUpdate
  <2>2. cleanups' \in [ServerIds -> Nat]
    BY <1>9 DEF CleanupServer
  <2> QED BY <1>9, <2>1, <2>2 DEF CleanupServer, launchVars
<1>10. CASE UpdateStaticServer
  <2>1. Head(updates) \in StaticUpdate /\ updates' \in Seq(StaticUpdate)
    BY <1>10, TailSet DEF UpdateStaticServer
  <2> DEFINE s == Head(updates).server
  <2>2. PICK c \in BOOLEAN : servers' = [servers EXCEPT ![s] = [servers[s] EXCEPT !.clean = c]]
    <3>1. CASE Head(updates).set = "clean"
      BY <1>10, <2>1, <3>1 DEF UpdateStaticServer, StaticUpdate
    <3>2. CASE Head(updates).set # "clean"
      BY <1>10, <2>1, <3>2 DEF UpdateStaticServer, StaticUpdate
    <3> QED BY <3>1, <3>2
  <2>3. s \in ServerIds
    BY <2>1 DEF StaticUpdate
  <2> HIDE DEF s
  <2>4. servers' \in [ServerIds -> GameServer]
    BY <2>2, <2>3, ServerFields
  <2> QED BY <1>10, <2>1, <2>4 DEF UpdateStaticServer, launchVars
<1>11. CASE Restart
  <2>1. servers' \in [ServerIds -> GameServer]
    <3>1. ASSUME NEW s \in ServerIds
          PROVE  [servers[s] EXCEPT !.clean = @ \/ servers[s].game = NoGame] \in GameServer
      <4> DEFINE c == servers[s].clean \/ servers[s].game = NoGame
      <4>1. c \in BOOLEAN
        OBVIOUS
      <4>2. servers[s] \in GameServer
        OBVIOUS
      <4>3. PICK d \in BOOLEAN : d = c
        BY <4>1, Zenon
      <4>4. [servers[s] EXCEPT !.clean = d] \in GameServer
        BY <4>2, ServerFields
      <4> QED BY <4>3, <4>4, Zenon
    <3> QED BY <1>11, <3>1 DEF Restart
  <2>2. /\ updates' \in Seq(StaticUpdate) /\ waiting' \in Seq(GameIds \cup {Cron})
        /\ launch' \in Launch /\ releases' = {}
        /\ launch'.step = "idle" <=> launch'.game = NoGame
        /\ launch'.step \in {"idle", "find"} <=> launch'.server = NoServer
    BY <1>11 DEF Restart, NoLaunch, Launch
  <2>3. crashes' \in 0..MaxCrashes
    BY <1>11 DEF Restart
  <2>4. TypeOK'
    BY <1>11, <2>1, <2>2, <2>3 DEF Restart
  <2>5. LaunchInv'
    BY <1>11, EmptySet DEF Restart, NoLaunch
  <2> QED BY <2>4, <2>5
<1>12. CASE UNCHANGED vars
  BY <1>12 DEF vars
<1> QED BY <1>1, <1>2, <1>3, <1>4, <1>5, <1>6, <1>7, <1>8, <1>9, <1>10, <1>11, <1>12
        DEF Next, ReleaseStep

\* Everything has its type: a launch has a server as soon as it has found one, and no
\* release is of a game or of a server that there is not.
THEOREM ServersTypeCorrect == Spec => []TypeOK
BY InitType, NextType, PTL DEF Spec

-----------------------------------------------------------------------------
(* The queue of the static servers' mutex *)

LEMMA OneEachAppend ==
  ASSUME NEW q \in Seq(StaticUpdate), OneUpdateEach(q), NEW x \in StaticUpdate,
         \A u \in ToSet(q) : u.server # x.server
  PROVE  OneUpdateEach(Append(q, x))
<1>1. /\ Len(Append(q, x)) = Len(q) + 1 /\ Len(q) \in Nat /\ DOMAIN q = 1..Len(q)
      /\ \A i \in 1..Len(q) : Append(q, x)[i] = q[i]
      /\ Append(q, x)[Len(q) + 1] = x
  OBVIOUS
<1>2. \A i \in 1..Len(q) : q[i].server # x.server
  BY <1>1 DEF ToSet
<1> QED BY <1>1, <1>2 DEF OneUpdateEach

LEMMA OneEachTail ==
  ASSUME NEW q \in Seq(StaticUpdate), OneUpdateEach(q), q # <<>>
  PROVE  /\ OneUpdateEach(Tail(q))
         /\ \A u \in ToSet(Tail(q)) : u.server # Head(q).server
<1>1. /\ DOMAIN Tail(q) = 1..(Len(q) - 1) /\ Len(Tail(q)) = Len(q) - 1
      /\ Len(q) \in Nat /\ Len(q) > 0 /\ Head(q) = q[1]
      /\ \A i \in 1..(Len(q) - 1) : Tail(q)[i] = q[i + 1]
  OBVIOUS
<1>2. OneUpdateEach(Tail(q))
  <2>1. ASSUME NEW i \in 1..(Len(q) - 1), NEW j \in 1..(Len(q) - 1),
               q[i + 1].server = q[j + 1].server
        PROVE  i = j
    <3>1. i + 1 \in 1..Len(q) /\ j + 1 \in 1..Len(q)
      BY <1>1
    <3> QED BY <2>1, <3>1 DEF OneUpdateEach
  <2> QED BY <1>1, <2>1 DEF OneUpdateEach
<1>3. ASSUME NEW i \in 1..(Len(q) - 1) PROVE q[i + 1].server # q[1].server
  <2>1. i + 1 \in 1..Len(q) /\ 1 \in 1..Len(q) /\ i + 1 # 1
    BY <1>1
  <2> QED BY <2>1 DEF OneUpdateEach
<1> QED BY <1>1, <1>2, <1>3 DEF ToSet

LEMMA ToBeDirtyIs ==
  ASSUME TypeOK, NEW s
  PROVE  ToBeDirty(s) <=> \E u \in ToSet(updates) : u.server = s /\ u.set = "dirty"
<1>1. ToSet(updates) \subseteq StaticUpdate
  BY DEF TypeOK, ToSet
<1>2. \A u \in StaticUpdate : u = [server |-> u.server, set |-> u.set]
  BY DEF StaticUpdate
<1> QED BY <1>1, <1>2 DEF ToBeDirty

-----------------------------------------------------------------------------
(* One update of a document at a time *)

LEMMA InitSerial == Init => SerialInv
<1> SUFFICES ASSUME Init PROVE SerialInv
  OBVIOUS
<1>1. FoundInv /\ GameKeepsServer
  BY DEF Init, FoundInv, NoLaunch, GameKeepsServer, InProgress
<1>2. OneUpdateEach(updates) /\ ToSet(updates) = {}
  BY EmptySet DEF Init, OneUpdateEach
<1>3. ASSUME NEW s \in ServerIds PROVE ServerInv(s)
  BY <1>2 DEF Init, ServerInv
<1> QED BY <1>1, <1>2, <1>3 DEF Init, SerialInv

\* Steps that touch neither servers, what is written to them, nor releases.
LEMMA SerialFrame ==
  ASSUME SerialInv, UNCHANGED <<games, servers, used, releases, updates, cleanups>>,
         FoundInv'
  PROVE  SerialInv'
<1>1. \A r \in releases : ReleaseInv(r) => ReleaseInv(r)'
  BY DEF ReleaseInv, Committed, Over, ToBeDirty
<1>2. \A u \in ToSet(updates) : UpdateInv(u) => UpdateInv(u)'
  BY DEF UpdateInv
<1>3. \A s \in ServerIds : ServerInv(s) => ServerInv(s)'
  BY DEF ServerInv, Pending, ToBeDirty
<1>4. GameKeepsServer'
  BY DEF SerialInv, GameKeepsServer, InProgress
<1> QED BY <1>1, <1>2, <1>3, <1>4 DEF SerialInv

LEMMA SerialCreate ==
  ASSUME TypeOK, LaunchInv, SerialInv, NEW g \in GameIds, CreateGame(g)
  PROVE  SerialInv'
<1>1. /\ \A h \in GameIds : h # g => games'[h] = games[h]
      /\ games'[g].server = NoServer /\ games[g].state = "none"
      /\ launch.game # g
  BY DEF CreateGame, LaunchInv, TypeOK
<1>2. FoundInv'
  BY <1>1 DEF CreateGame, SerialInv, FoundInv, TypeOK, Launch, InProgress, Pending
<1>3. ASSUME NEW r \in releases PROVE ReleaseInv(r)'
  <2>1. ReleaseInv(r) /\ r.game \in GameIds
    BY DEF SerialInv, TypeOK, Release
  <2> QED BY <1>1, <2>1 DEF CreateGame, ReleaseInv, Committed, Over, ToBeDirty
<1>4. \A u \in ToSet(updates) : UpdateInv(u) => UpdateInv(u)'
  BY DEF UpdateInv, CreateGame
<1>5. \A s \in ServerIds : ServerInv(s) => ServerInv(s)'
  BY DEF ServerInv, Pending, ToBeDirty, CreateGame
<1>6. GameKeepsServer'
  BY <1>1 DEF SerialInv, GameKeepsServer, InProgress, CreateGame
<1> QED BY <1>2, <1>3, <1>4, <1>5, <1>6 DEF SerialInv, CreateGame

\* A release asked for because its game is over waits for its turn.
LEMMA SerialNewRelease ==
  ASSUME NEW rs, releases' = releases \cup rs,
         UNCHANGED <<servers, updates>>,
         \A g \in GameIds : Over(g) => Over(g)',
         \A r \in rs : r.by # "cron" /\ r.step = "check" /\ Over(r.game)',
         TypeOK, SerialInv
  PROVE  \A r \in releases' : ReleaseInv(r)'
<1> SUFFICES ASSUME NEW r \in releases' PROVE ReleaseInv(r)'
  OBVIOUS
<1>1. CASE r \in rs
  BY <1>1 DEF ReleaseInv, Committed
<1>2. CASE r \in releases
  <2>1. ReleaseInv(r) /\ r.game \in GameIds
    BY <1>2 DEF SerialInv, TypeOK, Release
  <2> QED BY <2>1 DEF ReleaseInv, Committed, ToBeDirty
<1> QED BY <1>1, <1>2

LEMMA SerialEnds ==
  ASSUME TypeOK, LaunchInv, SerialInv, NEW g \in GameIds, GameEnds(g)
  PROVE  SerialInv'
<1>1. /\ \A h \in GameIds : h # g => games'[h] = games[h]
      /\ games'[g].server = games[g].server /\ games'[g].state = "over"
      /\ games[g].server \in ServerIds \cup {NoServer}
  BY DEF GameEnds, TypeOK, Game
<1>2. FoundInv'
  BY <1>1 DEF GameEnds, launchVars, SerialInv, FoundInv, TypeOK, Launch, InProgress, Pending
<1>3. \A r \in releases' : ReleaseInv(r)'
  <2>1. \A h \in GameIds : Over(h) => Over(h)'
    BY <1>1 DEF Over
  <2>2. \A r \in EndOf("end", g, games[g].server) :
          r.by # "cron" /\ r.step = "check" /\ Over(r.game)'
    BY <1>1, EndOfType DEF Over
  <2> QED BY <2>1, <2>2, SerialNewRelease DEF GameEnds
<1>4. \A u \in ToSet(updates) : UpdateInv(u) => UpdateInv(u)'
  BY DEF UpdateInv, GameEnds
<1>5. \A s \in ServerIds : ServerInv(s) => ServerInv(s)'
  BY DEF ServerInv, Pending, ToBeDirty, GameEnds
<1>6. GameKeepsServer'
  BY <1>1 DEF SerialInv, GameKeepsServer, InProgress, GameEnds
<1> QED BY <1>2, <1>3, <1>4, <1>5, <1>6 DEF SerialInv, GameEnds

LEMMA SerialAssign ==
  ASSUME TypeOK, LaunchInv, SerialInv, AssignGameServer
  PROVE  SerialInv'
<1> DEFINE s == launch.server
           u == [server |-> s, set |-> "dirty"]
<1>1. /\ s \in ServerIds /\ launch.game \in GameIds
      /\ servers[s].game = NoGame /\ servers[s].clean /\ ~ Pending(s)
  BY DEF AssignGameServer, TypeOK, Launch, SerialInv, FoundInv
<1>2. /\ \A t \in ServerIds : t # s => servers'[t] = servers[t]
      /\ servers'[s].game = launch.game /\ servers'[s].clean
  BY <1>1 DEF AssignGameServer, TypeOK, GameServer
<1>3. u \in StaticUpdate /\ updates' = Append(updates, u)
  BY <1>1 DEF AssignGameServer, StaticUpdate
<1>4. ToSet(updates') = ToSet(updates) \cup {u} /\ ToSet(updates) \subseteq StaticUpdate
  <2>1. updates \in Seq(StaticUpdate)
    BY DEF TypeOK
  <2>2. ToSet(updates') = ToSet(updates) \cup {u}
    BY <1>3, <2>1, AppendSet
  <2> QED BY <2>1, <2>2 DEF ToSet
<1>5. cleanups[s] = 0
  BY <1>1 DEF SerialInv, ServerInv, FoundInv, TypeOK
<1>6. FoundInv'
  <2>1. launch'.step = "tell" /\ launch'.game = launch.game /\ launch'.server = s
    BY DEF AssignGameServer, TypeOK, Launch
  <2> QED BY <1>2, <2>1 DEF FoundInv
<1>7. ASSUME NEW r \in releases PROVE ReleaseInv(r)'
  <2>1. ReleaseInv(r) /\ r.server \in ServerIds /\ r.game \in GameIds
    BY DEF SerialInv, TypeOK, Release
  <2>2. Committed(r) => r.server # s
    BY <1>1, <2>1 DEF ReleaseInv
  <2>3. r.server # s => (ToBeDirty(r.server)' <=> ToBeDirty(r.server))
    BY <1>4 DEF ToBeDirty
  <2> QED BY <1>2, <2>1, <2>2, <2>3 DEF ReleaseInv, Committed, Over, AssignGameServer
<1>8. OneUpdateEach(updates')
  BY <1>1, <1>3, OneEachAppend DEF SerialInv, Pending, TypeOK
<1>9. ASSUME NEW v \in ToSet(updates') PROVE UpdateInv(v)'
  <2>1. CASE v = u
    BY <1>1, <1>2, <1>5, <2>1 DEF UpdateInv, AssignGameServer
  <2>2. CASE v \in ToSet(updates)
    <3>1. UpdateInv(v) /\ v.server # s /\ v.server \in ServerIds
      BY <1>1, <1>4, <2>2 DEF SerialInv, Pending, StaticUpdate
    <3> QED BY <1>2, <3>1 DEF UpdateInv, AssignGameServer
  <2> QED BY <1>4, <2>1, <2>2
<1>10. ASSUME NEW t \in ServerIds PROVE ServerInv(t)'
  <2>1. ServerInv(t)
    BY DEF SerialInv
  <2>2. CASE t = s
    BY <1>4, <1>5, <2>2 DEF ServerInv, ToBeDirty, AssignGameServer
  <2>3. CASE t # s
    BY <1>2, <1>4, <2>1, <2>3 DEF ServerInv, ToBeDirty, Pending, AssignGameServer
  <2> QED BY <2>2, <2>3
<1>11. GameKeepsServer'
  BY <1>1, <1>2 DEF SerialInv, GameKeepsServer, InProgress, AssignGameServer, TypeOK, Game
<1> QED BY <1>6, <1>7, <1>8, <1>9, <1>10, <1>11 DEF SerialInv, AssignGameServer

LEMMA SerialUpdateGame ==
  ASSUME TypeOK, LaunchInv, SerialInv, UpdateGame
  PROVE  SerialInv'
<1> DEFINE g == launch.game
<1>1. /\ g \in GameIds /\ launch.server \in ServerIds
      /\ launch.step \in {"tell", "configure"}
  BY DEF UpdateGame, LaunchInv, TypeOK, Launch
<1>2. /\ \A h \in GameIds : games'[h].state = games[h].state
      /\ \A h \in GameIds : h # g => games'[h] = games[h]
      /\ games'[g].server = launch.server
  BY <1>1 DEF UpdateGame, TypeOK, Game
<1>3. FoundInv'
  <2>1. launch'.step \in {"configure", "idle"}
        /\ (launch'.step = "configure" => launch'.game = g /\ launch'.server = launch.server)
    BY <1>1 DEF UpdateGame, TypeOK, Launch, NoLaunch
  <2> QED BY <1>1, <1>2, <2>1 DEF SerialInv, FoundInv, InProgress, UpdateGame
<1>4. \A r \in releases' : ReleaseInv(r)'
  <2>1. \A h \in GameIds : Over(h) => Over(h)'
    BY <1>2 DEF Over
  <2> DEFINE rs == IF launch.read = "inProgress" /\ Over(g)
                   THEN EndOf("launch", g, launch.server) ELSE {}
  <2>2. releases' = releases \cup rs
    BY DEF UpdateGame
  <2>3. \A r \in rs : r.by # "cron" /\ r.step = "check" /\ Over(r.game)'
    BY <1>1, <2>1, EndOfType
  <2> HIDE DEF rs
  <2> QED BY <2>1, <2>2, <2>3, SerialNewRelease DEF UpdateGame
<1>5. \A u \in ToSet(updates) : UpdateInv(u) => UpdateInv(u)'
  BY DEF UpdateInv, UpdateGame
<1>6. \A s \in ServerIds : ServerInv(s) => ServerInv(s)'
  BY DEF ServerInv, Pending, ToBeDirty, UpdateGame
<1>7. GameKeepsServer'
  BY <1>1, <1>2 DEF SerialInv, FoundInv, GameKeepsServer, InProgress, UpdateGame
<1> QED BY <1>3, <1>4, <1>5, <1>6, <1>7 DEF SerialInv, UpdateGame

LEMMA SerialCheckTaken ==
  ASSUME TypeOK, SerialInv, Overlap = FALSE, NEW s \in ServerIds, CheckTakenServer(s)
  PROVE  SerialInv'
<1> DEFINE q == [by |-> "cron", game |-> servers[s].game, server |-> s, step |-> "check",
                 taken |-> FALSE]
<1>1. /\ releases' = releases \cup {q} /\ ~ ToBeDirty(s)
      /\ \A r \in releases : r.server # s
      /\ UNCHANGED <<games, servers, used, launchVars, updates, cleanups, crashes>>
  BY DEF CheckTakenServer
<1>2. ReleaseInv(q)'
  BY <1>1 DEF ReleaseInv, Committed, ToBeDirty
<1>3. ASSUME NEW r \in releases PROVE ReleaseInv(r)'
  <2>1. ReleaseInv(r)
    BY DEF SerialInv
  <2> QED BY <1>1, <2>1 DEF ReleaseInv, Committed, Over, ToBeDirty
<1>4. \A u \in ToSet(updates) : UpdateInv(u) => UpdateInv(u)'
  BY <1>1 DEF UpdateInv
<1>5. \A t \in ServerIds : ServerInv(t) => ServerInv(t)'
  BY <1>1 DEF ServerInv, Pending, ToBeDirty
<1>6. FoundInv' /\ GameKeepsServer'
  BY <1>1 DEF SerialInv, FoundInv, GameKeepsServer, InProgress, Pending, launchVars
<1> QED BY <1>1, <1>2, <1>3, <1>4, <1>5, <1>6 DEF SerialInv

\* A release goes on when its game is over and no other of its server has gone on.
LEMMA SerialGoesOn ==
  ASSUME TypeOK, SerialInv, NEW r \in releases, NEW rs \in SUBSET {GoesOn(r, TRUE)},
         releases' = (releases \ {r}) \cup rs,
         UNCHANGED <<games, servers, updates>>,
         Over(r.game), servers[r.server].game = r.game, ~ ToBeDirty(r.server),
         \A q \in releases : q.server = r.server /\ Committed(q) => q = r
  PROVE  \A q \in releases' : ReleaseInv(q)'
<1> SUFFICES ASSUME NEW q \in releases' PROVE ReleaseInv(q)'
  OBVIOUS
<1> DEFINE w == GoesOn(r, TRUE)
<1>1. w.server = r.server /\ w.game = r.game /\ w.step = "write" /\ rs \subseteq {w}
  BY DEF GoesOn
<1> HIDE DEF w
<1>2. CASE q = w
  BY <1>1, <1>2 DEF ReleaseInv, Committed, Over, ToBeDirty
<1>3. CASE q \in releases \ {r}
  <2>1. ReleaseInv(q)
    BY <1>3 DEF SerialInv
  <2>2. Committed(q) => q.server # r.server
    BY <1>3
  <2> QED BY <1>1, <1>3, <2>1, <2>2 DEF ReleaseInv, Committed, Over, ToBeDirty
<1> QED BY <1>1, <1>2, <1>3

LEMMA SerialCheck ==
  ASSUME TypeOK, SerialInv, Overlap = FALSE, NEW r \in releases,
         CheckServer(r) \/ CheckGame(r)
  PROVE  SerialInv'
<1>1. UNCHANGED <<games, servers, used, launchVars, updates, cleanups, crashes>>
  BY DEF CheckServer, CheckGame
<1>2. \A q \in releases' : ReleaseInv(q)'
  <2>1. ReleaseInv(r) /\ r \in Release
    BY DEF SerialInv, TypeOK
  <2>2. CASE releases' = releases \ {r}
    <3>1. ASSUME NEW q \in releases' PROVE ReleaseInv(q)'
      <4>1. q \in releases /\ ReleaseInv(q)
        BY <2>2, <3>1 DEF SerialInv
      <4> QED BY <1>1, <2>2, <4>1 DEF ReleaseInv, Committed, Over, ToBeDirty
    <3> QED BY <3>1
  <2>3. CASE GoOn(r, TRUE) /\ CheckServer(r)
    <3>1. releases' = (releases \ {r}) \cup {GoesOn(r, TRUE)}
      BY <2>1, <2>3, ReleaseFields DEF GoOn
    <3>2. \/ servers[r.server].game = r.game
          \/ releases' = releases \ {r}
      BY <2>3 DEF CheckServer
    <3>3. /\ ~ ToBeDirty(r.server) /\ Over(r.game)
          /\ \A q \in releases : q.server = r.server /\ Committed(q) => q = r
      BY <2>1, <2>3 DEF CheckServer, Alone, Committed, ReleaseInv
    <3> QED BY <1>1, <2>2, <3>1, <3>2, <3>3, SerialGoesOn
  <2>4. CASE CheckGame(r) /\ releases' # releases \ {r}
    <3>1. /\ Over(r.game) /\ servers[r.server].game = r.game /\ ~ ToBeDirty(r.server)
          /\ \A q \in releases : q.server = r.server /\ Committed(q) => q = r
      BY <2>1, <2>4 DEF CheckGame, ReleaseInv, Committed
    <3>2. servers[r.server].game # NoGame
      BY <2>1, <3>1 DEF Release
    <3>3. GoOn(r, TRUE)
      BY <2>4, <3>1, <3>2 DEF CheckGame, GoOn
    <3>4. releases' = (releases \ {r}) \cup {GoesOn(r, TRUE)}
      BY <2>1, <3>3, ReleaseFields DEF GoOn
    <3> QED BY <1>1, <3>1, <3>4, SerialGoesOn
  <2> QED BY <2>2, <2>3, <2>4 DEF CheckServer
<1>3. \A u \in ToSet(updates) : UpdateInv(u) => UpdateInv(u)'
  BY <1>1 DEF UpdateInv
<1>4. \A t \in ServerIds : ServerInv(t) => ServerInv(t)'
  BY <1>1 DEF ServerInv, Pending, ToBeDirty
<1>5. FoundInv' /\ GameKeepsServer'
  BY <1>1 DEF SerialInv, FoundInv, GameKeepsServer, InProgress, Pending, launchVars
<1> QED BY <1>1, <1>2, <1>3, <1>4, <1>5 DEF SerialInv

LEMMA SerialRelease ==
  ASSUME TypeOK, SerialInv, Overlap = FALSE, NEW r \in releases, ReleaseServer(r)
  PROVE  SerialInv'
<1> DEFINE s == r.server
<1>1. /\ s \in ServerIds /\ r.game \in GameIds /\ Over(r.game)
      /\ servers[s].game = r.game /\ ~ ToBeDirty(s)
      /\ \A q \in releases : q.server = s /\ Committed(q) => q = r
  BY DEF SerialInv, ReleaseInv, Committed, ReleaseServer, TypeOK, Release
<1>2. /\ \A t \in ServerIds : t # s => servers'[t] = servers[t] /\ cleanups'[t] = cleanups[t]
      /\ servers'[s].game = NoGame /\ servers'[s].clean = servers[s].clean
  BY <1>1 DEF ReleaseServer, TypeOK, GameServer
<1>3. servers[s].game # NoGame /\ s \in used /\ ~ servers[s].clean /\ cleanups[s] = 0
  BY <1>1 DEF SerialInv, ServerInv, TypeOK
<1>4. ~ Pending(s)
  <2>1. ToSet(updates) \subseteq StaticUpdate
    BY DEF TypeOK, ToSet
  <2>2. ASSUME NEW u \in ToSet(updates), u.server = s PROVE FALSE
    <3>1. u.set = "dirty"
      BY <1>3, <2>1, <2>2 DEF SerialInv, UpdateInv, StaticUpdate
    <3> QED BY <1>1, <2>2, <3>1, ToBeDirtyIs
  <2> QED BY <2>2 DEF Pending
<1>5. cleanups'[s] \in {0, 1}
  BY <1>1, <1>3 DEF ReleaseServer, Announcements, TypeOK
<1>6. FoundInv'
  <2>1. launch.step = "assign" => launch.server # s
    BY <1>3 DEF SerialInv, FoundInv
  <2>2. launch.step \in {"tell", "configure"} /\ InProgress(launch.game) => launch.server # s
    BY <1>1 DEF SerialInv, FoundInv, InProgress, Over
  <2>3. launch.step \in {"assign", "tell", "configure"} => launch.server \in ServerIds
    BY DEF TypeOK, Launch
  <2> QED BY <1>2, <2>1, <2>2, <2>3
          DEF SerialInv, FoundInv, InProgress, Pending, ReleaseServer, launchVars
<1>7. ASSUME NEW q \in releases' PROVE ReleaseInv(q)'
  <2>1. q \in releases /\ q # r /\ ReleaseInv(q) /\ q.server \in ServerIds
    BY <1>7 DEF ReleaseServer, SerialInv, TypeOK, Release
  <2>2. Committed(q) => q.server # s
    BY <1>1, <2>1
  <2> QED BY <1>2, <2>1, <2>2 DEF ReleaseInv, Committed, Over, ToBeDirty, ReleaseServer
<1>8. ASSUME NEW u \in ToSet(updates) PROVE UpdateInv(u)'
  <2>1. UpdateInv(u) /\ u.server \in ServerIds /\ u.server # s
    <3>1. ToSet(updates) \subseteq StaticUpdate
      BY DEF TypeOK, ToSet
    <3> QED BY <1>4, <3>1 DEF SerialInv, StaticUpdate, Pending
  <2> QED BY <1>2, <2>1 DEF UpdateInv, ReleaseServer
<1>9. ASSUME NEW t \in ServerIds PROVE ServerInv(t)'
  <2>1. ServerInv(t)
    BY DEF SerialInv
  <2>2. CASE t = s
    BY <1>2, <1>3, <1>4, <1>5, <2>2 DEF ServerInv, Pending, ReleaseServer
  <2>3. CASE t # s
    BY <1>2, <2>1, <2>3 DEF ServerInv, ToBeDirty, Pending, ReleaseServer
  <2> QED BY <2>2, <2>3
<1>10. GameKeepsServer'
  <2>1. ASSUME NEW g \in GameIds, InProgress(g), games[g].server # NoServer
        PROVE  games[g].server # s /\ games[g].server \in ServerIds
    BY <1>1, <2>1 DEF SerialInv, GameKeepsServer, InProgress, Over, TypeOK, Game
  <2> QED BY <1>2, <2>1 DEF SerialInv, GameKeepsServer, InProgress, ReleaseServer
<1> QED BY <1>6, <1>7, <1>8, <1>9, <1>10 DEF SerialInv, ReleaseServer

LEMMA SerialCleanup ==
  ASSUME TypeOK, SerialInv, NEW s \in ServerIds, CleanupServer(s)
  PROVE  SerialInv'
<1> DEFINE u == [server |-> s, set |-> "clean"]
<1>1. /\ cleanups[s] = 1 /\ servers[s].game = NoGame /\ ~ servers[s].clean /\ ~ Pending(s)
      /\ launch.server # s
  BY DEF CleanupServer, SerialInv, ServerInv
<1>2. /\ \A t \in ServerIds : t # s => cleanups'[t] = cleanups[t]
      /\ cleanups'[s] = 0
      /\ used' = used \ {s}
      /\ UNCHANGED <<games, servers, launchVars, releases, crashes>>
  BY <1>1 DEF CleanupServer, TypeOK
<1>3. u \in StaticUpdate /\ updates' = Append(updates, u) /\ updates \in Seq(StaticUpdate)
  BY DEF CleanupServer, StaticUpdate, TypeOK
<1>4. ToSet(updates') = ToSet(updates) \cup {u} /\ ToSet(updates) \subseteq StaticUpdate
  <2>1. ToSet(updates') = ToSet(updates) \cup {u}
    BY <1>3, AppendSet
  <2> QED BY <1>3, <2>1 DEF ToSet
<1>5. \A t : ToBeDirty(t)' <=> ToBeDirty(t)
  BY <1>4 DEF ToBeDirty
<1>6. FoundInv'
  BY <1>1, <1>2, <1>4 DEF SerialInv, FoundInv, InProgress, Pending, launchVars
<1>7. ASSUME NEW r \in releases PROVE ReleaseInv(r)'
  <2>1. ReleaseInv(r)
    BY DEF SerialInv
  <2> QED BY <1>2, <1>5, <2>1 DEF ReleaseInv, Committed, Over
<1>8. OneUpdateEach(updates')
  BY <1>1, <1>3, OneEachAppend DEF SerialInv, Pending
<1>9. ASSUME NEW v \in ToSet(updates') PROVE UpdateInv(v)'
  <2>1. CASE v = u
    BY <1>1, <1>2, <2>1 DEF UpdateInv
  <2>2. CASE v \in ToSet(updates)
    <3>1. UpdateInv(v) /\ v.server # s /\ v.server \in ServerIds
      BY <1>1, <1>4, <2>2 DEF SerialInv, Pending, StaticUpdate
    <3> QED BY <1>2, <3>1 DEF UpdateInv
  <2> QED BY <1>4, <2>1, <2>2
<1>10. ASSUME NEW t \in ServerIds PROVE ServerInv(t)'
  <2>1. ServerInv(t)
    BY DEF SerialInv
  <2>2. CASE t = s
    BY <1>1, <1>2, <2>2 DEF ServerInv
  <2>3. CASE t # s
    BY <1>2, <1>4, <1>5, <2>1, <2>3 DEF ServerInv, Pending
  <2> QED BY <2>2, <2>3
<1>11. GameKeepsServer'
  BY <1>2 DEF SerialInv, GameKeepsServer, InProgress
<1> QED BY <1>2, <1>6, <1>7, <1>8, <1>9, <1>10, <1>11 DEF SerialInv

LEMMA SerialStaticUpdate ==
  ASSUME TypeOK, SerialInv, UpdateStaticServer
  PROVE  SerialInv'
<1> DEFINE u == Head(updates)
           s == u.server
<1>1. /\ u \in StaticUpdate /\ s \in ServerIds /\ updates' = Tail(updates)
      /\ ToSet(updates) = {u} \cup ToSet(updates')
      /\ OneUpdateEach(updates') /\ \A v \in ToSet(updates') : v.server # s
  <2>1. updates \in Seq(StaticUpdate) /\ updates # <<>> /\ updates' = Tail(updates)
    BY DEF UpdateStaticServer, TypeOK
  <2>2. u \in StaticUpdate /\ ToSet(updates) = {u} \cup ToSet(updates')
    BY <2>1, TailSet
  <2>3. OneUpdateEach(updates') /\ \A v \in ToSet(updates') : v.server # s
    BY <2>1, OneEachTail DEF SerialInv
  <2> QED BY <2>1, <2>2, <2>3 DEF StaticUpdate
<1>2. /\ \A t \in ServerIds : t # s => servers'[t] = servers[t]
      /\ servers'[s].game = servers[s].game
      /\ servers'[s].clean <=> u.set = "clean"
      /\ UNCHANGED <<games, used, launchVars, releases, cleanups, crashes>>
  BY <1>1 DEF UpdateStaticServer, TypeOK, GameServer
<1>3. UpdateInv(u)
  BY <1>1 DEF SerialInv
<1>4. \A t : t # s => (ToBeDirty(t)' <=> ToBeDirty(t)) /\ (Pending(t)' <=> Pending(t))
  BY <1>1 DEF ToBeDirty, Pending
<1>5. \A t : ToBeDirty(t)' => ToBeDirty(t)
  BY <1>1 DEF ToBeDirty
<1> HIDE DEF u
<1>6. \A t \in ServerIds : servers'[t].game = servers[t].game
  BY <1>2
<1>7. FoundInv'
  <2>1. launch.step = "assign" => launch.server # s /\ launch.server \in ServerIds
    BY <1>1 DEF SerialInv, FoundInv, Pending, TypeOK, Launch
  <2>2. launch.step \in {"tell", "configure"} => launch.server \in ServerIds
    BY DEF TypeOK, Launch
  <2> QED BY <1>2, <1>4, <1>6, <2>1, <2>2 DEF SerialInv, FoundInv, InProgress, launchVars
<1>8. ASSUME NEW r \in releases PROVE ReleaseInv(r)'
  <2>1. ReleaseInv(r) /\ r.server \in ServerIds
    BY DEF SerialInv, TypeOK, Release
  <2> QED BY <1>2, <1>5, <1>6, <2>1 DEF ReleaseInv, Committed, Over
<1>9. ASSUME NEW v \in ToSet(updates') PROVE UpdateInv(v)'
  <2>1. UpdateInv(v) /\ v.server # s
    BY <1>1 DEF SerialInv
  <2>2. v.server \in ServerIds
    <3>1. ToSet(updates) \subseteq StaticUpdate
      BY DEF TypeOK, ToSet
    <3> QED BY <1>1, <3>1 DEF StaticUpdate
  <2> QED BY <1>2, <2>1, <2>2 DEF UpdateInv
<1>10. ASSUME NEW t \in ServerIds PROVE ServerInv(t)'
  <2>1. ServerInv(t)
    BY DEF SerialInv
  <2>2. CASE t = s
    BY <1>1, <1>2, <1>3, <2>1, <2>2 DEF ServerInv, UpdateInv, StaticUpdate, Pending
  <2>3. CASE t # s
    BY <1>2, <1>4, <2>1, <2>3 DEF ServerInv
  <2> QED BY <2>2, <2>3
<1>11. GameKeepsServer'
  BY <1>2, <1>6 DEF SerialInv, GameKeepsServer, InProgress, TypeOK, Game
<1> QED BY <1>1, <1>2, <1>7, <1>8, <1>9, <1>10, <1>11 DEF SerialInv

LEMMA SerialRestart ==
  ASSUME TypeOK, SerialInv, Overlap = FALSE, Restart
  PROVE  SerialInv'
<1>1. /\ \A s \in ServerIds : /\ servers'[s].game = servers[s].game
                              /\ servers[s].game # NoGame =>
                                   (servers'[s].clean <=> servers[s].clean)
                              /\ cleanups'[s] = 0
      /\ used' = {s \in used : servers[s].game # NoGame}
      /\ releases' = {} /\ updates' = <<>> /\ launch'.step = "idle" /\ games' = games
  BY DEF Restart, TypeOK, GameServer, NoLaunch
<1>2. ToSet(updates') = {} /\ OneUpdateEach(updates')
  BY <1>1, EmptySet DEF OneUpdateEach
<1>3. ASSUME NEW s \in ServerIds PROVE ServerInv(s)'
  <2>1. ServerInv(s) /\ ~ ToBeDirty(s)
    BY DEF SerialInv, Restart, ToBeDirty
  <2> QED BY <1>1, <2>1 DEF ServerInv
<1>4. FoundInv'
  BY <1>1 DEF FoundInv
<1>5. GameKeepsServer'
  BY <1>1 DEF SerialInv, GameKeepsServer, InProgress, TypeOK, Game
<1> QED BY <1>1, <1>2, <1>3, <1>4, <1>5 DEF SerialInv

LEMMA NextSerial ==
  ASSUME Overlap = FALSE
  PROVE  TypeOK /\ LaunchInv /\ SerialInv /\ [Next]_vars => SerialInv'
<1> SUFFICES ASSUME TypeOK, LaunchInv, SerialInv, [Next]_vars PROVE SerialInv'
  OBVIOUS
<1>1. CASE UNCHANGED vars
  <2>1. FoundInv'
    BY <1>1 DEF vars, SerialInv, FoundInv, InProgress, Pending
  <2> QED BY <1>1, <2>1, SerialFrame DEF vars
<1>2. ASSUME NEW g \in GameIds, CreateGame(g) \/ GameEnds(g) \/ LaunchGame(g)
      PROVE  SerialInv'
  <2>1. CASE LaunchGame(g)
    <3>1. FoundInv'
      BY <2>1 DEF LaunchGame, SerialInv, FoundInv, InProgress, Pending
    <3> QED BY <2>1, <3>1, SerialFrame DEF LaunchGame
  <2> QED BY <1>2, <2>1, SerialCreate, SerialEnds
<1>3. CASE LaunchOrphanedGames
  <2>1. FoundInv'
    BY <1>3 DEF LaunchOrphanedGames, SerialInv, FoundInv, InProgress, Pending
  <2> QED BY <1>3, <2>1, SerialFrame DEF LaunchOrphanedGames
<1>4. CASE Acquire
  <2>1. launch'.step \in {"idle", "find"}
    <3>1. CASE Head(waiting) = Cron
      BY <1>4, <3>1 DEF Acquire, NoLaunch
    <3>2. CASE Head(waiting) # Cron
      <4>1. launch' = [NoLaunch EXCEPT !.step = "find", !.game = Head(waiting)]
        BY <1>4, <3>2 DEF Acquire, DoLaunch
      <4> QED BY <4>1 DEF NoLaunch
    <3> QED BY <3>1, <3>2
  <2>2. FoundInv'
    BY <2>1 DEF FoundInv
  <2> QED BY <1>4, <2>2, SerialFrame DEF Acquire
<1>5. ASSUME NEW g \in GameIds, NextOrphan(g) PROVE SerialInv'
  <2>1. FoundInv'
    BY <1>5 DEF NextOrphan, DoLaunch, NoLaunch, FoundInv
  <2> QED BY <1>5, <2>1, SerialFrame DEF NextOrphan
<1>6. CASE FindServer
  <2>1. PICK s \in ServerIds : /\ servers[s].clean /\ servers[s].game = NoGame
                               /\ launch' = [launch EXCEPT !.step = "assign", !.server = s]
    BY <1>6 DEF FindServer
  <2>2. launch'.step = "assign" /\ launch'.server = s
    BY <2>1 DEF TypeOK, Launch
  <2>3. ~ Pending(s)
    <3>1. ASSUME NEW u \in ToSet(updates), u.server = s PROVE FALSE
      BY <2>1, <3>1 DEF SerialInv, UpdateInv
    <3> QED BY <3>1 DEF Pending
  <2>4. FoundInv'
    BY <1>6, <2>1, <2>2, <2>3 DEF FoundInv, FindServer, Pending
  <2> QED BY <1>6, <2>4, SerialFrame DEF FindServer
<1>7. CASE GiveUpLaunch \/ LaunchFails
  <2>1. FoundInv'
    BY <1>7 DEF GiveUpLaunch, LaunchFails, NoLaunch, FoundInv
  <2> QED BY <1>7, <2>1, SerialFrame DEF GiveUpLaunch, LaunchFails
<1>8. CASE ReadGame
  <2>1. /\ launch'.step = launch.step /\ launch'.server = launch.server
        /\ launch'.game = launch.game
    BY <1>8 DEF ReadGame, TypeOK, Launch
  <2>2. FoundInv'
    BY <1>8, <2>1 DEF ReadGame, SerialInv, FoundInv, InProgress, Pending
  <2> QED BY <1>8, <2>2, SerialFrame DEF ReadGame
<1>9. ASSUME NEW s \in ServerIds,
             CheckTakenServer(s) \/ ReleaseStep(s) \/ CleanupServer(s)
      PROVE  SerialInv'
  BY <1>9, SerialCheckTaken, SerialCheck, SerialRelease, SerialCleanup DEF ReleaseStep
<1> QED BY <1>1, <1>2, <1>3, <1>4, <1>5, <1>6, <1>7, <1>8, <1>9, SerialAssign,
           SerialUpdateGame, SerialStaticUpdate, SerialRestart
        DEF Next, LaunchStep

LEMMA SerialSpec == ASSUME Overlap = FALSE PROVE Spec => []SerialInv
<1>1. TypeOK /\ LaunchInv /\ SerialInv /\ [Next]_vars => SerialInv'
  BY NextSerial
<1> QED BY InitType, NextType, InitSerial, <1>1, PTL DEF Spec

\* When no two updates of one document overlap, a game in progress keeps the server it
\* knows of, however many games, servers and crashes there are.
THEOREM GamesKeepServers == ASSUME Overlap = FALSE PROVE Spec => []GameKeepsServer
<1>1. SerialInv => GameKeepsServer
  BY DEF SerialInv
<1> QED BY <1>1, SerialSpec, PTL

\* When no two updates of one document overlap, no clean-up reaches a server in its next
\* game, and none is skipped.
THEOREM CleanupsSpareGames == ASSUME Overlap = FALSE PROVE Spec => []CleanupSparesGames
<1>1. TypeOK /\ SerialInv => CleanupSparesGames
  BY DEF SerialInv, ServerInv, CleanupSparesGames, TypeOK
<1> QED BY <1>1, SerialSpec, ServersTypeCorrect, PTL

=============================================================================
