------------------------------- MODULE Lobby -------------------------------
(***************************************************************************)
(* What the players settle while they wait: friendships and the map vote   *)
(* (src/queue/services: friends, map-vote and map-pool), around the        *)
(* launchGame() that uses both.                                            *)
(*                                                                         *)
(* Of the queue only the slots are kept.  While a launch is in progress    *)
(* nobody leaves and no slot is free (Queue!LaunchIsUndisturbed); the rest *)
(* of the queue's rules would only restrict what happens here.  A step is  *)
(* what one await separates from the next.  The answers of the database to *)
(* several scramble() calls arrive in the order of the calls.              *)
(***************************************************************************)
EXTENDS Naturals, Sequences, FiniteSets

CONSTANTS
  Players,
  Slots,
  MedicSlots,    \* the slots of class medic, which alone may make friends
  NoPlayer,
  Maps,          \* names of maps
  NoMap,
  MapCooldown,   \* for how many games a played map is not an option
  OptionCount,   \* mapVoteOptionCount
  MaxScrambles   \* bound: scramble() calls in progress

ASSUME LobbyAssumption ==
  /\ NoPlayer \notin Players
  /\ MedicSlots \subseteq Slots
  /\ NoMap \notin Maps
  /\ IsFiniteSet(Maps) /\ Cardinality(Maps) > MapCooldown    \* the default pool
  /\ MapCooldown \in Nat \ {0}
  /\ OptionCount \in Nat \ {0}
  /\ MaxScrambles \in Nat \ {0}

VARIABLES
  seat,         \* playerId of the slots
  friendships,  \* <<sourcePlayerId, targetPlayerId>>
  votes,        \* <<playerId, map>>
  options,      \* mapOptions
  pool,         \* names in the maps collection
  cooldown,     \* cooldown of the maps in it
  change,       \* what the admin's operation on the pool does next
  asked,        \* scramble() calls whose query was not executed yet
  found,        \* answers to the others, in order
  launch        \* the launchGame() in progress

poolVars == <<pool, cooldown, change>>
scrambleVars == <<asked, found>>
vars == <<seat, friendships, votes, options, pool, cooldown, change, asked, found,
          launch>>

-----------------------------------------------------------------------------
EmptySeats == [s \in Slots |-> NoPlayer]

InQueue(p) == \E s \in Slots : seat[s] = p

IsMedic(p, seats) == \E s \in MedicSlots : seats[s] = p

Rested == {m \in pool : cooldown[m] = 0}

\* The first OptionCount of the shuffled maps.
MapOptions(ms) ==
  {S \in SUBSET ms : Cardinality(S) = IF Cardinality(ms) < OptionCount
                                      THEN Cardinality(ms) ELSE OptionCount}

VoteCount(m) == Cardinality({v \in votes : v[2] = m})

Launch == [step : {"idle", "coolDown", "markPlayed", "create", "reset"},
           map : Maps \cup {NoMap}, friends : SUBSET (Players \X Players)]

NoLaunch == [step |-> "idle", map |-> NoMap, friends |-> {}]

TypeOK ==
  /\ seat \in [Slots -> Players \cup {NoPlayer}]
  /\ friendships \in SUBSET (Players \X Players)
  /\ votes \in SUBSET (Players \X Maps)
  /\ options \in SUBSET Maps
  /\ pool \in SUBSET Maps
  /\ cooldown \in [Maps -> 0..MapCooldown]
  /\ change \in {"none", "insert", "refresh"}
  /\ asked \in 0..MaxScrambles
  /\ found \in Seq(SUBSET Maps)
  /\ launch \in Launch

\* The pool is large enough for its cooldowns.
Enough(ms) == Cardinality(ms) > MapCooldown

\* onModuleInit() has scrambled the maps of the default pool.
Init ==
  /\ seat = EmptySeats
  /\ friendships = {}
  /\ votes = {}
  /\ pool \in {ms \in SUBSET Maps : Enough(ms)}
  /\ options \in MapOptions(pool)
  /\ cooldown = [m \in Maps |-> 0]
  /\ change = "none"
  /\ asked = 0
  /\ found = <<>>
  /\ launch = NoLaunch

-----------------------------------------------------------------------------
(* The slots *)

\* cleanupFriendships(), at every change of the slots.
CleanupFriendships(seats) == {f \in friendships : IsMedic(f[1], seats)}

\* A player takes a free slot, perhaps from another one.
Join(p, s) ==
  /\ seat[s] = NoPlayer
  /\ seat' = [t \in Slots |-> IF t = s THEN p
                              ELSE IF seat[t] = p THEN NoPlayer ELSE seat[t]]
  /\ friendships' = CleanupFriendships(seat')
  /\ UNCHANGED <<votes, options, poolVars, scrambleVars, launch>>

\* leave() or kick(): playerLeavesQueue takes the player's vote along.
Leave(p) ==
  /\ launch.step = "idle"
  /\ InQueue(p)
  /\ seat' = [s \in Slots |-> IF seat[s] = p THEN NoPlayer ELSE seat[s]]
  /\ friendships' = CleanupFriendships(seat')
  /\ votes' = {v \in votes : v[1] # p}
  /\ UNCHANGED <<options, poolVars, scrambleVars, launch>>

-----------------------------------------------------------------------------
(* Friends *)

\* Mutant: the target may have a friend already.
MarkAnyFriend(p, q) ==
  /\ launch.step = "idle"
  /\ IsMedic(p, seat)
  /\ InQueue(q) /\ ~ IsMedic(q, seat)
  /\ friendships' = {f \in friendships : f[1] # p} \cup {<<p, q>>}
  /\ UNCHANGED <<seat, votes, options, poolVars, scrambleVars, launch>>

MarkFriend(p, q) ==
  /\ launch.step = "idle"
  /\ IsMedic(p, seat)
  /\ InQueue(q) /\ ~ IsMedic(q, seat)
  /\ \A f \in friendships : f[2] # q
  /\ friendships' = {f \in friendships : f[1] # p} \cup {<<p, q>>}
  /\ UNCHANGED <<seat, votes, options, poolVars, scrambleVars, launch>>

UnmarkFriend(p) ==
  /\ launch.step = "idle"
  /\ friendships' = {f \in friendships : f[1] # p}
  /\ UNCHANGED <<seat, votes, options, poolVars, scrambleVars, launch>>

-----------------------------------------------------------------------------
(* The vote *)

VoteForMap(p, m) ==
  /\ m \in options
  /\ InQueue(p)
  /\ votes' = {v \in votes : v[1] # p} \cup {<<p, m>>}
  /\ UNCHANGED <<seat, friendships, options, poolVars, scrambleVars, launch>>

\* Bound: no more than MaxScrambles calls at once.
AskForMaps == /\ asked + Len(found) < MaxScrambles
              /\ asked' = asked + 1
              /\ UNCHANGED found

\* An admin asks for other options.
ScrambleMaps ==
  /\ AskForMaps
  /\ UNCHANGED <<seat, friendships, votes, options, poolVars, launch>>

\* The query of a scramble() is executed, ...
FindMaps ==
  /\ asked > 0
  /\ asked' = asked - 1
  /\ found' = Append(found, Rested)
  /\ UNCHANGED <<seat, friendships, votes, options, poolVars, launch>>

\* Mutant: the votes stay.
ScrambleKeepingVotes ==
  /\ found # <<>>
  /\ options' \in MapOptions(Head(found))
  /\ found' = Tail(found)
  /\ UNCHANGED <<votes, seat, friendships, poolVars, asked, launch>>

\* ... and its answer arrives.
Scramble ==
  /\ found # <<>>
  /\ options' \in MapOptions(Head(found))
  /\ votes' = {}
  /\ found' = Tail(found)
  /\ UNCHANGED <<seat, friendships, poolVars, asked, launch>>

-----------------------------------------------------------------------------
(* The map pool.  Bounds: the admins change it one after the other and leave enough
   maps in it. *)

AddMap(m) ==
  /\ change = "none"
  /\ m \notin pool
  /\ pool' = pool \cup {m}
  /\ cooldown' = [cooldown EXCEPT ![m] = 0]
  /\ change' = "refresh"
  /\ UNCHANGED <<seat, friendships, votes, options, scrambleVars, launch>>

RemoveMap(m) ==
  /\ change = "none"
  /\ m \in pool
  /\ Enough(pool \ {m})
  /\ pool' = pool \ {m}
  /\ change' = "refresh"
  /\ UNCHANGED <<cooldown, seat, friendships, votes, options, scrambleVars, launch>>

\* setMaps() deletes the maps and then inserts the new ones.
DeleteMaps ==
  /\ change = "none"
  /\ pool' = {}
  /\ change' = "insert"
  /\ UNCHANGED <<cooldown, seat, friendships, votes, options, scrambleVars, launch>>

InsertMaps(ms) ==
  /\ change = "insert"
  /\ Enough(ms)
  /\ pool' = ms
  /\ cooldown' = [m \in Maps |-> 0]
  /\ change' = "refresh"
  /\ UNCHANGED <<seat, friendships, votes, options, scrambleVars, launch>>

\* refreshMaps() has read the pool and emits mapPoolChange.
RefreshMaps ==
  /\ change = "refresh"
  /\ change' = "none"
  /\ AskForMaps
  /\ UNCHANGED <<pool, cooldown, seat, friendships, votes, options, launch>>

-----------------------------------------------------------------------------
(* launchGame() *)

\* The friendships are read and getWinner() counts the votes; with no options it
\* throws (Fail).
StartLaunch ==
  /\ launch.step = "idle"
  /\ \A s \in Slots : seat[s] # NoPlayer
  /\ \E m \in options :
       /\ \A n \in options : VoteCount(n) <= VoteCount(m)
       /\ launch' = [step |-> "coolDown", map |-> m, friends |-> friendships]
  /\ UNCHANGED <<seat, friendships, votes, options, poolVars, scrambleVars>>

\* The maps that are resting have one game less to rest, ...
CoolDown ==
  /\ launch.step = "coolDown"
  /\ cooldown' = [m \in Maps |-> IF m \in pool /\ cooldown[m] > 0
                                 THEN cooldown[m] - 1 ELSE cooldown[m]]
  /\ launch' = [launch EXCEPT !.step = "markPlayed"]
  /\ UNCHANGED <<seat, friendships, votes, options, pool, change, scrambleVars>>

\* Mutant: the next scramble is not scheduled.
MarkPlayedSilently ==
  /\ launch.step = "markPlayed"
  /\ cooldown' = IF launch.map \in pool
                 THEN [cooldown EXCEPT ![launch.map] = MapCooldown] ELSE cooldown
  /\ launch' = [launch EXCEPT !.step = "create"]
  /\ UNCHANGED <<scrambleVars, seat, friendships, votes, options, pool, change>>

\* ... and the winner starts to, if it is still in the pool.
MarkPlayed ==
  /\ launch.step = "markPlayed"
  /\ cooldown' = IF launch.map \in pool
                 THEN [cooldown EXCEPT ![launch.map] = MapCooldown] ELSE cooldown
  /\ launch' = [launch EXCEPT !.step = "create"]
  /\ AskForMaps
  /\ UNCHANGED <<seat, friendships, votes, options, pool, change>>

\* The two medics play in different teams, the other friends can be accommodated
\* (PickTeams!LineupIsFound).
LineupExists(friends) ==
  \A f \in friends : ~ (IsMedic(f[1], seat) /\ IsMedic(f[2], seat))

CreateGame ==
  /\ launch.step = "create"
  /\ LineupExists(launch.friends)
  /\ launch' = [launch EXCEPT !.step = "reset"]
  /\ UNCHANGED <<seat, friendships, votes, options, poolVars, scrambleVars>>

\* reset() empties the slots; no player is said to leave the queue.
Reset ==
  /\ launch.step = "reset"
  /\ seat' = EmptySeats
  /\ friendships' = CleanupFriendships(seat')
  /\ launch' = NoLaunch
  /\ UNCHANGED <<votes, options, poolVars, scrambleVars>>

\* The process dies, for instance of a launch without options or without a
\* line-up, and starts again with the slots it has cached or none.  An empty pool
\* is filled with the default maps, and the options are drawn before anybody is
\* served.
Restart ==
  /\ seat' \in {seat, EmptySeats}
  /\ friendships' = {}
  /\ votes' = {}
  /\ pool' = IF pool = {} THEN Maps ELSE pool
  /\ cooldown' = IF pool = {} THEN [m \in Maps |-> 0] ELSE cooldown
  /\ options' \in MapOptions({m \in pool' : cooldown'[m] = 0})
  /\ change' = "none"
  /\ asked' = 0
  /\ found' = <<>>
  /\ launch' = NoLaunch

Next ==
  \/ \E p \in Players :
       \/ \E s \in Slots : Join(p, s)
       \/ Leave(p)
       \/ \E q \in Players : MarkFriend(p, q)
       \/ UnmarkFriend(p)
       \/ \E m \in Maps : VoteForMap(p, m)
  \/ ScrambleMaps
  \/ FindMaps
  \/ Scramble
  \/ \E m \in Maps : AddMap(m) \/ RemoveMap(m)
  \/ DeleteMaps
  \/ \E ms \in SUBSET Maps : InsertMaps(ms)
  \/ RefreshMaps
  \/ StartLaunch
  \/ CoolDown
  \/ MarkPlayed
  \/ CreateGame
  \/ Reset
  \/ Restart

Spec == Init /\ [][Next]_vars

-----------------------------------------------------------------------------
\* A medic has one friend and a friend one medic, whatever slots they move
\* between, and who is no medic any more has none.
FriendshipsAreSound ==
  /\ \A f \in friendships : IsMedic(f[1], seat) /\ f[1] # f[2]
  /\ \A f, g \in friendships : f[1] = g[1] \/ f[2] = g[2] => f = g

\* Every vote counts for an option there is, and nobody has two.
VotesAreCounted ==
  /\ \A v \in votes : v[2] \in options
  /\ \A v, w \in votes : v[1] = w[1] => v = w

NoScramble == asked = 0 /\ found = <<>>

\* Once every scramble has ended the options are maps of the pool that have rested,
\* though the pool and the cooldowns may change between a query and its answer.
OptionsAreRested == NoScramble /\ change = "none" => options \subseteq Rested

\* The vote does not run out of options for good: an empty vote comes from a pool
\* being replaced and the scramble that ends it is on its way.
EmptyVoteEnds == options = {} => change # "none" \/ ~ NoScramble

\* Some map has rested, so that the next scramble finds one.
SomeMapRested == change = "insert" \/ Rested # {}

-----------------------------------------------------------------------------
\* "Automatically launches a game once the queue is ready to play it"
\* (auto-game-launcher.service.ts:10): a line-up exists for the friends of a launch.
LaunchHasLineup == launch.step = "create" => LineupExists(launch.friends)
=============================================================================
