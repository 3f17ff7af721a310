------------------------------ MODULE Presence ------------------------------
(***************************************************************************)
(* Who is there: the websockets of the players, the players who are        *)
(* online, their bans, and the queue that they have to leave               *)
(* (src/players/services/online-players, player-bans, src/players/gateways,*)
(* and what QueueService makes of their events).                           *)
(*                                                                         *)
(* Time is counted in ticks, Timeout of which are the ten seconds of       *)
(* verifyPlayer().  What happens within the queue is in Queue.             *)
(*                                                                         *)
(* Overlap = FALSE assumes that join() takes less than a tick, and that    *)
(* what is read for the clients arrives in order.                          *)
(***************************************************************************)
EXTENDS Naturals, Sequences, SequencesExt

CONSTANTS
  Players,
  BanIds,
  NoPlayer,
  Timeout,      \* ticks before a player without a socket is taken for away
  MaxSockets,   \* bound: sockets of a player
  MaxMessages,  \* bound: messages being prepared when another one is added
  MaxCrashes,   \* bound: how often the process dies
  Overlap       \* see above

ASSUME PresenceAssumption ==
  /\ NoPlayer \notin Players
  /\ {Timeout, MaxSockets, MaxMessages} \subseteq Nat \ {0}
  /\ MaxCrashes \in Nat
  /\ Overlap \in BOOLEAN

VARIABLES
  sockets,    \* how many sockets each player has
  timers,     \* the timers set for a player, each by the ticks it has left
  online,     \* onlinePlayers
  messages,   \* player connected and disconnected messages being prepared
  shown,      \* players the clients show online
  queue,      \* players in the queue
  launching,  \* the queue is in its launching state
  joining,    \* the player whose join() holds the mutex of the queue
  restored,   \* players found in the queue by the last restart and not seen since
  bans,       \* the bans collection
  profiles,   \* profile updates being sent to a player: the bans that were read
  told,       \* bans the client of a player knows of
  crashes

socketVars == <<sockets, timers, online, messages, shown>>
queueVars == <<queue, launching, joining, restored>>
banVars == <<bans, profiles, told>>
vars == <<socketVars, queueVars, banVars, crashes>>

-----------------------------------------------------------------------------
\* missed: it has just been announced, while a join() of its player was under way
PlayerBan == [player : Players \cup {NoPlayer}, missed : BOOLEAN,
              state : {"none", "created", "announced", "checked", "revoked", "over",
                       "expired"}]

NoBan == [player |-> NoPlayer, missed |-> FALSE, state |-> "none"]

\* getPlayerActiveBans()
ActiveBans(p) ==
  {b \in BanIds : bans[b].player = p
                  /\ bans[b].state \in {"created", "announced", "checked"}}

Message == [player : Players, event : {"connected", "disconnected"}]

TypeOK ==
  /\ sockets \in [Players -> 0..MaxSockets]
  /\ timers \in [Players -> SUBSET (0..Timeout)]
  /\ {online, shown, queue, restored} \subseteq SUBSET Players
  /\ messages \in Seq(Message)
  /\ launching \in BOOLEAN
  /\ joining \in Players \cup {NoPlayer}
  /\ bans \in [BanIds -> PlayerBan]
  /\ profiles \in [Players -> Seq(SUBSET BanIds)]
  /\ told \in [Players -> SUBSET BanIds]
  /\ crashes \in 0..MaxCrashes

Init ==
  /\ sockets = [p \in Players |-> 0]
  /\ timers = [p \in Players |-> {}]
  /\ online = {}
  /\ messages = <<>>
  /\ shown = {}
  /\ queue = {}
  /\ launching = FALSE
  /\ joining = NoPlayer
  /\ restored = {}
  /\ bans = [b \in BanIds |-> NoBan]
  /\ profiles = [p \in Players |-> <<>>]
  /\ told = [p \in Players |-> {}]
  /\ crashes = 0

-----------------------------------------------------------------------------
(* Sockets *)

\* PlayersGateway reads the player before it tells the clients.
Tell(p, event) == messages' = Append(messages, [player |-> p, event |-> event])

\* A client asks for the player's bans when it starts.
Connect(p) ==
  /\ sockets[p] < MaxSockets
  /\ Len(messages) < MaxMessages
  /\ sockets' = [sockets EXCEPT ![p] = @ + 1]
  /\ IF sockets[p] = 0
     THEN /\ online' = online \cup {p}
          /\ Tell(p, "connected")
          /\ told' = [told EXCEPT ![p] = ActiveBans(p)]
     ELSE UNCHANGED <<online, messages, told>>
  /\ restored' = restored \ {p}
  /\ UNCHANGED <<timers, shown, queue, launching, joining, bans, profiles, crashes>>
\* Mutant: one timer of a player is enough.
DisconnectOnce(p) ==
  /\ sockets[p] > 0
  /\ sockets' = [sockets EXCEPT ![p] = @ - 1]
  /\ timers' = [timers EXCEPT ![p] = IF @ = {} THEN {Timeout} ELSE @]
  /\ UNCHANGED <<online, messages, shown, queueVars, banVars, crashes>>

\* Every disconnection sets a timer.
Disconnect(p) ==
  /\ sockets[p] > 0
  /\ sockets' = [sockets EXCEPT ![p] = @ - 1]
  /\ timers' = [timers EXCEPT ![p] = @ \cup {Timeout}]
  /\ UNCHANGED <<online, messages, shown, queueVars, banVars, crashes>>

\* Timers that are due go off before time goes on.
Tick ==
  /\ Overlap \/ joining = NoPlayer
  /\ \A p \in Players : 0 \notin timers[p]
  /\ timers' = [p \in Players |-> {t - 1 : t \in timers[p]}]
  /\ UNCHANGED <<sockets, online, messages, shown, queueVars, banVars, crashes>>

\* kick() does nothing while the queue is launching.
Kick(p) == queue' = IF launching THEN queue ELSE queue \ {p}
VerifyPlayer(p) ==
  /\ 0 \in timers[p]
  /\ timers' = [timers EXCEPT ![p] = @ \ {0}]
  /\ IF sockets[p] = 0
     THEN /\ online' = online \ {p}
          /\ Tell(p, "disconnected")
          /\ Kick(p)
     ELSE UNCHANGED <<online, messages, queue>>
  /\ UNCHANGED <<sockets, shown, launching, joining, restored, banVars, crashes>>

EmitMessage(i) ==
  /\ i \in DOMAIN messages
  /\ Overlap \/ i = 1
  /\ messages' = RemoveAt(messages, i)
  /\ shown' = IF messages[i].event = "connected"
              THEN shown \cup {messages[i].player} ELSE shown \ {messages[i].player}
  /\ UNCHANGED <<sockets, timers, online, queueVars, banVars, crashes>>

-----------------------------------------------------------------------------
(* The queue *)

\* join() under the mutex: the state, then the player's bans, are in order.
JoinQueue(p) ==
  /\ sockets[p] > 0
  /\ joining = NoPlayer
  /\ ~ launching
  /\ ActiveBans(p) = {}
  /\ joining' = p
  /\ UNCHANGED <<socketVars, queue, launching, restored, banVars, crashes>>

TakeSlot ==
  /\ joining # NoPlayer
  /\ queue' = queue \cup {joining}
  /\ joining' = NoPlayer
  /\ UNCHANGED <<socketVars, launching, restored, banVars, crashes>>

LeaveQueue(p) ==
  /\ sockets[p] > 0
  /\ ~ launching
  /\ queue' = queue \ {p}
  /\ UNCHANGED <<socketVars, launching, joining, restored, banVars, crashes>>

BeginLaunch ==
  /\ ~ launching
  /\ queue # {}
  /\ launching' = TRUE
  /\ UNCHANGED <<socketVars, queue, joining, restored, banVars, crashes>>

ResetQueue ==
  /\ launching
  /\ queue' = {}
  /\ launching' = FALSE
  /\ UNCHANGED <<socketVars, joining, restored, banVars, crashes>>

-----------------------------------------------------------------------------
(* Bans *)

SetBan(b, state) == bans' = [bans EXCEPT ![b].state = state, ![b].missed = FALSE]

CreateBan(b, p) ==
  /\ bans[b] = NoBan
  /\ bans' = [bans EXCEPT ![b] = [NoBan EXCEPT !.player = p, !.state = "created"]]
  /\ UNCHANGED <<socketVars, queueVars, profiles, told, crashes>>

\* The player's active bans are read as soon as the event is there, and sent on later.
UpdateProfile(p) ==
  /\ Len(profiles[p]) < MaxMessages
  /\ profiles' = [profiles EXCEPT ![p] = Append(@, ActiveBans(p)')]
\* Mutant: the queue does not hear of the ban.
AnnounceSilently(b) ==
  /\ bans[b].state = "created"
  /\ SetBan(b, "announced")
  /\ UpdateProfile(bans[b].player)
  /\ UNCHANGED <<socketVars, queueVars, told, crashes>>

\* playerBanAdded
AnnounceBan(b) ==
  /\ bans[b].state = "created"
  /\ bans' = [bans EXCEPT ![b].state = "announced",
                          ![b].missed = joining = bans[b].player]
  /\ Kick(bans[b].player)
  /\ UpdateProfile(bans[b].player)
  /\ UNCHANGED <<socketVars, launching, joining, restored, told, crashes>>

\* revokeBan(): a ban that is over is not revoked.
CheckBan(b) ==
  /\ bans[b].state = "announced"
  /\ SetBan(b, "checked")
  /\ UNCHANGED <<socketVars, queueVars, profiles, told, crashes>>

RevokeBan(b) ==
  /\ bans[b].state = "checked"
  /\ SetBan(b, "revoked")
  /\ UNCHANGED <<socketVars, queueVars, profiles, told, crashes>>
\* Mutant: the player is not told.
ForgetRevokedBan(b) ==
  /\ bans[b].state = "revoked"
  /\ SetBan(b, "over")
  /\ UNCHANGED <<socketVars, queueVars, profiles, told, crashes>>

\* playerBanRevoked
AnnounceRevokedBan(b) ==
  /\ bans[b].state = "revoked"
  /\ SetBan(b, "over")
  /\ UpdateProfile(bans[b].player)
  /\ UNCHANGED <<socketVars, queueVars, told, crashes>>

\* The end of the ban, which its player's client knows.
BanExpires(b) ==
  /\ bans[b].state = "announced"
  /\ SetBan(b, "expired")
  /\ UNCHANGED <<socketVars, queueVars, profiles, told, crashes>>

\* To the sockets the player has by now.
SendProfile(p, i) ==
  /\ i \in DOMAIN profiles[p]
  /\ Overlap \/ i = 1
  /\ profiles' = [profiles EXCEPT ![p] = RemoveAt(@, i)]
  /\ told' = IF sockets[p] > 0 THEN [told EXCEPT ![p] = profiles[p][i]] ELSE told
  /\ UNCHANGED <<socketVars, queueVars, bans, crashes>>

-----------------------------------------------------------------------------
\* The queue is restored from its cache, a launch without what it was waiting for, and
\* the bans are in the database.  Everything else starts anew; a ban that was being
\* added or revoked is not announced.
Restart ==
  /\ crashes < MaxCrashes
  /\ ~ launching
  /\ crashes' = crashes + 1
  /\ sockets' = [p \in Players |-> 0]
  /\ timers' = [p \in Players |-> {}]
  /\ online' = {}
  /\ messages' = <<>>
  /\ shown' = {}
  /\ joining' = NoPlayer
  /\ restored' = queue
  /\ bans' = [b \in BanIds |->
                IF bans[b].state = "revoked" THEN [bans[b] EXCEPT !.state = "over"]
                ELSE IF bans[b].state \in {"created", "checked"}
                     THEN [bans[b] EXCEPT !.state = "announced"]
                     ELSE bans[b]]
  /\ profiles' = [p \in Players |-> <<>>]
  /\ UNCHANGED <<queue, launching, told>>

Next ==
  \/ \E p \in Players :
       \/ Connect(p)
       \/ Disconnect(p)
       \/ VerifyPlayer(p)
       \/ JoinQueue(p)
       \/ LeaveQueue(p)
       \/ \E i \in 1..Len(profiles[p]) : SendProfile(p, i)
  \/ \E i \in 1..Len(messages) : EmitMessage(i)
  \/ Tick
  \/ TakeSlot
  \/ BeginLaunch
  \/ ResetQueue
  \/ \E b \in BanIds :
       \/ \E p \in Players : CreateBan(b, p)
       \/ AnnounceBan(b)
       \/ CheckBan(b)
       \/ RevokeBan(b)
       \/ AnnounceRevokedBan(b)
       \/ BanExpires(b)
  \/ Restart

Spec == Init /\ [][Next]_vars

-----------------------------------------------------------------------------
\* A player of the queue who is away is going to be kicked: there is a timer that finds
\* him there, also if a join() under way ended after the kick.  Only those whom the queue
\* has had since before a restart are not looked at until they connect.
AwayPlayersAreOut ==
  launching \/ \A p \in queue : sockets[p] > 0 \/ timers[p] # {} \/ p \in restored

\* The queue has nobody with a ban that was announced, unless it was announced while a
\* join() of the player, which may have looked for bans by then, was under way, while the
\* queue was launching, or around a restart.
BannedPlayersAreOut ==
  \A b \in BanIds :
    bans[b].state = "announced" /\ ~bans[b].missed /\ ~ launching /\ crashes = 0
      => bans[b].player \notin queue

\* When everything was sent, the player's client knows the bans that are active: those
\* that were revoked are gone from it, and those that expired have ended for it too.
ProfileShowsBans ==
  \A p \in Players :
    /\ sockets[p] > 0
    /\ profiles[p] = <<>>
    /\ \A b \in BanIds : bans[b].player = p => bans[b].state \notin {"created", "revoked"}
    => {b \in told[p] : bans[b].state # "expired"} = ActiveBans(p)

=============================================================================
