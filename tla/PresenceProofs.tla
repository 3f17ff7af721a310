--------------------------- MODULE PresenceProofs ---------------------------
(***************************************************************************)
(* Theorems about Presence, for all players and bans, any number of        *)
(* sockets, and any length of a timer.                                     *)
(***************************************************************************)
EXTENDS Presence, SequenceTheorems, TLAPS

USE PresenceAssumption

-----------------------------------------------------------------------------
(* Types *)

LEMMA RemoveAtType ==
  ASSUME NEW S, NEW s \in Seq(S), NEW i \in 1..Len(s)
  PROVE  RemoveAt(s, i) \in Seq(S)
<1>1. Len(s) \in Nat /\ \A j \in 1..Len(s) : s[j] \in S
  BY LenProperties
<1>2. SubSeq(s, 1, i - 1) \in Seq(S)
  <2>1. \A j \in 1..(i - 1) : s[j] \in S
    BY <1>1
  <2> QED BY <1>1, <2>1, SubSeqProperties
<1>3. SubSeq(s, i + 1, Len(s)) \in Seq(S)
  <2>1. \A j \in (i + 1)..Len(s) : s[j] \in S
    BY <1>1
  <2> QED BY <1>1, <2>1, SubSeqProperties
<1> QED BY <1>2, <1>3, ConcatProperties DEF RemoveAt

LEMMA MessageType ==
  ASSUME TypeOK, NEW p \in Players, NEW event \in {"connected", "disconnected"},
         Tell(p, event)
  PROVE  messages' \in Seq(Message)
<1>1. [player |-> p, event |-> event] \in Message
  BY DEF Message
<1> QED BY <1>1, AppendProperties DEF Tell, TypeOK

LEMMA ProfilesType ==
  ASSUME TypeOK, NEW p, UpdateProfile(p)
  PROVE  profiles' \in [Players -> Seq(SUBSET BanIds)]
<1>1. ActiveBans(p)' \in SUBSET BanIds
  BY DEF ActiveBans
<1>2. ASSUME p \in Players PROVE Append(profiles[p], ActiveBans(p)') \in Seq(SUBSET BanIds)
  BY <1>1, <1>2, AppendProperties DEF TypeOK
<1> HIDE DEF ActiveBans
<1> QED BY <1>2 DEF UpdateProfile, TypeOK

LEMMA BansType ==
  ASSUME TypeOK, NEW b \in BanIds,
         NEW state \in {"announced", "checked", "revoked", "over", "expired"},
         SetBan(b, state)
  PROVE  bans' \in [BanIds -> PlayerBan]
<1>1. bans' = [bans EXCEPT ![b] = [[bans[b] EXCEPT !.state = state] EXCEPT !.missed = FALSE]]
  BY DEF SetBan, TypeOK
<1>2. bans[b] \in PlayerBan
  BY DEF TypeOK
<1>3. [[bans[b] EXCEPT !.state = state] EXCEPT !.missed = FALSE] \in PlayerBan
  BY <1>2 DEF PlayerBan
<1> QED BY <1>1, <1>3 DEF TypeOK

LEMMA InitType == Init => TypeOK
<1> SUFFICES ASSUME Init PROVE TypeOK
  OBVIOUS
<1>1. messages \in Seq(Message) /\ profiles \in [Players -> Seq(SUBSET BanIds)]
  <2>1. <<>> \in Seq(Message) /\ <<>> \in Seq(SUBSET BanIds)
    BY EmptySeq
  <2> QED BY <2>1 DEF Init
<1>2. bans \in [BanIds -> PlayerBan]
  BY DEF Init, NoBan, PlayerBan
<1>3. /\ sockets \in [Players -> 0..MaxSockets]
      /\ timers \in [Players -> SUBSET (0..Timeout)]
      /\ told \in [Players -> SUBSET BanIds]
      /\ crashes \in 0..MaxCrashes
  BY DEF Init
<1>4. /\ {online, shown, queue, restored} \subseteq SUBSET Players
      /\ launching \in BOOLEAN
      /\ joining \in Players \cup {NoPlayer}
  BY DEF Init
<1> QED BY <1>1, <1>2, <1>3, <1>4 DEF TypeOK

LEMMA NextType == TypeOK /\ [Next]_vars => TypeOK'
<1> SUFFICES ASSUME TypeOK, [Next]_vars PROVE TypeOK'
  OBVIOUS
<1> USE DEF TypeOK, socketVars, queueVars, banVars
<1>1. ASSUME NEW p \in Players, Connect(p) PROVE TypeOK'
  <2>1. messages' \in Seq(Message)
    <3>1. Tell(p, "connected") \/ messages' = messages
      BY <1>1 DEF Connect
    <3>2. Tell(p, "connected") => messages' \in Seq(Message)
      BY MessageType
    <3> QED BY <3>1, <3>2
  <2>2. told' \in [Players -> SUBSET BanIds]
    <3>1. ActiveBans(p) \in SUBSET BanIds
      BY DEF ActiveBans
    <3>2. told' = told \/ told' = [told EXCEPT ![p] = ActiveBans(p)]
      BY <1>1 DEF Connect
    <3> HIDE DEF ActiveBans
    <3> QED BY <3>1, <3>2
  <2>3. sockets' \in [Players -> 0..MaxSockets]
    BY <1>1 DEF Connect
  <2> QED BY <1>1, <2>1, <2>2, <2>3 DEF Connect
<1>2. ASSUME NEW p \in Players, Disconnect(p) PROVE TypeOK'
  BY <1>2 DEF Disconnect
<1>3. CASE Tick
  <2>1. \A p \in Players : {t - 1 : t \in timers[p]} \in SUBSET (0..Timeout)
    BY <1>3 DEF Tick
  <2> QED BY <1>3, <2>1 DEF Tick
<1>4. ASSUME NEW p \in Players, VerifyPlayer(p) PROVE TypeOK'
  <2>1. messages' \in Seq(Message)
    BY <1>4, MessageType DEF VerifyPlayer
  <2> QED BY <1>4, <2>1 DEF VerifyPlayer, Kick
<1>5. ASSUME NEW i \in 1..Len(messages), EmitMessage(i) PROVE TypeOK'
  <2>1. messages' \in Seq(Message)
    BY <1>5, RemoveAtType DEF EmitMessage
  <2>2. messages[i] \in Message
    BY <1>5, LenProperties
  <2>3. shown' \in SUBSET Players
    BY <1>5, <2>2 DEF EmitMessage, Message
  <2> QED BY <1>5, <2>1, <2>3 DEF EmitMessage
<1>6. ASSUME NEW p \in Players, JoinQueue(p) \/ LeaveQueue(p) PROVE TypeOK'
  <2>1. queue' \in SUBSET Players /\ joining' \in Players \cup {NoPlayer}
    BY <1>6 DEF JoinQueue, LeaveQueue
  <2>2. UNCHANGED <<socketVars, launching, restored, banVars, crashes>>
    BY <1>6 DEF JoinQueue, LeaveQueue
  <2> QED BY <2>1, <2>2
<1>7. CASE TakeSlot \/ BeginLaunch \/ ResetQueue
  <2>1. /\ queue' \in SUBSET Players
        /\ launching' \in BOOLEAN
        /\ joining' \in Players \cup {NoPlayer}
    BY <1>7 DEF TakeSlot, BeginLaunch, ResetQueue
  <2>2. UNCHANGED <<socketVars, restored, banVars, crashes>>
    BY <1>7 DEF TakeSlot, BeginLaunch, ResetQueue
  <2> QED BY <2>1, <2>2
<1>8. ASSUME NEW b \in BanIds, NEW p \in Players, CreateBan(b, p) PROVE TypeOK'
  <2>1. [NoBan EXCEPT !.player = p, !.state = "created"] \in PlayerBan
    BY DEF NoBan, PlayerBan
  <2> QED BY <1>8, <2>1 DEF CreateBan
<1>9. ASSUME NEW b \in BanIds, AnnounceBan(b) PROVE TypeOK'
  <2>1. bans' \in [BanIds -> PlayerBan]
    <3>1. bans' = [bans EXCEPT ![b] = [[bans[b] EXCEPT !.state = "announced"]
                                         EXCEPT !.missed = (joining = bans[b].player)]]
      BY <1>9 DEF AnnounceBan
    <3>2. bans[b] \in PlayerBan
      OBVIOUS
    <3>3. [[bans[b] EXCEPT !.state = "announced"]
             EXCEPT !.missed = (joining = bans[b].player)] \in PlayerBan
      BY <3>2 DEF PlayerBan
    <3> QED BY <3>1, <3>3
  <2>2. profiles' \in [Players -> Seq(SUBSET BanIds)]
    BY <1>9, ProfilesType DEF AnnounceBan
  <2>3. queue' \in SUBSET Players
    BY <1>9 DEF AnnounceBan, Kick
  <2> QED BY <1>9, <2>1, <2>2, <2>3 DEF AnnounceBan
<1>10. ASSUME NEW b \in BanIds, CheckBan(b) \/ RevokeBan(b) \/ BanExpires(b) PROVE TypeOK'
  <2>1. bans' \in [BanIds -> PlayerBan]
    BY <1>10, BansType DEF CheckBan, RevokeBan, BanExpires
  <2> QED BY <1>10, <2>1 DEF CheckBan, RevokeBan, BanExpires
<1>11. ASSUME NEW b \in BanIds, AnnounceRevokedBan(b) PROVE TypeOK'
  <2>1. bans' \in [BanIds -> PlayerBan]
    BY <1>11, BansType DEF AnnounceRevokedBan
  <2>2. profiles' \in [Players -> Seq(SUBSET BanIds)]
    BY <1>11, ProfilesType DEF AnnounceRevokedBan
  <2> QED BY <1>11, <2>1, <2>2 DEF AnnounceRevokedBan
<1>12. ASSUME NEW p \in Players, NEW i \in 1..Len(profiles[p]), SendProfile(p, i)
       PROVE  TypeOK'
  <2>1. RemoveAt(profiles[p], i) \in Seq(SUBSET BanIds)
    BY RemoveAtType
  <2>2. profiles[p][i] \in SUBSET BanIds
    BY LenProperties
  <2> QED BY <1>12, <2>1, <2>2 DEF SendProfile
<1>13. CASE Restart
  <2>1. messages' \in Seq(Message) /\ profiles' \in [Players -> Seq(SUBSET BanIds)]
    BY <1>13, EmptySeq DEF Restart
  <2>2. bans' \in [BanIds -> PlayerBan]
    <3>1. ASSUME NEW b \in BanIds
          PROVE  /\ [bans[b] EXCEPT !.state = "over"] \in PlayerBan
                 /\ [bans[b] EXCEPT !.state = "announced"] \in PlayerBan
                 /\ bans[b] \in PlayerBan
      <4>1. bans[b] \in PlayerBan
        OBVIOUS
      <4> QED BY <4>1 DEF PlayerBan
    <3>2. bans' = [b \in BanIds |->
                     IF bans[b].state = "revoked" THEN [bans[b] EXCEPT !.state = "over"]
                     ELSE IF bans[b].state \in {"created", "checked"}
                          THEN [bans[b] EXCEPT !.state = "announced"] ELSE bans[b]]
      BY <1>13 DEF Restart
    <3>3. \A b \in BanIds : bans'[b] \in PlayerBan
      BY <3>1, <3>2
    <3> QED BY <3>2, <3>3
  <2>3. crashes' \in 0..MaxCrashes
    BY <1>13 DEF Restart
  <2>4. /\ sockets' \in [Players -> 0..MaxSockets]
        /\ timers' \in [Players -> SUBSET (0..Timeout)]
    BY <1>13 DEF Restart
  <2>5. /\ {online', shown', queue', restored'} \subseteq SUBSET Players
        /\ joining' \in Players \cup {NoPlayer}
        /\ UNCHANGED <<launching, told>>
    BY <1>13 DEF Restart
  <2> QED BY <2>1, <2>2, <2>3, <2>4, <2>5
<1>14. CASE UNCHANGED vars
  BY <1>14 DEF vars
<1> QED
  BY <1>1, <1>2, <1>3, <1>4, <1>5, <1>6, <1>7, <1>8, <1>9, <1>10, <1>11, <1>12, <1>13,
     <1>14 DEF Next

\* Everything has its type, whatever is in flight.
THEOREM PresenceTypeCorrect == Spec => []TypeOK
BY InitType, NextType, PTL DEF Spec

-----------------------------------------------------------------------------
(* Players who are away *)

\* A timer that is still going to find the player away when the join() under way, which
\* takes less than a tick, has ended.
AwayInv ==
  /\ AwayPlayersAreOut
  /\ joining # NoPlayer =>
       \/ sockets[joining] > 0
       \/ \E t \in timers[joining] : t > 0

LEMMA NextAway ==
  TypeOK /\ Overlap = FALSE /\ AwayInv /\ [Next]_vars => AwayInv'
<1> SUFFICES ASSUME TypeOK, Overlap = FALSE, AwayInv, [Next]_vars PROVE AwayInv'
  OBVIOUS
<1> USE DEF AwayInv, AwayPlayersAreOut
<1>0. ASSUME UNCHANGED <<sockets, timers, queue, launching, joining, restored>>
      PROVE  AwayInv'
  BY <1>0
<1>1. ASSUME NEW p \in Players, Connect(p) PROVE AwayInv'
  <2>1. \A q \in Players : sockets'[q] = IF q = p THEN sockets[p] + 1 ELSE sockets[q]
    BY <1>1 DEF Connect, TypeOK
  <2>2. /\ sockets[p] \in Nat
        /\ restored' = restored \ {p}
        /\ UNCHANGED <<timers, queue, launching, joining>>
    BY <1>1 DEF Connect, TypeOK
  <2>3. queue \subseteq Players /\ joining \in Players \cup {NoPlayer}
    BY DEF TypeOK
  <2> QED BY <2>1, <2>2, <2>3
<1>2. ASSUME NEW p \in Players, Disconnect(p) PROVE AwayInv'
  <2>1. /\ \A q \in Players : q # p => sockets'[q] = sockets[q] /\ timers'[q] = timers[q]
        /\ Timeout \in timers'[p]
        /\ UNCHANGED <<queue, launching, joining, restored>>
    BY <1>2 DEF Disconnect, TypeOK, queueVars
  <2>2. queue \subseteq Players /\ joining \in Players \cup {NoPlayer}
    BY DEF TypeOK
  <2> QED BY <2>1, <2>2
<1>3. CASE Tick
  <2>1. /\ joining = NoPlayer
        /\ \A p \in Players : timers[p] # {} => timers'[p] # {}
        /\ UNCHANGED <<sockets, queue, launching, joining, restored>>
    BY <1>3 DEF Tick, queueVars
  <2>2. queue \subseteq Players
    BY DEF TypeOK
  <2> QED BY <2>1, <2>2
<1>4. ASSUME NEW p \in Players, VerifyPlayer(p) PROVE AwayInv'
  <2>1. /\ \A q \in Players : q # p => timers'[q] = timers[q]
        /\ timers'[p] = timers[p] \ {0}
        /\ UNCHANGED <<sockets, launching, joining, restored>>
    BY <1>4 DEF VerifyPlayer, TypeOK
  <2>2. queue' \subseteq queue /\ (launching \/ sockets[p] > 0 \/ p \notin queue')
    BY <1>4 DEF VerifyPlayer, Kick, TypeOK
  <2>3. queue \subseteq Players /\ joining \in Players \cup {NoPlayer}
    BY DEF TypeOK
  <2> QED BY <2>1, <2>2, <2>3
<1>5. ASSUME NEW p \in Players, JoinQueue(p) PROVE AwayInv'
  BY <1>5 DEF JoinQueue, socketVars
<1>6. ASSUME NEW p \in Players, LeaveQueue(p) PROVE AwayInv'
  BY <1>6 DEF LeaveQueue, socketVars
<1>7. CASE TakeSlot
  BY <1>7 DEF TakeSlot, socketVars
<1>8. CASE BeginLaunch \/ ResetQueue
  BY <1>8 DEF BeginLaunch, ResetQueue, socketVars
<1>9. ASSUME NEW b \in BanIds, AnnounceBan(b) PROVE AwayInv'
  <2>1. /\ queue' \subseteq queue
        /\ UNCHANGED <<sockets, timers, launching, joining, restored>>
    BY <1>9 DEF AnnounceBan, Kick, socketVars
  <2> QED BY <2>1
<1>10. CASE Restart
  BY <1>10 DEF Restart
<1>11. CASE UNCHANGED vars
  BY <1>0, <1>11 DEF vars, socketVars, queueVars
<1>12. ASSUME NEW i \in 1..Len(messages), EmitMessage(i) PROVE AwayInv'
  BY <1>0, <1>12 DEF EmitMessage, queueVars
<1>13. ASSUME NEW b \in BanIds, NEW p \in Players, CreateBan(b, p) PROVE AwayInv'
  BY <1>0, <1>13 DEF CreateBan, socketVars, queueVars
<1>14. ASSUME NEW b \in BanIds,
              CheckBan(b) \/ RevokeBan(b) \/ AnnounceRevokedBan(b) \/ BanExpires(b)
       PROVE  AwayInv'
  BY <1>0, <1>14
  DEF CheckBan, RevokeBan, AnnounceRevokedBan, BanExpires, socketVars, queueVars
<1>15. ASSUME NEW p \in Players, NEW i \in 1..Len(profiles[p]), SendProfile(p, i)
       PROVE  AwayInv'
  BY <1>0, <1>15 DEF SendProfile, socketVars, queueVars
<1> QED
  BY <1>1, <1>2, <1>3, <1>4, <1>5, <1>6, <1>7, <1>8, <1>9, <1>10, <1>11, <1>12, <1>13,
     <1>14, <1>15 DEF Next

\* If join() takes less than a tick, no player who is away stays in the queue: one of
\* the timers of his disconnections is still to come, however often he came back.
THEOREM AwayPlayersLeave ==
  ASSUME Overlap = FALSE
  PROVE  Spec => []AwayPlayersAreOut
<1>1. Init => AwayInv
  BY DEF Init, AwayInv, AwayPlayersAreOut
<1>2. AwayInv => AwayPlayersAreOut
  BY DEF AwayInv
<1>3. TypeOK /\ AwayInv /\ [Next]_vars => AwayInv'
  BY NextAway
<1> QED BY <1>1, <1>2, <1>3, PresenceTypeCorrect, PTL DEF Spec

-----------------------------------------------------------------------------
(* Banned players *)

\* The announcement and join() exclude each other: whichever comes first, the other one
\* sees it, or the ban is one of those that were missed.
BanInv ==
  \A b \in BanIds :
    bans[b].state = "announced" /\ ~ bans[b].missed /\ crashes = 0 =>
      /\ joining # NoPlayer => joining # bans[b].player
      /\ launching \/ bans[b].player \notin queue

LEMMA NextBan == TypeOK /\ BanInv /\ [Next]_vars => BanInv'
<1> SUFFICES ASSUME TypeOK, BanInv, [Next]_vars PROVE BanInv'
  OBVIOUS
<1> USE DEF BanInv
<1>0. ASSUME queue' \subseteq queue, UNCHANGED <<launching, joining, bans, crashes>>
      PROVE  BanInv'
  BY <1>0
<1>1. ASSUME NEW p \in Players, Connect(p) \/ Disconnect(p) PROVE BanInv'
  BY <1>0, <1>1 DEF Connect, Disconnect, queueVars, banVars
<1>2. CASE Tick \/ UNCHANGED vars
  BY <1>0, <1>2 DEF Tick, vars, queueVars, banVars
<1>3. ASSUME NEW p \in Players, VerifyPlayer(p) \/ LeaveQueue(p) PROVE BanInv'
  BY <1>0, <1>3 DEF VerifyPlayer, Kick, LeaveQueue, banVars
<1>4. ASSUME NEW p \in Players, JoinQueue(p) PROVE BanInv'
  <2>1. \A b \in BanIds : bans[b].state = "announced" => bans[b].player # p
    BY <1>4 DEF JoinQueue, ActiveBans
  <2> QED BY <1>4, <2>1 DEF JoinQueue, banVars
<1>5. CASE TakeSlot
  BY <1>5 DEF TakeSlot, banVars
<1>6. CASE BeginLaunch \/ ResetQueue
  BY <1>6 DEF BeginLaunch, ResetQueue, banVars
<1>7. ASSUME NEW b \in BanIds, bans'[b].state # "announced" \/ bans'[b].missed,
             \A c \in BanIds : c # b => bans'[c] = bans[c],
             UNCHANGED <<queue, launching, joining, crashes>>
      PROVE  BanInv'
  BY <1>7
<1>8. ASSUME NEW b \in BanIds, NEW p \in Players, CreateBan(b, p) PROVE BanInv'
  <2>1. bans'[b] = [NoBan EXCEPT !.player = p, !.state = "created"]
    BY <1>8 DEF CreateBan, TypeOK
  <2>2. bans'[b].state = "created"
    BY <2>1 DEF NoBan
  <2>3. /\ \A c \in BanIds : c # b => bans'[c] = bans[c]
        /\ UNCHANGED <<queue, launching, joining, crashes>>
    BY <1>8 DEF CreateBan, TypeOK, queueVars
  <2> QED BY <1>7, <2>2, <2>3
<1>9. ASSUME NEW b \in BanIds, AnnounceBan(b) PROVE BanInv'
  <2>1. /\ bans'[b].missed = (joining = bans[b].player)
        /\ bans'[b].player = bans[b].player
    <3>1. bans' = [bans EXCEPT ![b] = [[bans[b] EXCEPT !.state = "announced"]
                                         EXCEPT !.missed = (joining = bans[b].player)]]
      BY <1>9 DEF AnnounceBan, TypeOK
    <3>2. bans[b] \in PlayerBan
      BY DEF TypeOK
    <3> QED BY <3>1, <3>2 DEF PlayerBan, TypeOK
  <2>2. /\ \A c \in BanIds : c # b => bans'[c] = bans[c]
        /\ launching \/ bans[b].player \notin queue'
        /\ queue' \subseteq queue
        /\ UNCHANGED <<launching, joining, crashes>>
    BY <1>9 DEF AnnounceBan, Kick, TypeOK
  <2>3. ASSUME NEW c \in BanIds,
               bans'[c].state = "announced", ~ bans'[c].missed, crashes' = 0
        PROVE  /\ joining' # NoPlayer => joining' # bans'[c].player
               /\ launching' \/ bans'[c].player \notin queue'
    <3>1. CASE c = b
      BY <2>1, <2>2, <2>3, <3>1
    <3>2. CASE c # b
      BY <2>2, <2>3, <3>2
    <3> QED BY <3>1, <3>2
  <2> QED BY <2>3
<1>10. ASSUME NEW b \in BanIds,
              CheckBan(b) \/ RevokeBan(b) \/ AnnounceRevokedBan(b) \/ BanExpires(b)
       PROVE  BanInv'
  <2>1. PICK state \in {"checked", "revoked", "over", "expired"} : SetBan(b, state)
    BY <1>10 DEF CheckBan, RevokeBan, AnnounceRevokedBan, BanExpires
  <2>2. bans' = [bans EXCEPT ![b] = [[bans[b] EXCEPT !.state = state] EXCEPT !.missed = FALSE]]
    BY <2>1 DEF SetBan, TypeOK
  <2>3. bans[b] \in PlayerBan
    BY DEF TypeOK
  <2>4. bans'[b].state = state
    BY <2>2, <2>3 DEF PlayerBan, TypeOK
  <2>5. \A c \in BanIds : c # b => bans'[c] = bans[c]
    BY <2>2 DEF TypeOK
  <2>6. UNCHANGED <<queue, launching, joining, crashes>>
    BY <1>10 DEF CheckBan, RevokeBan, AnnounceRevokedBan, BanExpires, queueVars
  <2> QED BY <1>7, <2>4, <2>5, <2>6
<1>11. CASE Restart
  BY <1>11 DEF Restart, TypeOK
<1>12. ASSUME NEW i \in 1..Len(messages), EmitMessage(i) PROVE BanInv'
  BY <1>0, <1>12 DEF EmitMessage, queueVars, banVars
<1>13. ASSUME NEW p \in Players, NEW i \in 1..Len(profiles[p]), SendProfile(p, i)
       PROVE  BanInv'
  BY <1>0, <1>13 DEF SendProfile, queueVars
<1> QED
  BY <1>1, <1>2, <1>3, <1>4, <1>5, <1>6, <1>8, <1>9, <1>10, <1>11, <1>12, <1>13 DEF Next

\* A ban that is announced leaves its player no place in the queue, whatever joins,
\* launches and other bans come between its creation and the announcement.
THEOREM BannedPlayersLeave == Spec => []BannedPlayersAreOut
<1>1. Init => BanInv
  BY DEF Init, BanInv, NoBan
<1>2. BanInv => BannedPlayersAreOut
  BY DEF BanInv, BannedPlayersAreOut
<1> QED BY <1>1, <1>2, NextBan, PresenceTypeCorrect, PTL DEF Spec

-----------------------------------------------------------------------------
(* What the players are shown of their bans *)

\* Of the bans bs, known has p's only, with all that are announced and none that is over.
Shows(bs, p, known) ==
  /\ \A b \in known : b \in BanIds /\ bs[b].player = p
                      /\ bs[b].state \notin {"none", "over"}
  /\ \A b \in BanIds : bs[b].player = p /\ bs[b].state \in {"announced", "checked"}
                         => b \in known

\* The last profile on its way to a player is right, whatever the ones before it say.
ProfileInv ==
  \A p \in Players :
    IF profiles[p] = <<>> THEN sockets[p] > 0 => Shows(bans, p, told[p])
    ELSE Shows(bans, p, profiles[p][Len(profiles[p])])

LEMMA RemoveFirstProfile ==
  ASSUME NEW S, NEW s \in Seq(S), s # <<>>
  PROVE  /\ RemoveAt(s, 1) = <<>> => s[1] = s[Len(s)]
         /\ RemoveAt(s, 1) # <<>> => RemoveAt(s, 1)[Len(RemoveAt(s, 1))] = s[Len(s)]
<1> DEFINE r == RemoveAt(s, 1)
           a == SubSeq(s, 1, 0)
           c == SubSeq(s, 2, Len(s))
<1>1. Len(s) \in Nat \ {0} /\ \A j \in 1..Len(s) : s[j] \in S
  BY LenProperties, EmptySeq
<1>2. a \in Seq(S) /\ Len(a) = 0
  BY <1>1, SubSeqProperties
<1>3. c \in Seq(S) /\ Len(c) = Len(s) - 1 /\ \A j \in 1..(Len(s) - 1) : c[j] = s[j + 1]
  <2>1. \A j \in 2..Len(s) : s[j] \in S
    BY <1>1
  <2>2. c \in Seq(S)
    BY <1>1, <2>1, SubSeqProperties
  <2>3. Len(c) = Len(s) - 1
    <3>1. Len(c) = IF 2 <= Len(s) THEN Len(s) - 2 + 1 ELSE 0
      BY <1>1, <2>1, SubSeqProperties
    <3>2. \A n \in Nat \ {0} : (IF 2 <= n THEN n - 2 + 1 ELSE 0) = n - 1
      OBVIOUS
    <3> QED BY <1>1, <3>1, <3>2
  <2>4. \A j \in 1..(Len(s) - 1) : c[j] = s[j + 1]
    <3>1. \A j \in 1..(Len(s) - 2 + 1) : c[j] = s[2 + j - 1]
      BY <1>1, <2>1, SubSeqProperties
    <3> HIDE DEF c
    <3>2. \A j \in 1..(Len(s) - 1) : j \in 1..(Len(s) - 2 + 1) /\ 2 + j - 1 = j + 1
      BY <1>1
    <3> QED BY <3>1, <3>2
  <2> QED BY <2>2, <2>3, <2>4
<1>4. r = a \o c
  BY <1>1 DEF RemoveAt
<1> HIDE DEF a, c, r
<1>5. r \in Seq(S) /\ Len(r) = Len(s) - 1 /\ \A j \in 1..(Len(s) - 1) : r[j] = c[j]
  BY <1>1, <1>2, <1>3, <1>4, ConcatProperties
<1>6. CASE Len(s) = 1
  <2>1. r = <<>>
    BY <1>5, <1>6, EmptySeq
  <2> QED BY <1>6, <2>1 DEF r
<1>7. CASE Len(s) > 1
  <2>1. r[Len(r)] = s[Len(s)] /\ r # <<>>
    BY <1>1, <1>3, <1>5, <1>7, EmptySeq
  <2> QED BY <2>1 DEF r
<1>8. Len(s) = 1 \/ Len(s) > 1
  <2>1. \A n \in Nat \ {0} : n = 1 \/ n > 1
    OBVIOUS
  <2> QED BY <1>1, <2>1
<1> QED BY <1>6, <1>7, <1>8

\* A profile that is put on its way tells what is active then.
LEMMA ProfileGoesOut ==
  ASSUME TypeOK, NEW p \in Players, UpdateProfile(p)
  PROVE  /\ \A q \in Players : q # p => profiles'[q] = profiles[q]
         /\ profiles'[p] # <<>>
         /\ profiles'[p][Len(profiles'[p])] = ActiveBans(p)'
<1> DEFINE e == ActiveBans(p)'
<1>1. profiles[p] \in Seq(SUBSET BanIds) /\ e \in SUBSET BanIds
  BY DEF TypeOK, ActiveBans
<1>2. profiles' = [profiles EXCEPT ![p] = Append(profiles[p], e)]
  BY DEF UpdateProfile, TypeOK
<1> HIDE DEF e
<1>3. profiles'[p] = Append(profiles[p], e)
      /\ \A q \in Players : q # p => profiles'[q] = profiles[q]
  BY <1>2 DEF TypeOK
<1>4. Append(profiles[p], e)[Len(Append(profiles[p], e))] = e
      /\ Append(profiles[p], e) # <<>>
  BY <1>1, AppendProperties, EmptySeq
<1> QED BY <1>3, <1>4 DEF e

\* The state of one ban changes.
LEMMA BanChanges ==
  ASSUME TypeOK, NEW b \in BanIds,
         NEW state \in {"announced", "checked", "revoked", "over", "expired"},
         NEW missed \in BOOLEAN,
         bans' = [bans EXCEPT ![b].state = state, ![b].missed = missed]
  PROVE  /\ \A c \in BanIds : c # b => bans'[c] = bans[c]
         /\ bans'[b].state = state /\ bans'[b].player = bans[b].player
<1>1. bans' = [bans EXCEPT ![b] = [[bans[b] EXCEPT !.state = state] EXCEPT !.missed = missed]]
  BY DEF TypeOK
<1>2. bans[b] \in PlayerBan
  BY DEF TypeOK
<1> QED BY <1>1, <1>2 DEF PlayerBan, TypeOK

\* Every active ban of a player is shown by what was read now.
LEMMA ActiveShows == \A p : Shows(bans, p, ActiveBans(p))
BY DEF Shows, ActiveBans

LEMMA ActiveShowsNext == \A p : Shows(bans', p, ActiveBans(p)')
BY DEF Shows, ActiveBans

LEMMA NextProfile ==
  ASSUME Overlap = FALSE
  PROVE  TypeOK /\ ProfileInv /\ [Next]_vars => ProfileInv'
<1> SUFFICES ASSUME TypeOK, ProfileInv, [Next]_vars PROVE ProfileInv'
  OBVIOUS
\* A step that tells nobody anything and leaves the bans alone.
<1>1. ASSUME UNCHANGED <<bans, profiles, told>>,
             \A p \in Players : sockets'[p] > 0 => sockets[p] > 0
      PROVE  ProfileInv'
  BY <1>1 DEF ProfileInv, Shows
\* A ban changes, and whoever is not told does not have to be.
<1>2. ASSUME NEW b \in BanIds, UNCHANGED <<sockets, told>>,
             \A c \in BanIds : c # b => bans'[c] = bans[c],
             bans[b].state # "none", bans'[b].player = bans[b].player,
             NEW P \in SUBSET Players,
             \A p \in Players \ P : profiles'[p] = profiles[p],
             \A p \in P : profiles'[p] # <<>> /\ Shows(bans', p, profiles'[p][Len(profiles'[p])]),
             bans[b].player \in P \/ bans[b].player \notin Players
               \/ /\ bans'[b].state \notin {"none", "over"}
                  /\ bans'[b].state \in {"announced", "checked"}
                       => bans[b].state \in {"announced", "checked"}
      PROVE  ProfileInv'
  <2>1. ASSUME NEW p \in Players \ P, NEW known, Shows(bans, p, known) PROVE Shows(bans', p, known)
    BY <1>2, <2>1 DEF Shows
  <2> QED BY <1>2, <2>1 DEF ProfileInv
<1>3. ASSUME NEW p \in Players, Connect(p) PROVE ProfileInv'
  <2>1. UNCHANGED <<bans, profiles>> /\ sockets' = [sockets EXCEPT ![p] = @ + 1]
    BY <1>3 DEF Connect
  <2>2. \A q \in Players : \A known : Shows(bans, q, known) => Shows(bans', q, known)
    BY <2>1 DEF Shows
  <2>3. \A q \in Players : q # p => sockets'[q] = sockets[q] /\ told'[q] = told[q]
    BY <1>3, <2>1 DEF Connect, TypeOK
  <2>4. \/ told'[p] = ActiveBans(p)
        \/ sockets[p] # 0 /\ told'[p] = told[p]
    BY <1>3 DEF Connect, TypeOK
  <2>5. sockets[p] # 0 => sockets[p] > 0
    BY DEF TypeOK
  <2> QED BY <2>1, <2>2, <2>3, <2>4, <2>5, ActiveShows DEF ProfileInv
<1>4. ASSUME NEW p \in Players, Disconnect(p) PROVE ProfileInv'
  <2>1. \A q \in Players : sockets'[q] > 0 => sockets[q] > 0
    BY <1>4 DEF Disconnect, TypeOK
  <2> QED BY <1>1, <1>4, <2>1 DEF Disconnect, banVars
<1>5. ASSUME NEW p \in Players, VerifyPlayer(p) \/ JoinQueue(p) \/ LeaveQueue(p)
      PROVE  ProfileInv'
  BY <1>1, <1>5 DEF VerifyPlayer, JoinQueue, LeaveQueue, banVars, socketVars
<1>6. ASSUME NEW p \in Players, NEW i \in 1..Len(profiles[p]), SendProfile(p, i)
      PROVE  ProfileInv'
  <2>1. i = 1 /\ profiles[p] # <<>>
    BY <1>6, EmptySeq DEF SendProfile, TypeOK
  <2>2. UNCHANGED <<bans, sockets>>
        /\ profiles' = [profiles EXCEPT ![p] = RemoveAt(profiles[p], 1)]
    BY <1>6, <2>1 DEF SendProfile, TypeOK, socketVars
  <2>3. \A q \in Players : \A known : Shows(bans, q, known) => Shows(bans', q, known)
    BY <2>2 DEF Shows
  <2>4. \A q \in Players : q # p => profiles'[q] = profiles[q] /\ told'[q] = told[q]
    BY <1>6, <2>2 DEF SendProfile, TypeOK
  <2>5. sockets[p] > 0 => told'[p] = profiles[p][1]
    BY <1>6, <2>1 DEF SendProfile, TypeOK
  <2>6. profiles'[p] = RemoveAt(profiles[p], 1) /\ profiles[p] \in Seq(SUBSET BanIds)
    BY <2>2 DEF TypeOK
  <2>7. /\ profiles'[p] = <<>> => profiles[p][1] = profiles[p][Len(profiles[p])]
        /\ profiles'[p] # <<>> =>
             profiles'[p][Len(profiles'[p])] = profiles[p][Len(profiles[p])]
    BY <2>1, <2>6, RemoveFirstProfile
  <2>8. Shows(bans, p, profiles[p][Len(profiles[p])])
    BY <2>1 DEF ProfileInv
  <2>9. IF profiles'[p] = <<>> THEN sockets'[p] > 0 => Shows(bans', p, told'[p])
        ELSE Shows(bans', p, profiles'[p][Len(profiles'[p])])
    BY <2>2, <2>3, <2>5, <2>7, <2>8
  <2> QED BY <2>2, <2>3, <2>4, <2>9 DEF ProfileInv
<1>7. ASSUME NEW i \in 1..Len(messages), EmitMessage(i) PROVE ProfileInv'
  BY <1>1, <1>7 DEF EmitMessage, banVars
<1>8. CASE Tick \/ TakeSlot \/ BeginLaunch \/ ResetQueue \/ UNCHANGED vars
  BY <1>1, <1>8 DEF Tick, TakeSlot, BeginLaunch, ResetQueue, vars, banVars, socketVars
<1>9. ASSUME NEW b \in BanIds, NEW p \in Players, CreateBan(b, p) PROVE ProfileInv'
  <2>1. bans' = [bans EXCEPT ![b] = [NoBan EXCEPT !.player = p, !.state = "created"]]
        /\ bans[b] = NoBan
    BY <1>9 DEF CreateBan
  <2>2. /\ \A c \in BanIds : c # b => bans'[c] = bans[c]
        /\ bans'[b].state = "created" /\ bans'[b].player = p
        /\ bans[b].state = "none"
    BY <2>1 DEF NoBan, TypeOK
  <2>3. \A q \in Players : \A known : Shows(bans, q, known) => Shows(bans', q, known)
    BY <2>2 DEF Shows
  <2> QED BY <1>9, <2>3 DEF ProfileInv, CreateBan, socketVars
<1>10. ASSUME NEW b \in BanIds, AnnounceBan(b) \/ AnnounceRevokedBan(b)
       PROVE  ProfileInv'
  <2> DEFINE p == bans[b].player
             m == joining = p
  <2>1. /\ \A c \in BanIds : c # b => bans'[c] = bans[c]
        /\ bans'[b].player = bans[b].player
    <3>1. CASE AnnounceBan(b)
      <4>1. m \in BOOLEAN /\ bans' = [bans EXCEPT ![b].state = "announced", ![b].missed = m]
        BY <3>1 DEF AnnounceBan
      <4> HIDE DEF m
      <4> QED BY <4>1, BanChanges
    <3>2. CASE AnnounceRevokedBan(b)
      BY <3>2, BanChanges DEF AnnounceRevokedBan, SetBan
    <3> QED BY <1>10, <3>1, <3>2
  <2>2. /\ UNCHANGED <<sockets, told>> /\ UpdateProfile(p) /\ bans[b].state # "none"
    BY <1>10 DEF AnnounceBan, AnnounceRevokedBan, socketVars
  <2>3. CASE p \in Players
    <3>1. PICK q \in Players : q = p
      BY <2>3
    <3>2. /\ \A r \in Players : r # q => profiles'[r] = profiles[r]
          /\ profiles'[q] # <<>>
          /\ profiles'[q][Len(profiles'[q])] = ActiveBans(q)'
      BY <2>2, <3>1, ProfileGoesOut
    <3>3. Shows(bans', q, profiles'[q][Len(profiles'[q])])
      BY <3>2, ActiveShowsNext
    <3> HIDE DEF p
    <3>4. {q} \in SUBSET Players
      OBVIOUS
    <3>5. bans[b].player \in {q}
      BY <3>1 DEF p
    <3> QED BY <1>2, <2>1, <2>2, <3>2, <3>3, <3>4, <3>5
  <2>4. CASE p \notin Players
    <3>1. profiles' = profiles
      BY <2>2, <2>4 DEF UpdateProfile, TypeOK
    <3>2. \A q \in Players : \A known : Shows(bans, q, known) => Shows(bans', q, known)
      BY <2>1, <2>4 DEF Shows
    <3> QED BY <2>2, <3>1, <3>2 DEF ProfileInv
  <2> QED BY <2>3, <2>4
<1>11. ASSUME NEW b \in BanIds, CheckBan(b) \/ RevokeBan(b) \/ BanExpires(b)
       PROVE  ProfileInv'
  <2>1. PICK state \in {"checked", "revoked", "expired"} :
          SetBan(b, state) /\ (state = "checked" => bans[b].state = "announced")
    BY <1>11 DEF CheckBan, RevokeBan, BanExpires
  <2>2. /\ \A c \in BanIds : c # b => bans'[c] = bans[c]
        /\ bans'[b].state = state /\ bans'[b].player = bans[b].player
    BY <2>1, BanChanges DEF SetBan
  <2>3. UNCHANGED <<sockets, told, profiles>> /\ bans[b].state # "none"
    BY <1>11 DEF CheckBan, RevokeBan, BanExpires, socketVars
  <2>4. {} \in SUBSET Players
    OBVIOUS
  <2> QED BY <1>2, <2>1, <2>2, <2>3, <2>4
<1>12. CASE Restart
  BY <1>12 DEF Restart, ProfileInv
<1> QED
  BY <1>3, <1>4, <1>5, <1>6, <1>7, <1>8, <1>9, <1>10, <1>11, <1>12 DEF Next

LEMMA ProfileInvImplies == TypeOK /\ ProfileInv => ProfileShowsBans
BY DEF TypeOK, ProfileInv, ProfileShowsBans, Shows, ActiveBans, PlayerBan

\* If what is read for the clients arrives in order, a player who has been sent everything
\* sees the bans that are active, and no other, for any number of bans and sockets.
THEOREM ProfilesShowBans ==
  ASSUME Overlap = FALSE
  PROVE  Spec => []ProfileShowsBans
<1>1. Init => ProfileInv
  BY DEF Init, ProfileInv
<1>2. TypeOK /\ ProfileInv /\ [Next]_vars => ProfileInv'
  BY NextProfile
<1> QED BY <1>1, <1>2, ProfileInvImplies, PresenceTypeCorrect, PTL DEF Spec

=============================================================================
