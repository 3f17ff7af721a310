----------------------------- MODULE Heartbeats -----------------------------
(***************************************************************************)
(* Which static game servers are online: their heartbeats, the cron job    *)
(* that looks for servers without one, and what the admins are told of it  *)
(* on Discord (StaticGameServersService, AdminNotificationsService).       *)
(*                                                                         *)
(* heartbeat() does not take the mutex of updateGameServer(): it may fall  *)
(* in between the query of the cron job and markAsOffline(), and a server  *)
(* that has just sent one is marked as offline.                            *)
(***************************************************************************)
EXTENDS Naturals

CONSTANTS
  Hosts,        \* address and port of a server
  NoHost,
  MaxRestarts   \* bound: how often the process dies

ASSUME HeartbeatsAssumption ==
  /\ NoHost \notin Hosts
  /\ MaxRestarts \in Nat

VARIABLES
  staticServers,  \* the static game servers collection
  heartbeats,     \* heartbeat() calls in progress
  dead,           \* servers removeDeadGameServers() found
  marking,        \* the one markAsOffline() has the mutex for
  discordReady,   \* the Discord client is logged in
  announced,      \* what the admins were last told of a server
  missed,         \* servers of which something was not told, or not in order
  restarts

heartbeatsVars == <<staticServers, heartbeats, dead, marking, discordReady, announced,
                    missed, restarts>>

-----------------------------------------------------------------------------
Status == {"none", "online", "offline"}

\* fresh: the last heartbeat was received within five minutes.
StaticServer == [status : Status, fresh : BOOLEAN]

\* old is the server before the update; alone: no other call has been reading or writing
\* the same server meanwhile.
NoCall == [step |-> "none", old |-> "none", alone |-> TRUE]

Heartbeat == [step : {"none", "read", "written"}, old : Status, alone : BOOLEAN]

Marking == [host : Hosts \cup {NoHost}, step : {"none", "read", "written"}, old : Status,
            alone : BOOLEAN]

NotMarking == [host |-> NoHost, step |-> "none", old |-> "none", alone |-> TRUE]

HeartbeatsTypeOK ==
  /\ staticServers \in [Hosts -> StaticServer]
  /\ heartbeats \in [Hosts -> Heartbeat]
  /\ dead \subseteq Hosts
  /\ marking \in Marking
  /\ discordReady \in BOOLEAN
  /\ announced \in [Hosts -> Status]
  /\ missed \subseteq Hosts
  /\ restarts \in 0..MaxRestarts

HeartbeatsInit ==
  /\ staticServers = [h \in Hosts |-> [status |-> "none", fresh |-> FALSE]]
  /\ heartbeats = [h \in Hosts |-> NoCall]
  /\ dead = {}
  /\ marking = NotMarking
  /\ discordReady = FALSE
  /\ announced = [h \in Hosts |-> "none"]
  /\ missed = {}
  /\ restarts = 0

-----------------------------------------------------------------------------
\* Mutant: the event has the updated server twice.
AnnounceUpdated(h, old, new, alone) ==
  /\ announced' = IF old = "none" /\ discordReady THEN [announced EXCEPT ![h] = new]
                                                  ELSE announced
  /\ missed' = IF old = "none" /\ ~ discordReady THEN missed \cup {h} ELSE missed

\* gameServerAdded and gameServerUpdated, as AdminNotificationsService filters them.
\* Without a channel nothing is sent.
Announce(h, old, new, alone) ==
  /\ announced' = IF old # new /\ discordReady THEN [announced EXCEPT ![h] = new]
                                               ELSE announced
  /\ missed' = IF alone /\ old = new THEN missed
               ELSE IF alone /\ discordReady THEN missed \ {h} ELSE missed \cup {h}

\* heartbeat() of a server, which may be new.
ReceiveHeartbeat(h) ==
  /\ heartbeats[h] = NoCall
  /\ heartbeats' = [heartbeats EXCEPT ![h] = [step |-> "read",
                                              old |-> staticServers[h].status,
                                              alone |-> marking.host # h]]
  /\ marking' = [marking EXCEPT !.alone = @ /\ marking.host # h]
  /\ UNCHANGED <<staticServers, dead, discordReady, announced, missed, restarts>>

StoreHeartbeat(h) ==
  /\ heartbeats[h].step = "read"
  /\ staticServers' = [staticServers EXCEPT ![h] = [status |-> "online", fresh |-> TRUE]]
  /\ heartbeats' = [heartbeats EXCEPT ![h].step = "written"]
  /\ UNCHANGED <<dead, marking, discordReady, announced, missed, restarts>>

AnnounceHeartbeat(h) ==
  /\ heartbeats[h].step = "written"
  /\ Announce(h, heartbeats[h].old, "online", heartbeats[h].alone)
  /\ heartbeats' = [heartbeats EXCEPT ![h] = NoCall]
  /\ UNCHANGED <<staticServers, dead, marking, discordReady, restarts>>

FiveMinutesPass(h) ==
  /\ staticServers[h].fresh
  /\ heartbeats[h] = NoCall
  /\ staticServers' = [staticServers EXCEPT ![h].fresh = FALSE]
  /\ UNCHANGED <<heartbeats, dead, marking, discordReady, announced, missed, restarts>>

\* removeDeadGameServers()
FindDeadServers ==
  /\ dead = {}
  /\ marking = NotMarking
  /\ dead' = {h \in Hosts : /\ staticServers[h].status = "online"
                            /\ ~ staticServers[h].fresh}
  /\ UNCHANGED <<staticServers, heartbeats, marking, discordReady, announced, missed,
                 restarts>>

\* markAsOffline() of each in turn, under the mutex.
ReadDeadServer(h) ==
  /\ h \in dead
  /\ marking = NotMarking
  /\ marking' = [host |-> h, step |-> "read", old |-> staticServers[h].status,
                 alone |-> heartbeats[h] = NoCall]
  /\ heartbeats' = [heartbeats EXCEPT ![h].alone = heartbeats[h] = NoCall]
  /\ dead' = dead \ {h}
  /\ UNCHANGED <<staticServers, discordReady, announced, missed, restarts>>

MarkAsOffline ==
  /\ marking.step = "read"
  /\ staticServers' = [staticServers EXCEPT ![marking.host].status = "offline"]
  /\ marking' = [marking EXCEPT !.step = "written"]
  /\ UNCHANGED <<heartbeats, dead, discordReady, announced, missed, restarts>>

AnnounceDeadServer ==
  /\ marking.step = "written"
  /\ Announce(marking.host, marking.old, "offline", marking.alone)
  /\ marking' = NotMarking
  /\ UNCHANGED <<staticServers, heartbeats, dead, discordReady, restarts>>

\* The client logs in after the services have started.
DiscordReady ==
  /\ ~ discordReady
  /\ discordReady' = TRUE
  /\ UNCHANGED <<staticServers, heartbeats, dead, marking, announced, missed, restarts>>

\* What was stored and not announced is not announced any more.
RestartService ==
  /\ restarts < MaxRestarts
  /\ restarts' = restarts + 1
  /\ missed' = missed \cup {h \in Hosts : \/ heartbeats[h].step = "written"
                                          \/ marking.host = h /\ marking.step = "written"}
  /\ heartbeats' = [h \in Hosts |-> NoCall]
  /\ dead' = {}
  /\ marking' = NotMarking
  /\ discordReady' = FALSE
  /\ UNCHANGED <<staticServers, announced>>

HeartbeatsNext ==
  \/ \E h \in Hosts :
       \/ ReceiveHeartbeat(h)
       \/ StoreHeartbeat(h)
       \/ AnnounceHeartbeat(h)
       \/ FiveMinutesPass(h)
       \/ ReadDeadServer(h)
  \/ FindDeadServers
  \/ MarkAsOffline
  \/ AnnounceDeadServer
  \/ DiscordReady
  \/ RestartService

HeartbeatsSpec == HeartbeatsInit /\ [][HeartbeatsNext]_heartbeatsVars

-----------------------------------------------------------------------------
\* The admins know of every server what they were told last, unless they were not told:
\* the notices leave out no change, though each compares what two reads of the server
\* have found.  Only when a heartbeat comes while the same server is being marked as
\* offline may the notice of the one that was stored later come first, or not at all;
\* the next change that is told makes up for it.
NoticesTellStatus ==
  \A h \in Hosts :
    /\ h \notin missed
    /\ heartbeats[h].step # "written"
    /\ marking.host # h
    => announced[h] = staticServers[h].status

=============================================================================
