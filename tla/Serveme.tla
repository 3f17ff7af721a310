------------------------------- MODULE Serveme -------------------------------
(***************************************************************************)
(* Game servers reserved at serveme.tf: a reservation is made for a game   *)
(* that finds no static server, started, played on, and ended half a       *)
(* minute after the server was released (ServemeTfService,                 *)
(* ServemeTfApiService, ServemeTfGameServer).                              *)
(*                                                                         *)
(* serveme.tf is external: it starts a reserved server some time, and ends *)
(* a reservation when its time is over.  How games come to an end and      *)
(* servers are released is in Servers.                                     *)
(***************************************************************************)
EXTENDS Naturals

CONSTANTS
  Reservations,  \* ids given by serveme.tf
  NoReservation,
  MaxDeaths      \* bound: how often the process dies

ASSUME ServemeAssumption ==
  /\ NoReservation \notin Reservations
  /\ MaxDeaths \in Nat

VARIABLES
  reservations,  \* the reservations at serveme.tf
  reserving,     \* findFirstFreeGameServer() and launch(), under their mutexes
  rented,        \* the game servers that were stored with a reservation
  ending,        \* reservations to be ended: the timer runs, or the API is called
  forgotten,     \* reservations that nobody is going to end
  deaths

servemeVars == <<reservations, reserving, rented, ending, forgotten, deaths>>

-----------------------------------------------------------------------------
\* ended tells who ended it: serveme.tf, or the game it was made for.
Reservation == {"none", "waiting", "running", "ended", "ended by us"}

Active == {"waiting", "running"}

\* What the game of a server does.
Rented == {"none", "launching", "playing", "over", "released"}

Reserving == [step : {"idle", "find", "create", "store", "assign", "start"},
              reservation : Reservations \cup {NoReservation}]

NotReserving == [step |-> "idle", reservation |-> NoReservation]

Ending == {"no", "timer", "details", "delete"}

ServemeTypeOK ==
  /\ reservations \in [Reservations -> Reservation]
  /\ reserving \in Reserving
  /\ rented \in [Reservations -> Rented]
  /\ ending \in [Reservations -> Ending]
  /\ forgotten \subseteq Reservations
  /\ deaths \in 0..MaxDeaths

ServemeInit ==
  /\ reservations = [r \in Reservations |-> "none"]
  /\ reserving = NotReserving
  /\ rented = [r \in Reservations |-> "none"]
  /\ ending = [r \in Reservations |-> "no"]
  /\ forgotten = {}
  /\ deaths = 0

-----------------------------------------------------------------------------
(* serveme.tf *)

ServerStarts(r) ==
  /\ reservations[r] = "waiting"
  /\ reservations' = [reservations EXCEPT ![r] = "running"]
  /\ UNCHANGED <<reserving, rented, ending, forgotten, deaths>>

ReservationExpires(r) ==
  /\ reservations[r] \in Active
  /\ reservations' = [reservations EXCEPT ![r] = "ended"]
  /\ UNCHANGED <<reserving, rented, ending, forgotten, deaths>>

-----------------------------------------------------------------------------
(* Reserving *)

LaunchNeedsServer ==
  /\ reserving = NotReserving
  /\ reserving' = [NotReserving EXCEPT !.step = "find"]
  /\ UNCHANGED <<reservations, rented, ending, forgotten, deaths>>

\* fetchServers() and selectServer(): there is a server that suits.
SelectServer ==
  /\ reserving.step = "find"
  /\ reserving' = [reserving EXCEPT !.step = "create"]
  /\ UNCHANGED <<reservations, rented, ending, forgotten, deaths>>

\* The answer with the id may get lost.
CreateReservation(r, answered) ==
  /\ reserving.step = "create"
  /\ reservations[r] = "none"
  /\ reservations' = [reservations EXCEPT ![r] = "waiting"]
  /\ IF answered
     THEN /\ reserving' = [step |-> "store", reservation |-> r]
          /\ UNCHANGED forgotten
     ELSE /\ reserving' = NotReserving
          /\ forgotten' = forgotten \cup {r}
  /\ UNCHANGED <<rented, ending, deaths>>

StoreServer ==
  /\ reserving.step = "store"
  /\ reserving' = [reserving EXCEPT !.step = "assign"]
  /\ UNCHANGED <<reservations, rented, ending, forgotten, deaths>>

AssignServer ==
  /\ reserving.step = "assign"
  /\ rented' = [rented EXCEPT ![reserving.reservation] = "launching"]
  /\ reserving' = [reserving EXCEPT !.step = "start"]
  /\ UNCHANGED <<reservations, ending, forgotten, deaths>>

\* waitForServerToStart() asks every second; what follows is configureServer().
ServerIsReady ==
  /\ reserving.step = "start"
  /\ reservations[reserving.reservation] # "waiting"
  /\ rented' = IF rented[reserving.reservation] = "launching"
               THEN [rented EXCEPT ![reserving.reservation] = "playing"] ELSE rented
  /\ reserving' = NotReserving
  /\ UNCHANGED <<reservations, ending, forgotten, deaths>>

\* The reservation of a server that no game has yet.
NotAssigned ==
  IF reserving.step \in {"store", "assign"} THEN {reserving.reservation} ELSE {}

\* A call to serveme.tf or the database fails: an error of findFirstFreeGameServer() is
\* logged, an error later on leaves the game with its server.
ReservingFails ==
  /\ reserving.step # "idle"
  /\ forgotten' = forgotten \cup NotAssigned
  /\ reserving' = NotReserving
  /\ UNCHANGED <<reservations, rented, ending, deaths>>

-----------------------------------------------------------------------------
(* Ending *)

GameIsOver(r) ==
  /\ rented[r] \in {"launching", "playing"}
  /\ rented' = [rented EXCEPT ![r] = "over"]
  /\ UNCHANGED <<reservations, reserving, ending, forgotten, deaths>>
\* Mutant: the reservation is ended whenever the server is updated.
ReleaseAnyServer(r) ==
  /\ rented[r] \in {"launching", "playing", "over"}
  /\ rented' = [rented EXCEPT ![r] = IF @ = "over" THEN "released" ELSE @]
  /\ ending' = [ending EXCEPT ![r] = "timer"]
  /\ UNCHANGED <<reservations, reserving, forgotten, deaths>>

\* gameServerUpdated: the server had a game and has none now.
ReleaseServer(r) ==
  /\ rented[r] = "over"
  /\ rented' = [rented EXCEPT ![r] = "released"]
  /\ ending' = [ending EXCEPT ![r] = "timer"]
  /\ UNCHANGED <<reservations, reserving, forgotten, deaths>>

HalfMinutePasses(r) ==
  /\ ending[r] = "timer"
  /\ ending' = [ending EXCEPT ![r] = "details"]
  /\ UNCHANGED <<reservations, reserving, rented, forgotten, deaths>>

FetchReservationDetails(r) ==
  /\ ending[r] = "details"
  /\ ending' = [ending EXCEPT ![r] = IF reservations[r] \in Active THEN "delete" ELSE "no"]
  /\ UNCHANGED <<reservations, reserving, rented, forgotten, deaths>>

\* serveme.tf may have ended it by now.
DeleteReservation(r) ==
  /\ ending[r] = "delete"
  /\ ending' = [ending EXCEPT ![r] = "no"]
  /\ reservations' = [reservations EXCEPT ![r] = IF @ \in Active THEN "ended by us" ELSE @]
  /\ UNCHANGED <<reserving, rented, forgotten, deaths>>

EndingFails(r) ==
  /\ ending[r] \in {"details", "delete"}
  /\ ending' = [ending EXCEPT ![r] = "no"]
  /\ forgotten' = forgotten \cup {r}
  /\ UNCHANGED <<reservations, reserving, rented, deaths>>

\* Timers and calls are lost.
ProcessDies ==
  /\ deaths < MaxDeaths
  /\ deaths' = deaths + 1
  /\ forgotten' = forgotten
       \cup {r \in Reservations : ending[r] # "no"}
       \cup NotAssigned
  /\ reserving' = NotReserving
  /\ ending' = [r \in Reservations |-> "no"]
  /\ UNCHANGED <<reservations, rented>>

ServemeNext ==
  \/ \E r \in Reservations :
       \/ ServerStarts(r)
       \/ ReservationExpires(r)
       \/ \E answered \in BOOLEAN : CreateReservation(r, answered)
       \/ GameIsOver(r)
       \/ ReleaseServer(r)
       \/ HalfMinutePasses(r)
       \/ FetchReservationDetails(r)
       \/ DeleteReservation(r)
       \/ EndingFails(r)
  \/ LaunchNeedsServer
  \/ SelectServer
  \/ StoreServer
  \/ AssignServer
  \/ ServerIsReady
  \/ ReservingFails
  \/ ProcessDies

ServemeSpec == ServemeInit /\ [][ServemeNext]_servemeVars

-----------------------------------------------------------------------------
\* A reservation ends with its game: it is not taken from a game that is launched or
\* played, and an active one is being made, belongs to a game, is about to be ended, or
\* was lost track of when an answer got lost, a call failed or the process died.
ReservationsEndWithGame ==
  \A r \in Reservations :
    /\ reservations[r] = "ended by us" => rented[r] = "released"
    /\ reservations[r] \in Active
         => \/ reserving.reservation = r
            \/ rented[r] \in {"launching", "playing", "over"}
            \/ ending[r] # "no"
            \/ r \in forgotten

=============================================================================
