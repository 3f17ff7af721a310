------------------------- MODULE GameServersProofs -------------------------
(***************************************************************************)
(* Theorems about what happens to one game server: Match, Heartbeats,      *)
(* Diagnostics and Serveme, for any values of their constants unless a     *)
(* theorem says otherwise.                                                 *)
(***************************************************************************)
EXTENDS MCGameServers, SequenceTheorems, TLAPS

-----------------------------------------------------------------------------
(* Reservations at serveme.tf *)

USE ServemeAssumption

\* A reservation that is being stored is nobody's yet; the timer and the calls that end
\* one run only after its server was released, and once it is released it is ended, about
\* to be ended, or lost track of.
RentInv(r) ==
  /\ reservations[r] = "none" => rented[r] = "none" /\ reserving.reservation # r
  /\ r \in NotAssigned => rented[r] = "none"
  /\ ending[r] # "no" => rented[r] = "released"
  /\ reservations[r] = "ended by us" => rented[r] = "released"
  /\ reservations[r] \in Active =>
       \/ r \in NotAssigned
       \/ rented[r] \in {"launching", "playing", "over"}
       \/ ending[r] # "no"
       \/ r \in forgotten

ServemeInv ==
  /\ \A r \in Reservations : RentInv(r)
  /\ reserving.step \in {"store", "assign", "start"} <=>
       reserving.reservation # NoReservation

LEMMA InitServeme == ServemeInit => ServemeTypeOK /\ ServemeInv
BY DEF ServemeInit, ServemeTypeOK, ServemeInv, RentInv, NotReserving, Reserving, Reservation,
       Rented, Ending, NotAssigned, Active

LEMMA ServemeType == ServemeTypeOK /\ ServemeInv /\ [ServemeNext]_servemeVars => ServemeTypeOK'
<1> SUFFICES ASSUME ServemeTypeOK, ServemeInv, [ServemeNext]_servemeVars PROVE ServemeTypeOK'
  OBVIOUS
<1> USE DEF ServemeTypeOK, Reservation, Rented, Ending, Reserving
<1>0. NotReserving \in Reserving /\ NotAssigned \subseteq Reservations
  BY DEF NotReserving, NotAssigned, ServemeInv
<1>1. ASSUME NEW r \in Reservations,
             ServerStarts(r) \/ ReservationExpires(r) \/ GameIsOver(r) \/ ReleaseServer(r)
               \/ HalfMinutePasses(r) \/ EndingFails(r)
      PROVE  ServemeTypeOK'
  BY <1>1 DEF ServerStarts, ReservationExpires, GameIsOver, ReleaseServer, HalfMinutePasses,
              EndingFails
<1>2. ASSUME NEW r \in Reservations, NEW answered \in BOOLEAN, CreateReservation(r, answered)
      PROVE  ServemeTypeOK'
  <2>1. [step |-> "store", reservation |-> r] \in Reserving
    OBVIOUS
  <2> QED BY <1>0, <1>2, <2>1 DEF CreateReservation
<1>3. ASSUME NEW r \in Reservations, FetchReservationDetails(r)
      PROVE  ServemeTypeOK'
  BY <1>3 DEF FetchReservationDetails
<1>4. ASSUME NEW r \in Reservations, DeleteReservation(r)
      PROVE  ServemeTypeOK'
  BY <1>4 DEF DeleteReservation
<1>5. CASE LaunchNeedsServer \/ SelectServer \/ StoreServer
  BY <1>0, <1>5 DEF LaunchNeedsServer, SelectServer, StoreServer
<1>6. CASE AssignServer
  BY <1>6 DEF AssignServer
<1>7. CASE ServerIsReady
  BY <1>0, <1>7 DEF ServerIsReady
<1>8. CASE ReservingFails
  BY <1>0, <1>8 DEF ReservingFails
<1>9. CASE ProcessDies
  <2>1. forgotten' \subseteq Reservations /\ ending' \in [Reservations -> Ending]
    BY <1>0, <1>9 DEF ProcessDies
  <2>2. deaths' \in 0..MaxDeaths
    <3> HIDE DEF Reservation, Rented, Ending, Reserving
    <3>1. deaths < MaxDeaths /\ deaths' = deaths + 1
      BY <1>9 DEF ProcessDies
    <3>2. deaths \in 0..MaxDeaths /\ MaxDeaths \in Nat
      BY DEF ServemeAssumption
    <3> QED BY <3>1, <3>2
  <2> QED BY <1>0, <1>9, <2>1, <2>2 DEF ProcessDies
<1>10. CASE UNCHANGED servemeVars
  BY <1>10 DEF servemeVars
<1> QED BY <1>1, <1>2, <1>3, <1>4, <1>5, <1>6, <1>7, <1>8, <1>9, <1>10 DEF ServemeNext

LEMMA NextServeme ==
  ServemeTypeOK /\ ServemeInv /\ [ServemeNext]_servemeVars => ServemeInv'
<1> SUFFICES ASSUME ServemeTypeOK, ServemeInv, [ServemeNext]_servemeVars
             PROVE  ServemeInv'
  OBVIOUS
<1> DEFINE Fits(x) == x.step \in {"store", "assign", "start"}
                        <=> x.reservation # NoReservation
<1>0. /\ Fits(reserving) /\ (\A q \in Reservations : RentInv(q))
      /\ Fits(NotReserving)
      /\ NotReserving.step = "idle" /\ NotReserving.reservation = NoReservation
  BY DEF ServemeInv, NotReserving
<1> SUFFICES Fits(reserving') /\ (\A q \in Reservations : RentInv(q)')
  BY DEF ServemeInv
<1> USE DEF RentInv, NotAssigned, Active, ServemeTypeOK
<1>1. ASSUME NEW r \in Reservations, ServerStarts(r) \/ ReservationExpires(r)
      PROVE  Fits(reserving') /\ (\A q \in Reservations : RentInv(q)')
  <2>1. /\ UNCHANGED <<reserving, rented, ending, forgotten>>
        /\ reservations[r] \in Active /\ reservations'[r] \in {"running", "ended"}
        /\ \A q \in Reservations : q # r => reservations'[q] = reservations[q]
    BY <1>1 DEF ServerStarts, ReservationExpires
  <2> QED BY <1>0, <2>1
<1>2. ASSUME NEW r \in Reservations, NEW answered \in BOOLEAN, CreateReservation(r, answered)
      PROVE  Fits(reserving') /\ (\A q \in Reservations : RentInv(q)')
  <2>1. /\ UNCHANGED <<rented, ending>>
        /\ reservations[r] = "none" /\ reservations'[r] = "waiting"
        /\ \A q \in Reservations : q # r => reservations'[q] = reservations[q]
        /\ reserving.step = "create"
    BY <1>2 DEF CreateReservation
  <2>2. CASE answered
    <3>1. /\ reserving' = [step |-> "store", reservation |-> r] /\ forgotten' = forgotten
      BY <1>2, <2>2 DEF CreateReservation
    <3>2. reserving'.step = "store" /\ reserving'.reservation = r
      BY <3>1
    <3> QED BY <1>0, <2>1, <3>1, <3>2
  <2>3. CASE ~ answered
    <3>1. reserving' = NotReserving /\ forgotten' = forgotten \cup {r}
      BY <1>2, <2>3 DEF CreateReservation
    <3> QED BY <1>0, <2>1, <3>1
  <2> QED BY <2>2, <2>3
<1>3. ASSUME NEW r \in Reservations, GameIsOver(r) \/ ReleaseServer(r)
      PROVE  Fits(reserving') /\ (\A q \in Reservations : RentInv(q)')
  <2>1. /\ UNCHANGED <<reservations, reserving, forgotten>>
        /\ rented[r] \in {"launching", "playing", "over"}
        /\ rented'[r] \in {"over", "released"}
        /\ rented'[r] = "released" <=> ending'[r] # "no"
        /\ \A q \in Reservations : q # r => rented'[q] = rented[q] /\ ending'[q] = ending[q]
    BY <1>0, <1>3 DEF GameIsOver, ReleaseServer
  <2> QED BY <1>0, <2>1
<1>4. ASSUME NEW r \in Reservations,
             HalfMinutePasses(r) \/ FetchReservationDetails(r) \/ EndingFails(r)
      PROVE  Fits(reserving') /\ (\A q \in Reservations : RentInv(q)')
  <2>1. /\ UNCHANGED <<reserving, rented, reservations>>
        /\ ending[r] # "no" /\ forgotten \subseteq forgotten'
        /\ \A q \in Reservations : q # r => ending'[q] = ending[q]
        /\ ending'[r] # "no" \/ reservations[r] \notin Active \/ r \in forgotten'
    BY <1>4 DEF HalfMinutePasses, FetchReservationDetails, EndingFails
  <2> QED BY <1>0, <2>1
<1>5. ASSUME NEW r \in Reservations, DeleteReservation(r)
      PROVE  Fits(reserving') /\ (\A q \in Reservations : RentInv(q)')
  BY <1>0, <1>5 DEF DeleteReservation
<1>6. CASE LaunchNeedsServer \/ SelectServer
  <2>1. /\ reserving.step \in {"idle", "find"}
        /\ reserving'.step \in {"find", "create"}
        /\ reserving'.reservation = NoReservation
        /\ UNCHANGED <<reservations, rented, ending, forgotten>>
    BY <1>0, <1>6 DEF LaunchNeedsServer, SelectServer, NotReserving, Reserving
  <2> QED BY <1>0, <2>1
<1>7. CASE StoreServer
  <2>1. /\ reserving.step = "store" /\ reserving'.step = "assign"
        /\ reserving'.reservation = reserving.reservation
        /\ UNCHANGED <<reservations, rented, ending, forgotten>>
    BY <1>7 DEF StoreServer, Reserving
  <2> QED BY <1>0, <2>1
<1>8. CASE AssignServer
  <2>1. /\ reserving.step = "assign" /\ reserving'.step = "start"
        /\ reserving'.reservation = reserving.reservation
        /\ UNCHANGED <<reservations, ending, forgotten>>
    BY <1>8 DEF AssignServer, Reserving
  <2>2. rented' = [rented EXCEPT ![reserving.reservation] = "launching"]
    BY <1>8 DEF AssignServer
  <2> QED BY <1>0, <2>1, <2>2
<1>9. CASE ServerIsReady
  BY <1>0, <1>9 DEF ServerIsReady
<1>10. CASE ReservingFails
  BY <1>0, <1>10 DEF ReservingFails
<1>11. CASE ProcessDies
  BY <1>0, <1>11 DEF ProcessDies
<1>12. CASE UNCHANGED servemeVars
  BY <1>0, <1>12 DEF servemeVars
<1> QED BY <1>1, <1>2, <1>3, <1>4, <1>5, <1>6, <1>7, <1>8, <1>9, <1>10, <1>11, <1>12
        DEF ServemeNext

\* A reservation is not taken from a game that is launched or played, and none stays
\* active after its game unless an answer, a call or the process was lost.
THEOREM ReservationsEnd == ServemeSpec => []ReservationsEndWithGame
<1>1. ServemeTypeOK /\ ServemeInv => ReservationsEndWithGame
  BY DEF ServemeTypeOK, ServemeInv, RentInv, ReservationsEndWithGame, NotAssigned, Active
<1> QED BY InitServeme, NextServeme, ServemeType, <1>1, PTL DEF ServemeSpec

-----------------------------------------------------------------------------
(* Diagnostics *)

Consistent(run) ==
  run.status = "completed" => run.rcon = "completed" /\ run.logs = "completed"

\* What is on its way to be stored ends with the run as it is, and no state of the run
\* says that it is completed unless both checks are.
DiagnosticsInv ==
  /\ Consistent(diagnosticRun) /\ Consistent(storedRun)
  /\ \A i \in 1..Len(snapshots) : Consistent(snapshots[i])
  /\ IF snapshots = <<>> THEN storedRun = diagnosticRun
     ELSE snapshots[Len(snapshots)] = diagnosticRun

CommandNames == {"svLogsecret", "logAddressAdd", "say", "logAddressDel", "noLogsecret"}

LEMMA FiveCommands ==
  ASSUME NEW S, NEW a \in S, NEW b \in S, NEW c \in S, NEW d \in S, NEW e \in S
  PROVE  <<a, b, c, d, e>> \in Seq(S) /\ Len(<<a, b, c, d, e>>) = 5
OBVIOUS

\* What is left to be sent is none or some of the commands, and so is what is left of it.
LEMMA CommandsLeft ==
  /\ Commands \in {SubSeq(Commands, i, 5) : i \in 1..6}
  /\ <<>> \in {SubSeq(Commands, i, 5) : i \in 1..6}
  /\ \A c \in {SubSeq(Commands, i, 5) : i \in 1..6} :
       c # <<>> => /\ Head(c) \in CommandNames
                   /\ Tail(c) \in {SubSeq(Commands, i, 5) : i \in 1..6}
<1>1. Commands \in Seq(CommandNames) /\ Len(Commands) = 5
  BY FiveCommands DEF Commands, CommandNames
<1>2. SubSeq(Commands, 1, 5) = Commands
  BY <1>1, SubSeqFull
<1>3. SubSeq(Commands, 6, 5) = <<>>
  BY SubSeqEmpty
<1>4. ASSUME NEW i \in 1..6, SubSeq(Commands, i, 5) # <<>>
      PROVE  /\ Head(SubSeq(Commands, i, 5)) \in CommandNames
             /\ Tail(SubSeq(Commands, i, 5)) = SubSeq(Commands, i + 1, 5)
             /\ i + 1 \in 1..6
  <2>1. i \in 1..Len(Commands) /\ 5 \in i..Len(Commands)
    BY <1>1, <1>3, <1>4
  <2>2. /\ Head(SubSeq(Commands, i, 5)) = Commands[i]
        /\ Tail(SubSeq(Commands, i, 5)) = SubSeq(Commands, i + 1, 5)
    BY <1>1, <2>1, HeadTailOfSubSeq
  <2>3. Commands[i] \in CommandNames
    BY <1>1, <2>1, ElementOfSeq
  <2> QED BY <2>2, <2>3, <2>1, <1>1
<1>5. 1 \in 1..6 /\ 6 \in 1..6
  OBVIOUS
<1>6. /\ Commands \in {SubSeq(Commands, i, 5) : i \in 1..6}
      /\ <<>> \in {SubSeq(Commands, i, 5) : i \in 1..6}
  BY <1>2, <1>3, <1>5, Zenon
<1>7. ASSUME NEW c \in {SubSeq(Commands, i, 5) : i \in 1..6}, c # <<>>
      PROVE  Head(c) \in CommandNames /\ Tail(c) \in {SubSeq(Commands, i, 5) : i \in 1..6}
  <2>1. PICK i \in 1..6 : c = SubSeq(Commands, i, 5)
    BY Zenon
  <2> QED BY <1>4, <1>7, <2>1, Zenon
<1> QED BY <1>6, <1>7, Zenon

\* A snapshot that is published is the last one.
LEMMA PublishInv ==
  ASSUME DiagnosticsTypeOK, DiagnosticsInv, NEW run \in Run, Consistent(run), Publish(run),
         UNCHANGED storedRun
  PROVE  DiagnosticsInv' /\ snapshots' \in Seq(Run) /\ diagnosticRun' \in Run
<1>1. /\ snapshots \in Seq(Run) /\ snapshots' = Append(snapshots, run)
      /\ diagnosticRun' = run
  BY DEF DiagnosticsTypeOK, Publish
<1>2. /\ Len(snapshots') = Len(snapshots) + 1 /\ Len(snapshots) \in Nat
      /\ snapshots' # <<>> /\ snapshots' \in Seq(Run)
      /\ \A i \in 1..Len(snapshots) : snapshots'[i] = snapshots[i]
      /\ snapshots'[Len(snapshots) + 1] = run
  BY <1>1
<1> QED BY <1>1, <1>2 DEF DiagnosticsInv

LEMMA InitDiagnostics == DiagnosticsInit => DiagnosticsTypeOK /\ DiagnosticsInv
<1>1. NewRun \in Run /\ Consistent(NewRun)
  BY DEF NewRun, Run, CheckStatus, Consistent
<1> QED BY <1>1, CommandsLeft DEF DiagnosticsInit, DiagnosticsTypeOK, DiagnosticsInv

LogCheck == [result : {"none", "success", "failure"}, subscribed : BOOLEAN]

CheckedServer == [secret : BOOLEAN, logAddress : BOOLEAN, said : BOOLEAN]

\* The log forwarding check changes its promise, its subscription or the server.
LEMMA CheckFields ==
  /\ \A x \in LogCheck :
       /\ \A r \in {"none", "success", "failure"} : [x EXCEPT !.result = r] \in LogCheck
       /\ \A b \in BOOLEAN : [x EXCEPT !.subscribed = b] \in LogCheck
  /\ \A x \in CheckedServer, b \in BOOLEAN :
       /\ [x EXCEPT !.secret = b] \in CheckedServer
       /\ [x EXCEPT !.logAddress = b] \in CheckedServer
       /\ [x EXCEPT !.said = b] \in CheckedServer
BY DEF LogCheck, CheckedServer

LEMMA NextDiagnostics ==
  DiagnosticsTypeOK /\ DiagnosticsInv /\ [DiagnosticsNext]_diagnosticsVars
    => DiagnosticsTypeOK' /\ DiagnosticsInv'
<1> SUFFICES ASSUME DiagnosticsTypeOK, DiagnosticsInv, [DiagnosticsNext]_diagnosticsVars
             PROVE  DiagnosticsTypeOK' /\ DiagnosticsInv'
  OBVIOUS
<1> DEFINE run == diagnosticRun
<1>0. /\ run \in Run /\ Consistent(run)
      /\ logCheck \in LogCheck /\ checkedServer \in CheckedServer
      /\ commands \in {SubSeq(Commands, i, 5) : i \in 1..6}
      /\ snapshots \in Seq(Run) /\ storedRun \in Run
  BY DEF DiagnosticsTypeOK, DiagnosticsInv, LogCheck, CheckedServer
<1> SUFFICES
      /\ DiagnosticsInv'
      /\ run' \in Run /\ snapshots' \in Seq(Run) /\ storedRun' \in Run
      /\ logCheck' \in LogCheck /\ checkedServer' \in CheckedServer
      /\ commands' \in {SubSeq(Commands, i, 5) : i \in 1..6}
  BY DEF DiagnosticsTypeOK, LogCheck, CheckedServer
<1> DEFINE Goal ==
      /\ DiagnosticsInv'
      /\ run' \in Run /\ snapshots' \in Seq(Run) /\ storedRun' \in Run
      /\ logCheck' \in LogCheck /\ checkedServer' \in CheckedServer
      /\ commands' \in {SubSeq(Commands, i, 5) : i \in 1..6}
<1>1. CASE StartRun
  <2>1. /\ [run EXCEPT !.status = "running", !.rcon = "running"] \in Run
        /\ Consistent([run EXCEPT !.status = "running", !.rcon = "running"])
    BY <1>0 DEF Run, CheckStatus, Consistent
  <2> QED BY <1>0, <1>1, <2>1, PublishInv DEF StartRun
<1>2. ASSUME NEW success \in BOOLEAN, RconChecked(success) PROVE Goal
  <2>1. PICK r \in {"completed", "failed"} : Publish([run EXCEPT !.rcon = r])
    BY <1>2 DEF RconChecked
  <2>2. [run EXCEPT !.rcon = r] \in Run /\ Consistent([run EXCEPT !.rcon = r])
    BY <1>0, <1>2 DEF Run, CheckStatus, Consistent, RconChecked
  <2> QED BY <1>0, <1>2, <2>1, <2>2, PublishInv DEF RconChecked
<1>3. CASE StartLogForwarding
  <2>1. [run EXCEPT !.logs = "running"] \in Run /\ Consistent([run EXCEPT !.logs = "running"])
    BY <1>0, <1>3 DEF Run, CheckStatus, Consistent, StartLogForwarding
  <2>2. [result |-> "none", subscribed |-> TRUE] \in LogCheck
    BY DEF LogCheck
  <2>3. logCheck' \in LogCheck
    BY <1>0, <1>3, <2>2, CheckFields DEF StartLogForwarding
  <2>4. commands' \in {SubSeq(Commands, i, 5) : i \in 1..6}
    BY <1>0, <1>3, CommandsLeft DEF StartLogForwarding
  <2> QED BY <1>0, <1>3, <2>1, <2>3, <2>4, PublishInv DEF StartLogForwarding
<1>4. CASE SendCommand
  <2>1. /\ commands' \in {SubSeq(Commands, i, 5) : i \in 1..6}
        /\ Head(commands) \in CommandNames
    BY <1>0, <1>4, CommandsLeft DEF SendCommand
  <2>2. checkedServer' \in CheckedServer
    BY <1>0, <1>4, <2>1, CheckFields DEF SendCommand, CommandNames
  <2>3. PICK b : b = (Len(commands) > 1)
    OBVIOUS
  <2>4. logCheck' = [logCheck EXCEPT !.subscribed = b]
    BY <1>4, <2>3, Zenon DEF SendCommand
  <2>6. b \in BOOLEAN
    BY <2>3
  <2>5. logCheck' \in LogCheck
    BY <1>0, <2>4, <2>6, CheckFields, Zenon
  <2> QED BY <1>0, <1>4, <2>1, <2>2, <2>5 DEF SendCommand, DiagnosticsInv
<1>5. CASE CommandFails
  BY <1>0, <1>5, CommandsLeft DEF CommandFails, DiagnosticsInv
<1>6. CASE LineArrives
  BY <1>0, <1>6, CheckFields DEF LineArrives, Settle, DiagnosticsInv
<1>7. CASE FiveSecondsPass
  BY <1>0, <1>7, CheckFields DEF FiveSecondsPass, Settle, DiagnosticsInv
<1>8. CASE LogForwardingChecked
  <2>1. PICK r \in {"completed", "failed"} : Publish([run EXCEPT !.logs = r])
    BY <1>8 DEF LogForwardingChecked
  <2>2. [run EXCEPT !.logs = r] \in Run /\ Consistent([run EXCEPT !.logs = r])
    BY <1>0, <1>8 DEF Run, CheckStatus, Consistent, LogForwardingChecked
  <2> QED BY <1>0, <1>8, <2>1, <2>2, PublishInv DEF LogForwardingChecked
<1>9. CASE FinishRun
  <2>1. PICK r \in {"completed", "failed"} :
          /\ Publish([run EXCEPT !.status = r])
          /\ r = "completed" => run.rcon = "completed" /\ run.logs = "completed"
    BY <1>9 DEF FinishRun
  <2>2. [run EXCEPT !.status = r] \in Run /\ Consistent([run EXCEPT !.status = r])
    BY <1>0, <2>1 DEF Run, CheckStatus, Consistent
  <2> QED BY <1>0, <1>9, <2>1, <2>2, PublishInv DEF FinishRun
<1>10. CASE StoreSnapshot
  <2>1. snapshots \in Seq(Run) /\ snapshots # <<>> /\ snapshots' = Tail(snapshots)
    BY <1>0, <1>10 DEF StoreSnapshot
  <2>2. /\ snapshots' \in Seq(Run) /\ storedRun' = snapshots[1] /\ storedRun' \in Run
        /\ Len(snapshots') = Len(snapshots) - 1 /\ Len(snapshots) \in Nat \ {0}
        /\ \A i \in 1..(Len(snapshots) - 1) : snapshots'[i] = snapshots[i + 1]
    BY <2>1, <1>10, HeadTailProperties DEF StoreSnapshot
  <2>3. /\ \A i \in 1..Len(snapshots) : Consistent(snapshots[i])
        /\ snapshots[Len(snapshots)] = run /\ UNCHANGED diagnosticRun
    BY <1>10, <2>1 DEF StoreSnapshot, DiagnosticsInv
  <2>4. \A i \in 1..Len(snapshots') : Consistent(snapshots'[i])
    <3>1. \A i \in 1..Len(snapshots') :
            i \in 1..(Len(snapshots) - 1) /\ i + 1 \in 1..Len(snapshots)
      BY <2>2
    <3> QED BY <2>2, <2>3, <3>1
  <2>5. Consistent(storedRun')
    <3>1. 1 \in 1..Len(snapshots)
      BY <2>2
    <3> QED BY <2>2, <2>3, <3>1
  <2>6. IF snapshots' = <<>> THEN storedRun' = run' ELSE snapshots'[Len(snapshots')] = run'
    <3>1. snapshots' = <<>> => Len(snapshots) = 1
      BY <2>2
    <3>2. snapshots' # <<>> =>
            Len(snapshots') \in 1..(Len(snapshots) - 1) /\ Len(snapshots') + 1 = Len(snapshots)
      BY <2>2
    <3> QED BY <2>2, <2>3, <3>1, <3>2
  <2>7. DiagnosticsInv'
    BY <1>0, <2>3, <2>4, <2>5, <2>6 DEF DiagnosticsInv
  <2> QED BY <1>0, <1>10, <2>2, <2>3, <2>7 DEF StoreSnapshot
<1>11. CASE UNCHANGED diagnosticsVars
  BY <1>0, <1>11 DEF diagnosticsVars, DiagnosticsInv
<1> QED BY <1>1, <1>2, <1>3, <1>4, <1>5, <1>6, <1>7, <1>8, <1>9, <1>10, <1>11
        DEF DiagnosticsNext

\* However many updates of the run are on their way, whoever reads the stored run last
\* reads what it came to, and never that it is completed when a check has failed.
THEOREM StoredRunLatest == DiagnosticsSpec => []StoredRunIsLatest
<1>1. DiagnosticsInv => StoredRunIsLatest
  BY DEF DiagnosticsInv, StoredRunIsLatest, Consistent
<1> QED BY InitDiagnostics, NextDiagnostics, <1>1, PTL DEF DiagnosticsSpec

-----------------------------------------------------------------------------
(* Heartbeats *)

\* A call that is alone has the status it read, stored or announced before.
CallInv(h) ==
  /\ heartbeats[h].step = "none" <=> heartbeats[h] = NoCall
  /\ marking.host = h => marking.step \in {"read", "written"}
  /\ heartbeats[h] # NoCall /\ heartbeats[h].alone => marking.host # h
  /\ marking.host = h /\ marking.alone => heartbeats[h] = NoCall
  /\ heartbeats[h].step = "read" /\ heartbeats[h].alone =>
       heartbeats[h].old = staticServers[h].status
  /\ heartbeats[h].step = "written" /\ heartbeats[h].alone =>
       /\ staticServers[h].status = "online"
       /\ h \notin missed => announced[h] = heartbeats[h].old
  /\ marking.host = h /\ marking.step = "read" /\ marking.alone =>
       marking.old = staticServers[h].status
  /\ marking.host = h /\ marking.step = "written" /\ marking.alone =>
       /\ staticServers[h].status = "offline"
       /\ h \notin missed => announced[h] = marking.old

\* Unless a change is stored and about to be announced, the admins know of it.
ToldInv(h) ==
  /\ h \notin missed
  /\ heartbeats[h].step # "written"
  /\ ~(marking.host = h /\ marking.step = "written")
  => announced[h] = staticServers[h].status

HeartbeatsInv ==
  /\ \A h \in Hosts : CallInv(h) /\ ToldInv(h)
  /\ marking.host = NoHost => marking = NotMarking

\* A server, a call or a marking that changes one of its fields.
LEMMA HeartbeatFields ==
  /\ \A x \in Heartbeat :
       /\ [x EXCEPT !.step = "written"] \in Heartbeat
       /\ \A b \in BOOLEAN :
            /\ [x EXCEPT !.alone = b] \in Heartbeat
            /\ [x EXCEPT !.alone = b].step = x.step /\ [x EXCEPT !.alone = b].old = x.old
            /\ [x EXCEPT !.alone = b].alone = b
            /\ x.alone = b => [x EXCEPT !.alone = b] = x
  /\ \A s \in Status, b \in BOOLEAN : [step |-> "read", old |-> s, alone |-> b] \in Heartbeat
  /\ \A x \in Marking :
       /\ [x EXCEPT !.step = "written"] \in Marking
       /\ \A b \in BOOLEAN :
            /\ [x EXCEPT !.alone = b] \in Marking
            /\ x.alone = b => [x EXCEPT !.alone = b] = x
  /\ \A h \in Hosts, s \in Status, b \in BOOLEAN :
       [host |-> h, step |-> "read", old |-> s, alone |-> b] \in Marking
  /\ \A x \in StaticServer :
       /\ [x EXCEPT !.fresh = FALSE] \in StaticServer
       /\ [x EXCEPT !.status = "offline"] \in StaticServer
  /\ [status |-> "online", fresh |-> TRUE] \in StaticServer
  /\ [status |-> "none", fresh |-> FALSE] \in StaticServer
  /\ NoCall \in Heartbeat /\ NoCall.alone = TRUE
  /\ NotMarking \in Marking /\ NotMarking.alone = TRUE
BY DEF Heartbeat, Marking, StaticServer, Status, NoCall, NotMarking

LEMMA InitHeartbeats == HeartbeatsInit => HeartbeatsTypeOK /\ HeartbeatsInv
<1> SUFFICES ASSUME HeartbeatsInit PROVE HeartbeatsTypeOK /\ HeartbeatsInv
  OBVIOUS
<1>1. restarts \in 0..MaxRestarts
  BY HeartbeatsAssumption DEF HeartbeatsInit, HeartbeatsAssumption
<1>2. HeartbeatsTypeOK
  BY <1>1, HeartbeatFields DEF HeartbeatsInit, HeartbeatsTypeOK, Status
<1>3. /\ \A h \in Hosts : /\ heartbeats[h] = NoCall
                          /\ staticServers[h].status = "none" /\ announced[h] = "none"
      /\ marking = NotMarking
  BY DEF HeartbeatsInit
<1>4. /\ NoCall.step = "none" /\ NotMarking.host = NoHost /\ NoHost \notin Hosts
  BY HeartbeatsAssumption DEF NoCall, NotMarking, HeartbeatsAssumption
<1>5. HeartbeatsInv
  BY <1>3, <1>4 DEF HeartbeatsInv, CallInv, ToldInv
<1> QED BY <1>2, <1>5

LEMMA NextHeartbeats ==
  HeartbeatsTypeOK /\ HeartbeatsInv /\ [HeartbeatsNext]_heartbeatsVars
    => HeartbeatsTypeOK' /\ HeartbeatsInv'
<1> SUFFICES ASSUME HeartbeatsTypeOK, HeartbeatsInv, [HeartbeatsNext]_heartbeatsVars
             PROVE  HeartbeatsTypeOK' /\ HeartbeatsInv'
  OBVIOUS
<1> USE DEF HeartbeatsTypeOK
<1>0. /\ NoCall.step = "none" /\ NotMarking.host = NoHost /\ NotMarking.step = "none"
      /\ NoHost \notin Hosts
      /\ \A q \in Hosts : CallInv(q) /\ ToldInv(q)
      /\ \A q \in Hosts : staticServers[q].status \in Status /\ heartbeats[q] \in Heartbeat
                          /\ staticServers[q] \in StaticServer
      /\ marking.host = NoHost => marking = NotMarking
  <2>1. /\ NoCall.step = "none" /\ NotMarking.host = NoHost /\ NotMarking.step = "none"
        /\ NoHost \notin Hosts
    BY HeartbeatsAssumption DEF NoCall, NotMarking, HeartbeatsAssumption
  <2>2. /\ \A q \in Hosts : CallInv(q) /\ ToldInv(q)
        /\ marking.host = NoHost => marking = NotMarking
    BY DEF HeartbeatsInv
  <2>3. \A q \in Hosts : staticServers[q] \in StaticServer /\ heartbeats[q] \in Heartbeat
    OBVIOUS
  <2>4. \A q \in Hosts : staticServers[q].status \in Status
    BY <2>3 DEF StaticServer
  <2> QED BY <2>1, <2>2, <2>3, <2>4
<1> USE DEF CallInv, ToldInv
<1>1. ASSUME NEW h \in Hosts, ReceiveHeartbeat(h)
      PROVE  HeartbeatsTypeOK' /\ HeartbeatsInv'
  <2>1. PICK a : a = (marking.host # h)
    OBVIOUS
  <2>2. PICK b : b = (marking.alone /\ marking.host # h)
    OBVIOUS
  <2>3. a \in BOOLEAN /\ b \in BOOLEAN
    BY <2>1, <2>2
  <2> DEFINE call == [step |-> "read", old |-> staticServers[h].status, alone |-> a]
  <2>4. /\ heartbeats' = [heartbeats EXCEPT ![h] = call]
        /\ marking' = [marking EXCEPT !.alone = b]
    BY <1>1, <2>1, <2>2, Zenon DEF ReceiveHeartbeat
  <2>5. call \in Heartbeat /\ [marking EXCEPT !.alone = b] \in Marking
    BY <1>0, <2>3, HeartbeatFields
  <2>6. HeartbeatsTypeOK'
    BY <1>1, <2>4, <2>5 DEF ReceiveHeartbeat
  <2>7. /\ call.step = "read" /\ call.old = staticServers[h].status
        /\ call.alone <=> (marking.host # h)
        /\ marking'.host = marking.host /\ marking'.step = marking.step
        /\ marking'.old = marking.old
        /\ marking'.alone <=> (marking.alone /\ marking.host # h)
    BY <2>1, <2>2, <2>3, <2>4 DEF Marking
  <2> HIDE DEF call
  <2>8. /\ heartbeats'[h] = call /\ \A q \in Hosts : q # h => heartbeats'[q] = heartbeats[q]
        /\ heartbeats[h] = NoCall
        /\ UNCHANGED <<staticServers, dead, discordReady, announced, missed, restarts>>
    BY <1>1, <2>4 DEF ReceiveHeartbeat
  <2>9. \A q \in Hosts : CallInv(q)' /\ ToldInv(q)'
    BY <1>0, <2>7, <2>8
  <2>10. marking'.host = NoHost => marking' = NotMarking
    <3>1. [NotMarking EXCEPT !.alone = TRUE] = NotMarking
      BY HeartbeatFields
    <3>2. NotMarking.alone = TRUE
      BY HeartbeatFields
    <3>3. marking'.host = NoHost => b = TRUE
      BY <1>0, <2>2, <2>7, <3>2
    <3> QED BY <1>0, <2>4, <2>7, <3>1, <3>3
  <2> QED BY <2>6, <2>9, <2>10 DEF HeartbeatsInv
<1>2. ASSUME NEW h \in Hosts, StoreHeartbeat(h)
      PROVE  HeartbeatsTypeOK' /\ HeartbeatsInv'
  <2>1. HeartbeatsTypeOK'
    BY <1>0, <1>2, HeartbeatFields DEF StoreHeartbeat
  <2>2. /\ UNCHANGED <<marking, announced, missed>>
        /\ heartbeats[h].step = "read" /\ heartbeats'[h].step = "written"
        /\ heartbeats'[h].old = heartbeats[h].old /\ heartbeats'[h].alone = heartbeats[h].alone
        /\ staticServers'[h].status = "online"
        /\ \A q \in Hosts : q # h => /\ heartbeats'[q] = heartbeats[q]
                                     /\ staticServers'[q] = staticServers[q]
    BY <1>2 DEF StoreHeartbeat, Heartbeat
  <2>3. \A q \in Hosts : CallInv(q)' /\ ToldInv(q)'
    BY <1>0, <2>2
  <2> QED BY <1>0, <2>1, <2>2, <2>3 DEF HeartbeatsInv
<1>3. ASSUME NEW h \in Hosts, AnnounceHeartbeat(h)
      PROVE  HeartbeatsTypeOK' /\ HeartbeatsInv'
  <2>1. HeartbeatsTypeOK'
    BY <1>0, <1>3, HeartbeatFields DEF AnnounceHeartbeat, Announce, Status
  <2>2. /\ UNCHANGED <<marking, staticServers>>
        /\ heartbeats[h].step = "written" /\ heartbeats'[h] = NoCall
        /\ \A q \in Hosts : q # h => heartbeats'[q] = heartbeats[q]
    BY <1>3 DEF AnnounceHeartbeat
  <2>3. /\ \A q \in Hosts : q # h => /\ announced'[q] = announced[q]
                                     /\ q \in missed' <=> q \in missed
        /\ h \notin missed' => /\ heartbeats[h].alone
                               /\ announced'[h] = "online" \/
                                  (heartbeats[h].old = "online" /\ announced'[h] = announced[h]
                                   /\ h \notin missed)
    BY <1>3 DEF AnnounceHeartbeat, Announce
  <2>4. \A q \in Hosts : CallInv(q)' /\ ToldInv(q)'
    BY <1>0, <2>2, <2>3
  <2> QED BY <1>0, <2>1, <2>2, <2>4 DEF HeartbeatsInv
<1>4. ASSUME NEW h \in Hosts, FiveMinutesPass(h)
      PROVE  HeartbeatsTypeOK' /\ HeartbeatsInv'
  <2>1. HeartbeatsTypeOK'
    BY <1>0, <1>4, HeartbeatFields DEF FiveMinutesPass
  <2>2. /\ UNCHANGED <<marking, heartbeats, announced, missed>>
        /\ \A q \in Hosts : staticServers'[q].status = staticServers[q].status
    BY <1>4 DEF FiveMinutesPass, StaticServer
  <2>3. \A q \in Hosts : CallInv(q)' /\ ToldInv(q)'
    BY <1>0, <2>2
  <2> QED BY <1>0, <2>1, <2>2, <2>3 DEF HeartbeatsInv
<1>5. ASSUME NEW h \in Hosts, ReadDeadServer(h)
      PROVE  HeartbeatsTypeOK' /\ HeartbeatsInv'
  <2>1. PICK a : a = (heartbeats[h] = NoCall)
    OBVIOUS
  <2>2. a \in BOOLEAN
    BY <2>1
  <2> DEFINE mark == [host |-> h, step |-> "read", old |-> staticServers[h].status, alone |-> a]
             call == [heartbeats[h] EXCEPT !.alone = a]
  <2>3. heartbeats' = [heartbeats EXCEPT ![h].alone = a] /\ marking' = mark
    BY <1>5, <2>1, Zenon DEF ReadDeadServer
  <2>4. call \in Heartbeat /\ mark \in Marking
    BY <1>0, <2>2, HeartbeatFields
  <2>5. HeartbeatsTypeOK'
    BY <1>5, <2>3, <2>4 DEF ReadDeadServer
  <2>6. /\ marking'.host = h /\ marking'.step = "read"
        /\ marking'.old = staticServers[h].status
        /\ marking'.alone <=> (heartbeats[h] = NoCall)
    BY <2>1, <2>3
  <2>9. /\ call.step = heartbeats[h].step /\ call.old = heartbeats[h].old
        /\ call.alone <=> (heartbeats[h] = NoCall)
    <3>1. /\ call.step = heartbeats[h].step /\ call.old = heartbeats[h].old /\ call.alone = a
      BY <1>0, <2>2, HeartbeatFields
    <3> QED BY <3>1, <2>1
  <2>10. heartbeats[h] = NoCall => call = NoCall
    BY <2>1, HeartbeatFields
  <2>7. /\ heartbeats'[h] = call /\ \A q \in Hosts : q # h => heartbeats'[q] = heartbeats[q]
        /\ marking = NotMarking
        /\ UNCHANGED <<staticServers, announced, missed>>
    BY <1>5, <2>3 DEF ReadDeadServer
  <2> HIDE DEF call, mark
  <2>8. \A q \in Hosts : CallInv(q)' /\ ToldInv(q)'
    BY <1>0, <2>6, <2>7, <2>9, <2>10
  <2> QED BY <1>0, <2>5, <2>6, <2>8 DEF HeartbeatsInv
<1>6. CASE FindDeadServers \/ DiscordReady
  <2>1. /\ UNCHANGED <<staticServers, heartbeats, marking, announced, missed>>
        /\ HeartbeatsTypeOK'
    BY <1>6 DEF FindDeadServers, DiscordReady
  <2> QED BY <1>0, <2>1 DEF HeartbeatsInv
<1>7. CASE MarkAsOffline
  <2>1. marking.host \in Hosts
    BY <1>0, <1>7 DEF MarkAsOffline, Marking
  <2>2. HeartbeatsTypeOK'
    BY <1>0, <1>7, <2>1, HeartbeatFields DEF MarkAsOffline
  <2>3. /\ UNCHANGED <<heartbeats, announced, missed>>
        /\ marking.step = "read" /\ marking'.step = "written" /\ marking'.host = marking.host
        /\ marking'.old = marking.old /\ marking'.alone = marking.alone
        /\ staticServers'[marking.host].status = "offline"
        /\ \A q \in Hosts : q # marking.host => staticServers'[q] = staticServers[q]
    BY <1>7, <2>1 DEF MarkAsOffline, Marking, StaticServer
  <2>4. \A q \in Hosts : CallInv(q)' /\ ToldInv(q)'
    BY <1>0, <2>1, <2>3
  <2> QED BY <1>0, <2>1, <2>2, <2>3, <2>4 DEF HeartbeatsInv
<1>8. CASE AnnounceDeadServer
  <2>1. marking.host \in Hosts
    BY <1>0, <1>8 DEF AnnounceDeadServer, Marking
  <2> DEFINE h == marking.host
  <2>2. HeartbeatsTypeOK'
    BY <1>0, <1>8, <2>1, HeartbeatFields DEF AnnounceDeadServer, Announce, Status
  <2>3. /\ UNCHANGED <<heartbeats, staticServers>>
        /\ marking.step = "written" /\ marking' = NotMarking
    BY <1>8 DEF AnnounceDeadServer
  <2>4. /\ \A q \in Hosts : q # h => /\ announced'[q] = announced[q]
                                     /\ q \in missed' <=> q \in missed
        /\ h \notin missed' => /\ marking.alone
                               /\ announced'[h] = "offline" \/
                                  (marking.old = "offline" /\ announced'[h] = announced[h]
                                   /\ h \notin missed)
    BY <1>8, <2>1 DEF AnnounceDeadServer, Announce
  <2>5. \A q \in Hosts : CallInv(q)' /\ ToldInv(q)'
    BY <1>0, <2>1, <2>3, <2>4
  <2> QED BY <1>0, <2>2, <2>3, <2>5 DEF HeartbeatsInv
<1>9. CASE RestartService
  <2>1. HeartbeatsTypeOK'
    <3>1. restarts' \in 0..MaxRestarts
      <4>1. restarts \in 0..MaxRestarts /\ MaxRestarts \in Nat
        BY HeartbeatsAssumption DEF HeartbeatsAssumption
      <4>2. restarts < MaxRestarts /\ restarts' = restarts + 1
        BY <1>9 DEF RestartService
      <4> QED BY <4>1, <4>2
    <3> QED BY <1>9, <3>1, HeartbeatFields DEF RestartService
  <2>2. /\ UNCHANGED <<staticServers, announced>> /\ marking' = NotMarking
        /\ \A q \in Hosts : heartbeats'[q] = NoCall
        /\ \A q \in Hosts : q \notin missed' => q \notin missed /\ heartbeats[q].step # "written"
                              /\ ~(marking.host = q /\ marking.step = "written")
    BY <1>9 DEF RestartService
  <2>3. \A q \in Hosts : CallInv(q)' /\ ToldInv(q)'
    BY <1>0, <2>2
  <2> QED BY <1>0, <2>1, <2>2, <2>3 DEF HeartbeatsInv
<1>10. CASE UNCHANGED heartbeatsVars
  BY <1>0, <1>10 DEF heartbeatsVars, HeartbeatsInv
<1> QED BY <1>1, <1>2, <1>3, <1>4, <1>5, <1>6, <1>7, <1>8, <1>9, <1>10 DEF HeartbeatsNext

\* What the admins were told last of a server is its status, unless a notice was lost,
\* is on its way, or was overtaken by another of the same server.
THEOREM AdminsKnowStatus == HeartbeatsSpec => []NoticesTellStatus
<1>1. HeartbeatsInv => NoticesTellStatus
  BY DEF HeartbeatsInv, NoticesTellStatus, ToldInv
<1> QED BY InitHeartbeats, NextHeartbeats, <1>1, PTL DEF HeartbeatsSpec

-----------------------------------------------------------------------------
(* A server from one match to the next *)

USE MatchAssumption DEF MatchAssumption

By == {"launch", "admin"}

GameState == {"none", "launching", "started", "over"}

ConfigStep == {"idle", "assign", "secret", "logSecret", "clear", "read", "log", "map",
               "password", "players", "store"}

\* A game, a server and a configuration that change one of their fields.
GameFieldNames == {"state", "slots", "connectString", "logSecret", "gameServer", "toldBy"}

\* y has the fields of x, but for one.
Keeps(y, x, field) == \A f \in GameFieldNames \ {field} : y[f] = x[f]

LEMMA GameFields ==
  ASSUME NEW x \in Game
  PROVE  /\ \A s \in GameState :
              /\ [x EXCEPT !.state = s] \in Game /\ [x EXCEPT !.state = s].state = s
              /\ Keeps([x EXCEPT !.state = s], x, "state")
         /\ \A p \in SUBSET Players :
              /\ [x EXCEPT !.slots = p] \in Game /\ [x EXCEPT !.slots = p].slots = p
              /\ Keeps([x EXCEPT !.slots = p], x, "slots")
         /\ \A c \in 0..MaxConfigurations :
              /\ [x EXCEPT !.connectString = c] \in Game
              /\ [x EXCEPT !.connectString = c].connectString = c
              /\ Keeps([x EXCEPT !.connectString = c], x, "connectString")
         /\ \A g \in GameIds \cup {NoGame} :
              /\ [x EXCEPT !.logSecret = g] \in Game /\ [x EXCEPT !.logSecret = g].logSecret = g
              /\ Keeps([x EXCEPT !.logSecret = g], x, "logSecret")
         /\ \A b \in BOOLEAN :
              /\ [x EXCEPT !.gameServer = b] \in Game /\ [x EXCEPT !.gameServer = b].gameServer = b
              /\ Keeps([x EXCEPT !.gameServer = b], x, "gameServer")
         /\ \A t \in SUBSET GameIds :
              /\ [x EXCEPT !.toldBy = t] \in Game /\ [x EXCEPT !.toldBy = t].toldBy = t
              /\ Keeps([x EXCEPT !.toldBy = t], x, "toldBy")
<1>1. ASSUME NEW s \in GameState
      PROVE  /\ [x EXCEPT !.state = s] \in Game /\ [x EXCEPT !.state = s].state = s
             /\ Keeps([x EXCEPT !.state = s], x, "state")
  BY DEF Game, GameState, Keeps, GameFieldNames
<1>2. ASSUME NEW p \in SUBSET Players
      PROVE  /\ [x EXCEPT !.slots = p] \in Game /\ [x EXCEPT !.slots = p].slots = p
             /\ Keeps([x EXCEPT !.slots = p], x, "slots")
  BY DEF Game, Keeps, GameFieldNames
<1>3. ASSUME NEW c \in 0..MaxConfigurations
      PROVE  /\ [x EXCEPT !.connectString = c] \in Game
             /\ [x EXCEPT !.connectString = c].connectString = c
             /\ Keeps([x EXCEPT !.connectString = c], x, "connectString")
  BY DEF Game, Keeps, GameFieldNames
<1>4. ASSUME NEW g \in GameIds \cup {NoGame}
      PROVE  /\ [x EXCEPT !.logSecret = g] \in Game /\ [x EXCEPT !.logSecret = g].logSecret = g
             /\ Keeps([x EXCEPT !.logSecret = g], x, "logSecret")
  BY DEF Game, Keeps, GameFieldNames
<1>5. ASSUME NEW b \in BOOLEAN
      PROVE  /\ [x EXCEPT !.gameServer = b] \in Game /\ [x EXCEPT !.gameServer = b].gameServer = b
             /\ Keeps([x EXCEPT !.gameServer = b], x, "gameServer")
  BY DEF Game, Keeps, GameFieldNames
<1>6. ASSUME NEW t \in SUBSET GameIds
      PROVE  /\ [x EXCEPT !.toldBy = t] \in Game /\ [x EXCEPT !.toldBy = t].toldBy = t
             /\ Keeps([x EXCEPT !.toldBy = t], x, "toldBy")
  BY DEF Game, Keeps, GameFieldNames
<1> QED BY <1>1, <1>2, <1>3, <1>4, <1>5, <1>6

LEMMA ServerFields ==
  ASSUME NEW x \in Server
  PROVE  /\ \A g \in GameIds \cup {NoGame} :
              [x EXCEPT !.game = g] \in Server /\ [x EXCEPT !.logSecret = g] \in Server
         /\ \A c \in 0..MaxConfigurations : [x EXCEPT !.password = c] \in Server
         /\ \A p \in SUBSET Players : [x EXCEPT !.players = p] \in Server
         /\ \A b \in BOOLEAN : [x EXCEPT !.logAddress = b] \in Server
BY DEF Server

LEMMA ConfigFields ==
  ASSUME NEW x \in Config
  PROVE  /\ \A s \in ConfigStep : [x EXCEPT !.step = s] \in Config
         /\ \A g \in GameIds \cup {NoGame} : [x EXCEPT !.game = g] \in Config
         /\ \A p \in SUBSET Players : [x EXCEPT !.slots = p] \in Config
         /\ \A c \in 0..MaxConfigurations : [x EXCEPT !.password = c] \in Config
BY DEF Config, ConfigStep

LEMMA OneOf ==
  ASSUME NEW S, NEW R, NEW f \in [S -> R], NEW i \in S, NEW x \in R
  PROVE  /\ [f EXCEPT ![i] = x] \in [S -> R]
         /\ [f EXCEPT ![i] = x][i] = x
         /\ \A j \in S : j # i => [f EXCEPT ![i] = x][j] = f[j]
OBVIOUS

LEMMA Constants == /\ NoGame \notin GameIds /\ NoPassword \in 0..MaxConfigurations
                   /\ MaxConfigurations \in Nat /\ MaxReplacements \in Nat
BY DEF NoGame, GameIds, NoPassword

LEMMA MatchInitType == Init => TypeOK
<1> SUFFICES ASSUME Init PROVE TypeOK
  OBVIOUS
<1>1. NotCreated \in Game /\ NewServer \in Server /\ NoConfig \in Config
  BY Constants DEF NotCreated, Game, NewServer, Server, NoConfig, Config
<1>2. \A by \in By : configs[by].step = "idle" /\ configs[by].game = NoGame
  BY DEF Init, NoConfig, By
<1>3. \A g \in GameIds : server.game # g
  BY Constants DEF Init, NewServer
<1>4. passwords \in 0..MaxConfigurations /\ replaced \in 0..MaxReplacements
  BY DEF Init
<1> QED BY <1>1, <1>2, <1>3, <1>4 DEF Init, TypeOK, By

-----------------------------------------------------------------------------
(* What the actions change, and that what they leave is of the right type. *)

\* At most the fields fs of game g change.
GameChanges(g, fs) ==
  /\ games' \in [GameIds -> Game]
  /\ \A q \in GameIds : q # g => games'[q] = games[q]
  /\ \A f \in GameFieldNames \ fs : games'[g][f] = games[g][f]

ServerFieldNames == {"game", "password", "players", "logSecret", "logAddress"}

ServerChanges(fs) ==
  /\ server' \in Server
  /\ \A f \in ServerFieldNames \ fs : server'[f] = server[f]

ConfigFieldNames == {"step", "game", "slots", "password"}

ConfigChanges(by, fs) ==
  /\ configs' \in [By -> Config]
  /\ \A c \in By : c # by => configs'[c] = configs[c]
  /\ \A f \in ConfigFieldNames \ fs : configs'[by][f] = configs[by][f]

LEMMA Typed ==
  TypeOK => /\ games \in [GameIds -> Game] /\ (\A g \in GameIds : games[g] \in Game)
            /\ server \in Server
            /\ configs \in [By -> Config] /\ (\A by \in By : configs[by] \in Config)
BY DEF TypeOK, By

LEMMA GameSet ==
  ASSUME TypeOK, NEW g \in GameIds, NEW x \in Game, games' = [games EXCEPT ![g] = x],
         NEW fs, \A f \in GameFieldNames \ fs : x[f] = games[g][f]
  PROVE  GameChanges(g, fs) /\ games'[g] = x
BY Typed DEF GameChanges

LEMMA ConfigSet ==
  ASSUME TypeOK, NEW by \in By, NEW x \in Config, configs' = [configs EXCEPT ![by] = x],
         NEW fs, \A f \in ConfigFieldNames \ fs : x[f] = configs[by][f]
  PROVE  ConfigChanges(by, fs) /\ configs'[by] = x
<1> HIDE DEF By
<1> QED BY Typed DEF ConfigChanges

\* A call of configureServer() goes on, or comes to its end.
LEMMA GoChanges ==
  ASSUME TypeOK, NEW by \in By, NEW s \in ConfigStep, Go(by, s)
  PROVE  ConfigChanges(by, {"step"}) /\ configs'[by].step = s
<1> DEFINE x == [configs[by] EXCEPT !.step = s]
<1>1. configs[by] \in Config /\ configs' = [configs EXCEPT ![by] = x]
  BY Typed DEF Go
<1>2. /\ x \in Config /\ x.step = s
      /\ \A f \in ConfigFieldNames \ {"step"} : x[f] = configs[by][f]
  BY <1>1, ConfigFields DEF Config, ConfigFieldNames
<1> HIDE DEF x
<1> QED BY <1>1, <1>2, ConfigSet

NoConfigs(by) == configs' = [configs EXCEPT ![by] = NoConfig]

LEMMA EndChanges ==
  ASSUME TypeOK, NEW by \in By, NoConfigs(by)
  PROVE  ConfigChanges(by, ConfigFieldNames) /\ configs'[by] = NoConfig
BY ConfigSet, Constants DEF NoConfigs, NoConfig, Config

\* configureServer() is called for game g.
CallStarts(by, s, g) ==
  /\ ConfigChanges(by, {"step", "game"})
  /\ configs[by].step = "idle" /\ configs[by].slots = {}
  /\ configs'[by].step = s /\ configs'[by].game = g

LEMMA StartChanges ==
  ASSUME TypeOK, NEW by \in By, NEW s \in ConfigStep, NEW g \in GameIds,
         configs[by] = NoConfig,
         configs' = [configs EXCEPT ![by] = [NoConfig EXCEPT !.step = s, !.game = g]]
  PROVE  CallStarts(by, s, g)
<1> DEFINE x == [NoConfig EXCEPT !.step = s]
           y == [x EXCEPT !.game = g]
<1>1. /\ NoConfig \in Config
      /\ NoConfig.step = "idle" /\ NoConfig.slots = {} /\ NoConfig.password = NoPassword
  BY Constants DEF NoConfig, Config
<1>2. /\ x \in Config /\ x.step = s /\ x.slots = {} /\ x.password = NoPassword
  BY <1>1, ConfigFields DEF Config
<1> HIDE DEF x
<1>3. /\ y \in Config /\ y.step = s /\ y.slots = {} /\ y.password = NoPassword
      /\ y.game = g
  BY <1>2, ConfigFields DEF Config
<1>4. configs' = [configs EXCEPT ![by] = y]
  BY DEF x
<1> HIDE DEF y
<1>5. \A f \in ConfigFieldNames \ {"step", "game"} : y[f] = configs[by][f]
  BY <1>1, <1>3 DEF ConfigFieldNames
<1>6. ConfigChanges(by, {"step", "game"}) /\ configs'[by] = y
  BY <1>3, <1>4, <1>5, ConfigSet
<1> QED BY <1>1, <1>3, <1>6 DEF CallStarts

LEMMA CreateGameDoes ==
  ASSUME TypeOK, NEW g \in GameIds, CreateGame(g)
  PROVE  /\ GameChanges(g, {"state", "slots"}) /\ games'[g].state = "launching"
         /\ CallStarts("launch", "assign", g)
         /\ UNCHANGED <<server, passwords, replacings, failed, replaced, raced, lines,
                        handlings>>
<1>1. PICK slots \in SUBSET Players :
        games' = [games EXCEPT ![g].state = "launching", ![g].slots = slots]
  BY DEF CreateGame
<1> DEFINE x == [games[g] EXCEPT !.state = "launching"]
           y == [x EXCEPT !.slots = slots]
<1>2. x \in Game /\ Keeps(x, games[g], "state") /\ x.state = "launching"
  BY Typed, GameFields DEF GameState
<1> HIDE DEF x
<1>3. y \in Game /\ Keeps(y, x, "slots")
  BY <1>2, GameFields
<1>4. games' = [games EXCEPT ![g] = y]
  BY <1>1, Typed DEF x
<1> HIDE DEF y
<1>5. GameChanges(g, {"state", "slots"}) /\ games'[g].state = "launching"
  <2>1. \A f \in GameFieldNames \ {"state", "slots"} : y[f] = games[g][f]
    BY <1>2, <1>3 DEF Keeps
  <2>2. y.state = "launching"
    BY <1>2, <1>3 DEF GameFieldNames, Keeps
  <2> QED BY <1>3, <1>4, <2>1, <2>2, GameSet
<1>6. configs' = [configs EXCEPT !["launch"] = [NoConfig EXCEPT !.step = "assign", !.game = g]]
      /\ configs["launch"] = NoConfig
  BY DEF CreateGame
<1>7. CallStarts("launch", "assign", g)
  BY <1>6, StartChanges DEF By, ConfigStep
<1>8. UNCHANGED <<server, passwords, replacings, failed, replaced, raced, lines, handlings>>
  BY DEF CreateGame
<1> QED BY <1>5, <1>7, <1>8
LEMMA GameFieldSet ==
  ASSUME TypeOK, NEW g \in GameIds
  PROVE  /\ \A s \in GameState : games' = [games EXCEPT ![g].state = s] =>
              GameChanges(g, {"state"}) /\ games'[g].state = s
         /\ \A p \in SUBSET Players : games' = [games EXCEPT ![g].slots = p] =>
              GameChanges(g, {"slots"}) /\ games'[g].slots = p
         /\ \A c \in 0..MaxConfigurations : games' = [games EXCEPT ![g].connectString = c] =>
              GameChanges(g, {"connectString"}) /\ games'[g].connectString = c
         /\ \A h \in GameIds \cup {NoGame} : games' = [games EXCEPT ![g].logSecret = h] =>
              GameChanges(g, {"logSecret"}) /\ games'[g].logSecret = h
         /\ games' = [games EXCEPT ![g].gameServer = TRUE] =>
              GameChanges(g, {"gameServer"}) /\ games'[g].gameServer = TRUE
<1>0. games[g] \in Game
  BY Typed
<1>1. ASSUME NEW s \in GameState, games' = [games EXCEPT ![g].state = s]
      PROVE  GameChanges(g, {"state"}) /\ games'[g].state = s
  <2> DEFINE x == [games[g] EXCEPT !.state = s]
  <2>1. x \in Game /\ x.state = s /\ Keeps(x, games[g], "state")
    BY <1>0, GameFields
  <2>2. games' = [games EXCEPT ![g] = x]
    BY <1>1
  <2> HIDE DEF x
  <2> QED BY <2>1, <2>2, GameSet DEF Keeps
<1>2. ASSUME NEW p \in SUBSET Players, games' = [games EXCEPT ![g].slots = p]
      PROVE  GameChanges(g, {"slots"}) /\ games'[g].slots = p
  <2> DEFINE x == [games[g] EXCEPT !.slots = p]
  <2>1. x \in Game /\ x.slots = p /\ Keeps(x, games[g], "slots")
    BY <1>0, GameFields
  <2>2. games' = [games EXCEPT ![g] = x]
    BY <1>2
  <2> HIDE DEF x
  <2> QED BY <2>1, <2>2, GameSet DEF Keeps
<1>3. ASSUME NEW c \in 0..MaxConfigurations, games' = [games EXCEPT ![g].connectString = c]
      PROVE  GameChanges(g, {"connectString"}) /\ games'[g].connectString = c
  <2> DEFINE x == [games[g] EXCEPT !.connectString = c]
  <2>1. x \in Game /\ x.connectString = c /\ Keeps(x, games[g], "connectString")
    BY <1>0, GameFields
  <2>2. games' = [games EXCEPT ![g] = x]
    BY <1>3
  <2> HIDE DEF x
  <2> QED BY <2>1, <2>2, GameSet DEF Keeps
<1>4. ASSUME NEW h \in GameIds \cup {NoGame}, games' = [games EXCEPT ![g].logSecret = h]
      PROVE  GameChanges(g, {"logSecret"}) /\ games'[g].logSecret = h
  <2> DEFINE x == [games[g] EXCEPT !.logSecret = h]
  <2>1. x \in Game /\ x.logSecret = h /\ Keeps(x, games[g], "logSecret")
    BY <1>0, GameFields
  <2>2. games' = [games EXCEPT ![g] = x]
    BY <1>4
  <2> HIDE DEF x
  <2> QED BY <2>1, <2>2, GameSet DEF Keeps
<1>5. ASSUME NEW b \in BOOLEAN, games' = [games EXCEPT ![g].gameServer = b]
      PROVE  GameChanges(g, {"gameServer"}) /\ games'[g].gameServer = b
  <2> DEFINE x == [games[g] EXCEPT !.gameServer = b]
  <2>1. x \in Game /\ x.gameServer = b /\ Keeps(x, games[g], "gameServer")
    BY <1>0, GameFields
  <2>2. games' = [games EXCEPT ![g] = x]
    BY <1>5
  <2> HIDE DEF x
  <2> QED BY <2>1, <2>2, GameSet DEF Keeps
<1> QED BY <1>1, <1>2, <1>3, <1>4, <1>5

LEMMA ServerFieldSet ==
  ASSUME TypeOK
  PROVE  /\ \A g \in GameIds : server' = [server EXCEPT !.game = g] =>
              ServerChanges({"game"}) /\ server'.game = g
         /\ \A g \in GameIds : server' = [server EXCEPT !.logSecret = g] =>
              ServerChanges({"logSecret"}) /\ server'.logSecret = g
         /\ server' = [server EXCEPT !.logAddress = TRUE] =>
              ServerChanges({"logAddress"}) /\ server'.logAddress
         /\ \A c \in 0..MaxConfigurations : server' = [server EXCEPT !.password = c] =>
              ServerChanges({"password"}) /\ server'.password = c
         /\ \A p \in SUBSET Players : server' = [server EXCEPT !.players = p] =>
              ServerChanges({"players"}) /\ server'.players = p
<1> USE Typed DEF Server, ServerChanges, ServerFieldNames
<1>1. ASSUME NEW g \in GameIds, server' = [server EXCEPT !.game = g]
      PROVE  ServerChanges({"game"}) /\ server'.game = g
  BY <1>1
<1>2. ASSUME NEW g \in GameIds, server' = [server EXCEPT !.logSecret = g]
      PROVE  ServerChanges({"logSecret"}) /\ server'.logSecret = g
  BY <1>2
<1>3. ASSUME NEW b \in BOOLEAN, server' = [server EXCEPT !.logAddress = b]
      PROVE  ServerChanges({"logAddress"}) /\ server'.logAddress = b
  BY <1>3
<1>4. ASSUME NEW c \in 0..MaxConfigurations, server' = [server EXCEPT !.password = c]
      PROVE  ServerChanges({"password"}) /\ server'.password = c
  BY <1>4
<1>5. ASSUME NEW p \in SUBSET Players, server' = [server EXCEPT !.players = p]
      PROVE  ServerChanges({"players"}) /\ server'.players = p
  BY <1>5
<1> QED BY <1>1, <1>2, <1>3, <1>4, <1>5

LEMMA AssignDoes ==
  ASSUME TypeOK, NEW g \in GameIds, AssignGameServer(g)
  PROVE  /\ ServerChanges({"game"}) /\ server'.game = g
         /\ GameChanges(g, {"gameServer"}) /\ games'[g].gameServer
         /\ ConfigChanges("launch", {"step"}) /\ configs'["launch"].step = "secret"
BY GameFieldSet, ServerFieldSet, GoChanges DEF AssignGameServer, By, ConfigStep

LEMMA GetLogsecretDoes ==
  ASSUME TypeOK, NEW g \in GameIds, GetLogsecret(g)
  PROVE  /\ ServerChanges({"logSecret"}) /\ server'.logSecret = g
         /\ ConfigChanges("launch", {"step"}) /\ configs'["launch"].step = "logSecret"
BY ServerFieldSet, GoChanges DEF GetLogsecret, By, ConfigStep

LEMMA StoreLogSecretDoes ==
  ASSUME TypeOK, NEW g \in GameIds, StoreLogSecret(g)
  PROVE  /\ GameChanges(g, {"logSecret"}) /\ games'[g].logSecret = server.logSecret
         /\ ConfigChanges("launch", {"step"}) /\ configs'["launch"].step = "read"
<1>1. server.logSecret \in GameIds \cup {NoGame}
  BY Typed DEF Server
<1>2. GameChanges(g, {"logSecret"}) /\ games'[g].logSecret = server.logSecret
  BY <1>1, GameFieldSet DEF StoreLogSecret
<1>3. ConfigChanges("launch", {"step"}) /\ configs'["launch"].step = "read"
  BY GoChanges DEF StoreLogSecret, By, ConfigStep
<1> QED BY <1>2, <1>3

LEMMA ReconfigureDoes ==
  ASSUME TypeOK, NEW g \in GameIds, Reconfigure(g)
  PROVE  CallStarts("admin", "clear", g)
BY StartChanges DEF Reconfigure, By, ConfigStep

\* A call that is not idle is one for a game.
LEMMA ClearDoes ==
  ASSUME TypeOK, ClearConnectString
  PROVE  /\ configs["admin"].game \in GameIds
         /\ GameChanges(configs["admin"].game, {"connectString"})
         /\ games'[configs["admin"].game].connectString = NoPassword
         /\ ConfigChanges("admin", {"step"}) /\ configs'["admin"].step = "read"
<1>1. configs["admin"].game \in GameIds
  BY Typed DEF ClearConnectString, TypeOK, By, Config
<1> QED BY <1>1, Constants, GameFieldSet, GoChanges DEF ClearConnectString, By, ConfigStep

LEMMA ReadGameDoes ==
  ASSUME TypeOK, NEW by \in By, ReadGame(by)
  PROVE  /\ configs[by].game \in GameIds
         /\ ConfigChanges(by, {"step", "slots"}) /\ configs'[by].step = "log"
         /\ configs'[by].slots = games[configs[by].game].slots
<1>1. configs[by].game \in GameIds
  BY Typed DEF ReadGame, TypeOK, By, Config
<1> DEFINE p == games[configs[by].game].slots
           x == [configs[by] EXCEPT !.step = "log"]
           y == [x EXCEPT !.slots = p]
<1>2. configs[by] \in Config /\ p \in SUBSET Players
  BY <1>1, Typed DEF Game
<1> HIDE DEF p
<1>3. /\ x \in Config /\ x.step = "log" /\ x.game = configs[by].game
      /\ x.password = configs[by].password
  BY <1>2, ConfigFields DEF Config
<1>4. configs' = [configs EXCEPT ![by] = y]
  BY <1>2, Typed DEF ReadGame, p
<1> HIDE DEF x
<1>5. /\ y \in Config /\ y.step = "log" /\ y.game = configs[by].game /\ y.slots = p
      /\ y.password = configs[by].password
  BY <1>2, <1>3, ConfigFields DEF Config
<1> HIDE DEF y
<1>6. \A f \in ConfigFieldNames \ {"step", "slots"} : y[f] = configs[by][f]
  BY <1>5 DEF ConfigFieldNames
<1>7. ConfigChanges(by, {"step", "slots"}) /\ configs'[by] = y
  BY <1>4, <1>5, <1>6, ConfigSet
<1> QED BY <1>1, <1>5, <1>7 DEF p

LEMMA AddLogAddressDoes ==
  ASSUME TypeOK, NEW by \in By, AddLogAddress(by)
  PROVE  /\ ServerChanges({"logAddress"}) /\ server'.logAddress
         /\ ConfigChanges(by, {"step"}) /\ configs'[by].step = "map"
BY ServerFieldSet, GoChanges DEF AddLogAddress, ConfigStep

LEMMA SetPasswordDoes ==
  ASSUME TypeOK, NEW by \in By, SetPassword(by)
  PROVE  /\ passwords' \in 0..MaxConfigurations
         /\ ServerChanges({"password"}) /\ server'.password = passwords'
         /\ ConfigChanges(by, {"step", "password"}) /\ configs'[by].step = "players"
         /\ configs'[by].password = passwords'
<1>1. passwords' \in 0..MaxConfigurations
  BY Constants DEF SetPassword, TypeOK
<1> DEFINE x == [configs[by] EXCEPT !.step = "players"]
<1>2. configs[by] \in Config
  BY Typed
<1>3. /\ x \in Config /\ x.step = "players" /\ x.game = configs[by].game
      /\ x.slots = configs[by].slots
  BY <1>2, ConfigFields DEF Config
<1>4. ASSUME NEW n \in 0..MaxConfigurations, n = passwords'
      PROVE  /\ ConfigChanges(by, {"step", "password"}) /\ configs'[by].step = "players"
             /\ configs'[by].password = n
  <2> DEFINE y == [x EXCEPT !.password = n]
  <2>1. configs' = [configs EXCEPT ![by] = y]
    BY <1>2, <1>4, Typed DEF SetPassword
  <2> HIDE DEF x
  <2>2. /\ y \in Config /\ y.step = "players" /\ y.game = configs[by].game
        /\ y.slots = configs[by].slots /\ y.password = n
    BY <1>3, ConfigFields DEF Config
  <2> HIDE DEF y
  <2>3. \A f \in ConfigFieldNames \ {"step", "password"} : y[f] = configs[by][f]
    BY <2>2 DEF ConfigFieldNames
  <2>4. y \in Config
    BY <2>2
  <2>5. ConfigChanges(by, {"step", "password"}) /\ configs'[by] = y
    BY <2>1, <2>3, <2>4, ConfigSet
  <2> QED BY <2>2, <2>5
<1>5. ServerChanges({"password"}) /\ server'.password = passwords'
  BY <1>1, ServerFieldSet DEF SetPassword
<1> QED BY <1>1, <1>4, <1>5

LEMMA AddPlayerDoes ==
  ASSUME TypeOK, NEW by \in By, NEW p \in Players, AddPlayer(by, p)
  PROVE  /\ ServerChanges({"players"}) /\ server'.players = server.players \cup {p}
         /\ ConfigChanges(by, {"slots"}) /\ configs'[by].slots = configs[by].slots \ {p}
<1>1. /\ configs[by] \in Config /\ configs[by].slots \in SUBSET Players
      /\ server.players \in SUBSET Players
  BY Typed DEF Config, Server
<1> DEFINE q == configs[by].slots \ {p}
           y == [configs[by] EXCEPT !.slots = q]
<1>2. configs' = [configs EXCEPT ![by] = y] /\ q \in SUBSET Players
  BY <1>1 DEF AddPlayer
<1> HIDE DEF q
<1>3. /\ y \in Config /\ y.step = configs[by].step /\ y.game = configs[by].game
      /\ y.slots = q /\ y.password = configs[by].password
  BY <1>1, <1>2, ConfigFields DEF Config
<1> HIDE DEF y
<1>4. \A f \in ConfigFieldNames \ {"slots"} : y[f] = configs[by][f]
  BY <1>3 DEF ConfigFieldNames
<1>5. ConfigChanges(by, {"slots"}) /\ configs'[by] = y
  BY <1>2, <1>3, <1>4, ConfigSet
<1>6. ServerChanges({"players"}) /\ server'.players = server.players \cup {p}
  BY <1>1, ServerFieldSet DEF AddPlayer
<1> QED BY <1>3, <1>5, <1>6 DEF q
LEMMA StoreConnectStringDoes ==
  ASSUME TypeOK, NEW by \in By, StoreConnectString(by)
  PROVE  /\ configs[by].game \in GameIds
         /\ GameChanges(configs[by].game, {"connectString"})
         /\ games'[configs[by].game].connectString = configs[by].password
         /\ ConfigChanges(by, ConfigFieldNames) /\ configs'[by] = NoConfig
<1>1. configs[by].game \in GameIds /\ configs[by].password \in 0..MaxConfigurations
  BY Typed DEF StoreConnectString, TypeOK, By, Config
<1>2. ConfigChanges(by, ConfigFieldNames) /\ configs'[by] = NoConfig
  BY EndChanges DEF StoreConnectString, NoConfigs
<1> QED BY <1>1, <1>2, GameFieldSet DEF StoreConnectString

LEMMA ConfigurationFailsDoes ==
  ASSUME TypeOK, NEW by \in By, ConfigurationFails(by)
  PROVE  ConfigChanges(by, ConfigFieldNames) /\ configs'[by] = NoConfig
BY EndChanges DEF ConfigurationFails, NoConfigs

NewReplacing(g, out, in) == [game |-> g, in |-> in, out |-> out, step |-> "add"]

LEMMA ReplacePlayerDoes ==
  ASSUME TypeOK, NEW g \in GameIds, NEW out \in Players, NEW in \in Players,
         ReplacePlayer(g, out, in)
  PROVE  /\ GameChanges(g, {"slots"})
         /\ games'[g].slots = (games[g].slots \ {out}) \cup {in}
         /\ NewReplacing(g, out, in) \in Replacing
<1>1. games[g].slots \in SUBSET Players
  BY Typed DEF Game
<1>2. games' = [games EXCEPT ![g].slots = (games[g].slots \ {out}) \cup {in}]
  BY DEF ReplacePlayer
<1>3. (games[g].slots \ {out}) \cup {in} \in SUBSET Players
  BY <1>1
<1>4. GameChanges(g, {"slots"}) /\ games'[g].slots = (games[g].slots \ {out}) \cup {in}
  BY <1>2, <1>3, GameFieldSet
<1>5. NewReplacing(g, out, in) \in Replacing
  BY DEF NewReplacing, Replacing
<1> QED BY <1>4, <1>5

LEMMA AddReplacementDoes ==
  ASSUME TypeOK, NEW r \in replacings, AddReplacement(r)
  PROVE  /\ ServerChanges({"players"}) /\ server'.players = server.players \cup {r.in}
         /\ r \in Replacing
         /\ \E q \in Replacing : /\ replacings' = (replacings \ {r}) \cup {q}
                                 /\ q.game = r.game /\ q.in = r.in /\ q.out = r.out
                                 /\ q.step = "del"
<1>1. r \in Replacing /\ r.in \in Players /\ server.players \in SUBSET Players
  BY Typed DEF TypeOK, Replacing, Server
<1> DEFINE q == [r EXCEPT !.step = "del"]
<1>2. q \in Replacing /\ q.game = r.game /\ q.in = r.in /\ q.out = r.out /\ q.step = "del"
  BY <1>1 DEF Replacing
<1>3. replacings' = (replacings \ {r}) \cup {q}
  BY DEF AddReplacement
<1> HIDE DEF q
<1>4. ServerChanges({"players"}) /\ server'.players = server.players \cup {r.in}
  BY <1>1, ServerFieldSet DEF AddReplacement
<1> QED BY <1>1, <1>2, <1>3, <1>4

LEMMA DelReplaceeDoes ==
  ASSUME TypeOK, NEW r \in replacings, DelReplacee(r)
  PROVE  ServerChanges({"players"}) /\ server'.players = server.players \ {r.out}
<1>1. server.players \in SUBSET Players
  BY Typed DEF Server
<1> QED BY <1>1, ServerFieldSet DEF DelReplacee

\* The event that a handler is told of changes the state of the game, or not, and leaves
\* a mark.
Handled(h) ==
  \/ UNCHANGED games
  \/ /\ GameChanges(h.game, {"state", "toldBy"})
     /\ games[h.game].state = "none" => games'[h.game].state = "none"
     /\ games'[h.game].state = "none" => games[h.game].state = "none"
     /\ games[h.game].state = "over" => games'[h.game].state = "over"
     /\ games'[h.game].state \in {"launching", "started"} => InProgress(h.game)
     /\ games'[h.game].toldBy = games[h.game].toldBy \cup {h.told}

LEMMA HandleLineDoes ==
  ASSUME TypeOK, NEW h \in handlings, HandleLine(h)
  PROVE  h \in Handling /\ Handled(h)
<1>1. h \in Handling /\ h.game \in GameIds /\ h.told \in GameIds
  BY DEF TypeOK, Handling
<1>2. games[h.game] \in Game /\ games[h.game].toldBy \in SUBSET GameIds
      /\ games[h.game].state \in GameState
  BY <1>1, Typed DEF Game, GameState
<1>3. ASSUME NEW s \in GameState, Told(h, s)
      PROVE  /\ GameChanges(h.game, {"state", "toldBy"}) /\ games'[h.game].state = s
             /\ games'[h.game].toldBy = games[h.game].toldBy \cup {h.told}
  <2> DEFINE t == games[h.game].toldBy \cup {h.told}
             x == [games[h.game] EXCEPT !.state = s]
             y == [x EXCEPT !.toldBy = t]
  <2>1. games' = [games EXCEPT ![h.game] = y]
    BY <1>1, <1>2, <1>3, Typed DEF Told
  <2>2. x \in Game /\ x.state = s /\ Keeps(x, games[h.game], "state") /\ t \in SUBSET GameIds
    BY <1>1, <1>2, GameFields
  <2> HIDE DEF x, t
  <2>3. y \in Game /\ y.toldBy = t /\ Keeps(y, x, "toldBy")
    BY <2>2, GameFields
  <2> HIDE DEF y
  <2>4. \A f \in GameFieldNames \ {"state", "toldBy"} : y[f] = games[h.game][f]
    BY <2>2, <2>3 DEF Keeps
  <2>5. y.state = s
    BY <2>2, <2>3 DEF Keeps, GameFieldNames
  <2>6. GameChanges(h.game, {"state", "toldBy"}) /\ games'[h.game] = y
    BY <1>1, <2>1, <2>3, <2>4, GameSet
  <2> QED BY <2>3, <2>5, <2>6 DEF t
<1>4. NoGame # h.game
  BY <1>1, Constants
<1> QED BY <1>1, <1>2, <1>3, <1>4 DEF HandleLine, StateBefore, GameState, Handled, InProgress

LEMMA ForceEndDoes ==
  ASSUME TypeOK, NEW g \in GameIds, ForceEnd(g)
  PROVE  GameChanges(g, {"state"}) /\ games'[g].state = "over"
BY GameFieldSet DEF ForceEnd, GameState

LEMMA CleanUpDoes ==
  ASSUME TypeOK, CleanUp
  PROVE  /\ ServerChanges({"game", "logAddress", "players"})
         /\ server'.game = NoGame /\ ~ server'.logAddress /\ server'.players = {}
BY Typed DEF CleanUp, Server, ServerChanges, ServerFieldNames
-----------------------------------------------------------------------------
(* Type correctness *)

\* The game of the server knows that it has one; a call is for a game unless it is idle.
Assigned == \A g \in GameIds : server.game = g => games[g].gameServer

CallsGame == \A by \in By : configs[by].step = "idle" <=> configs[by].game = NoGame

\* What counts, and what is on its way.
RestOK ==
  /\ passwords \in 0..MaxConfigurations
  /\ replacings \in SUBSET Replacing
  /\ failed \subseteq Players /\ raced \subseteq Players
  /\ replaced \in 0..MaxReplacements
  /\ lines \in SUBSET Line
  /\ handlings \in SUBSET Handling

LEMMA TypeParts ==
  TypeOK <=> /\ games \in [GameIds -> Game] /\ server \in Server /\ Assigned
             /\ configs \in [By -> Config] /\ CallsGame /\ RestOK
BY DEF TypeOK, Assigned, CallsGame, RestOK, By

LEMMA KeepsAssigned ==
  ASSUME TypeOK, NEW g \in GameIds, NEW fs, GameChanges(g, fs),
         "gameServer" \notin fs \/ games'[g].gameServer,
         server'.game = server.game
  PROVE  Assigned'
BY TypeParts DEF Assigned, GameChanges, GameFieldNames

LEMMA GoesOnCall ==
  ASSUME TypeOK, NEW by \in By, NEW fs, ConfigChanges(by, fs), "game" \notin fs,
         configs[by].step # "idle", configs'[by].step # "idle"
  PROVE  CallsGame'
BY TypeParts DEF CallsGame, ConfigChanges, ConfigFieldNames

LEMMA StartsCall ==
  ASSUME TypeOK, NEW by \in By, NEW s \in ConfigStep \ {"idle"}, NEW g \in GameIds,
         CallStarts(by, s, g)
  PROVE  configs' \in [By -> Config] /\ CallsGame'
BY TypeParts, Constants DEF CallsGame, CallStarts, ConfigChanges, ConfigFieldNames

LEMMA EndsCall ==
  ASSUME TypeOK, NEW by \in By, ConfigChanges(by, ConfigFieldNames), configs'[by] = NoConfig
  PROVE  configs' \in [By -> Config] /\ CallsGame'
BY TypeParts DEF CallsGame, ConfigChanges, NoConfig

LEMMA MatchNextType == TypeOK /\ [Next]_vars => TypeOK'
<1> SUFFICES ASSUME TypeOK, [Next]_vars PROVE TypeOK'
  OBVIOUS
<1> USE TypeParts
<1>0. /\ games \in [GameIds -> Game] /\ server \in Server /\ Assigned
      /\ configs \in [By -> Config] /\ CallsGame /\ RestOK
  OBVIOUS
<1> DEFINE Goal == /\ games' \in [GameIds -> Game] /\ server' \in Server /\ Assigned'
                   /\ configs' \in [By -> Config] /\ CallsGame' /\ RestOK'
<1> SUFFICES Goal
  BY DEF TypeOK, Assigned, CallsGame, RestOK, By
<1>1. ASSUME NEW g \in GameIds, CreateGame(g) PROVE Goal
  <2>1. RestOK' /\ server' = server
    BY <1>0, <1>1 DEF CreateGame, RestOK
  <2>2. games' \in [GameIds -> Game] /\ Assigned'
    BY <1>1, <2>1, CreateGameDoes, KeepsAssigned DEF GameChanges
  <2>3. configs' \in [By -> Config] /\ CallsGame'
    BY <1>1, CreateGameDoes, StartsCall DEF By, ConfigStep
  <2> QED BY <1>0, <2>1, <2>2, <2>3
<1>2. ASSUME NEW g \in GameIds, AssignGameServer(g) PROVE Goal
  <2>1. RestOK'
    BY <1>0, <1>2 DEF AssignGameServer, RestOK
  <2>2. games' \in [GameIds -> Game] /\ server' \in Server /\ Assigned'
    BY <1>0, <1>2, AssignDoes DEF GameChanges, ServerChanges, Assigned
  <2>3. configs' \in [By -> Config] /\ CallsGame'
    BY <1>2, AssignDoes, GoesOnCall DEF AssignGameServer, By, ConfigChanges
  <2> QED BY <2>1, <2>2, <2>3
<1>3. ASSUME NEW g \in GameIds, GetLogsecret(g) PROVE Goal
  <2>1. RestOK' /\ games' = games
    BY <1>0, <1>3 DEF GetLogsecret, RestOK
  <2>2. server' \in Server /\ Assigned'
    BY <1>0, <1>3, <2>1, GetLogsecretDoes DEF ServerChanges, Assigned, ServerFieldNames
  <2>3. configs' \in [By -> Config] /\ CallsGame'
    BY <1>3, GetLogsecretDoes, GoesOnCall DEF GetLogsecret, By, ConfigChanges
  <2> QED BY <1>0, <2>1, <2>2, <2>3
<1>4. ASSUME NEW g \in GameIds, StoreLogSecret(g) PROVE Goal
  <2>1. RestOK' /\ server' = server
    BY <1>0, <1>4 DEF StoreLogSecret, RestOK
  <2>2. games' \in [GameIds -> Game] /\ Assigned'
    BY <1>4, <2>1, StoreLogSecretDoes, KeepsAssigned DEF GameChanges
  <2>3. configs' \in [By -> Config] /\ CallsGame'
    BY <1>4, StoreLogSecretDoes, GoesOnCall DEF StoreLogSecret, By, ConfigChanges
  <2> QED BY <1>0, <2>1, <2>2, <2>3
<1>5. ASSUME NEW g \in GameIds, Reconfigure(g) PROVE Goal
  <2>1. RestOK' /\ server' = server /\ games' = games
    BY <1>0, <1>5 DEF Reconfigure, RestOK
  <2>2. configs' \in [By -> Config] /\ CallsGame'
    BY <1>5, ReconfigureDoes, StartsCall DEF By, ConfigStep
  <2> QED BY <1>0, <2>1, <2>2 DEF Assigned
<1>6. CASE ClearConnectString
  <2>1. RestOK' /\ server' = server
    BY <1>0, <1>6 DEF ClearConnectString, RestOK
  <2>2. games' \in [GameIds -> Game] /\ Assigned'
    BY <1>6, <2>1, ClearDoes, KeepsAssigned DEF GameChanges
  <2>3. configs' \in [By -> Config] /\ CallsGame'
    BY <1>6, ClearDoes, GoesOnCall DEF ClearConnectString, By, ConfigChanges
  <2> QED BY <1>0, <2>1, <2>2, <2>3
<1>7. ASSUME NEW by \in By, ReadGame(by) \/ ChangeMap(by) \/ AnswerConfigured(by) PROVE Goal
  <2>1. RestOK' /\ server' = server /\ games' = games
    BY <1>0, <1>7 DEF ReadGame, ChangeMap, AnswerConfigured, RestOK
  <2>2. PICK fs : /\ ConfigChanges(by, fs) /\ "game" \notin fs
                  /\ configs[by].step # "idle" /\ configs'[by].step # "idle"
    BY <1>7, ReadGameDoes, GoChanges DEF ReadGame, ChangeMap, AnswerConfigured, ConfigStep
  <2>3. configs' \in [By -> Config] /\ CallsGame'
    BY <2>2, GoesOnCall DEF ConfigChanges
  <2> QED BY <1>0, <2>1, <2>3 DEF Assigned
<1>8. ASSUME NEW by \in By, AddLogAddress(by) PROVE Goal
  <2>1. RestOK' /\ games' = games
    BY <1>0, <1>8 DEF AddLogAddress, RestOK
  <2>2. server' \in Server /\ Assigned'
    BY <1>0, <1>8, <2>1, AddLogAddressDoes DEF ServerChanges, Assigned, ServerFieldNames
  <2>3. configs' \in [By -> Config] /\ CallsGame'
    BY <1>8, AddLogAddressDoes, GoesOnCall DEF AddLogAddress, ConfigChanges
  <2> QED BY <1>0, <2>1, <2>2, <2>3
<1>9. ASSUME NEW by \in By, SetPassword(by) PROVE Goal
  <2>1. RestOK' /\ games' = games
    BY <1>0, <1>9, SetPasswordDoes DEF SetPassword, RestOK
  <2>2. server' \in Server /\ Assigned'
    BY <1>0, <1>9, <2>1, SetPasswordDoes DEF ServerChanges, Assigned, ServerFieldNames
  <2>3. configs' \in [By -> Config] /\ CallsGame'
    <3>1. /\ ConfigChanges(by, {"step", "password"}) /\ configs[by].step # "idle"
          /\ configs'[by].step # "idle"
      BY <1>9, SetPasswordDoes DEF SetPassword
    <3> QED BY <3>1, GoesOnCall DEF ConfigChanges
  <2> QED BY <1>0, <2>1, <2>2, <2>3
<1>10. ASSUME NEW by \in By, NEW p \in Players, AddPlayer(by, p) PROVE Goal
  <2>1. RestOK' /\ games' = games
    BY <1>0, <1>10 DEF AddPlayer, RestOK
  <2>2. server' \in Server /\ Assigned'
    BY <1>0, <1>10, <2>1, AddPlayerDoes DEF ServerChanges, Assigned, ServerFieldNames
  <2>3. configs'[by].step = configs[by].step
    BY <1>10, AddPlayerDoes DEF ConfigChanges, ConfigFieldNames
  <2>4. configs' \in [By -> Config] /\ CallsGame'
    <3>1. ConfigChanges(by, {"slots"}) /\ configs[by].step # "idle"
      BY <1>10, AddPlayerDoes DEF AddPlayer
    <3> QED BY <2>3, <3>1, GoesOnCall DEF ConfigChanges
  <2> QED BY <1>0, <2>1, <2>2, <2>4
<1>11. ASSUME NEW by \in By, StoreConnectString(by) PROVE Goal
  <2>1. RestOK' /\ server' = server
    BY <1>0, <1>11 DEF StoreConnectString, RestOK
  <2>2. games' \in [GameIds -> Game] /\ Assigned'
    <3>1. /\ configs[by].game \in GameIds
          /\ GameChanges(configs[by].game, {"connectString"})
      BY <1>11, StoreConnectStringDoes
    <3> QED BY <2>1, <3>1, KeepsAssigned DEF GameChanges
  <2>3. configs' \in [By -> Config] /\ CallsGame'
    BY <1>11, StoreConnectStringDoes, EndsCall
  <2> QED BY <1>0, <2>1, <2>2, <2>3
<1>12. ASSUME NEW by \in By, ConfigurationFails(by) PROVE Goal
  <2>1. RestOK' /\ server' = server /\ games' = games
    BY <1>0, <1>12 DEF ConfigurationFails, RestOK
  <2>2. configs' \in [By -> Config] /\ CallsGame'
    BY <1>12, ConfigurationFailsDoes, EndsCall
  <2> QED BY <1>0, <2>1, <2>2 DEF Assigned
<1>13. ASSUME NEW g \in GameIds, NEW out \in Players, NEW in \in Players,
              ReplacePlayer(g, out, in)
       PROVE  Goal
  <2>1. server' = server /\ configs' = configs
    BY <1>13 DEF ReplacePlayer
  <2>2. games' \in [GameIds -> Game] /\ Assigned'
    BY <1>13, <2>1, ReplacePlayerDoes, KeepsAssigned DEF GameChanges
  <2>3. /\ replaced' \in 0..MaxReplacements /\ raced' \subseteq Players
        /\ passwords' = passwords /\ failed' = failed /\ lines' = lines
        /\ handlings' = handlings
    BY <1>0, <1>13, Constants DEF ReplacePlayer, RestOK
  <2>4. replacings' \in SUBSET Replacing
    <3>1. replacings' \subseteq replacings \cup {NewReplacing(g, out, in)}
      BY <1>13 DEF ReplacePlayer, NewReplacing
    <3>2. NewReplacing(g, out, in) \in Replacing
      BY <1>13, ReplacePlayerDoes
    <3> QED BY <1>0, <3>1, <3>2 DEF RestOK
  <2> QED BY <1>0, <2>1, <2>2, <2>3, <2>4 DEF RestOK, CallsGame
<1>14. ASSUME NEW r \in replacings, AddReplacement(r) \/ DelReplacee(r) \/ ReplacingFails(r)
       PROVE  Goal
  <2>1. /\ UNCHANGED <<games, configs, passwords, replaced, raced, lines, handlings>>
        /\ r \in Replacing /\ r.in \in Players /\ r.out \in Players
    BY <1>0, <1>14 DEF AddReplacement, DelReplacee, ReplacingFails, RestOK, Replacing
  <2>2. server' \in Server /\ server'.game = server.game
    BY <1>0, <1>14, AddReplacementDoes, DelReplaceeDoes
       DEF ReplacingFails, ServerChanges, ServerFieldNames
  <2>3. replacings' \in SUBSET Replacing
    BY <1>0, <1>14, AddReplacementDoes DEF DelReplacee, ReplacingFails, RestOK
  <2>4. failed' \subseteq Players
    BY <1>0, <1>14, <2>1 DEF AddReplacement, DelReplacee, ReplacingFails, RestOK
  <2> QED BY <1>0, <2>1, <2>2, <2>3, <2>4 DEF RestOK, CallsGame, Assigned
<1>15. ASSUME NEW event \in GameEvent, SendLine(event) PROVE Goal
  <2>1. [event |-> event, secret |-> server.logSecret, told |-> server.game] \in Line
    BY <1>0, <1>15 DEF SendLine, Server, Line
  <2> QED BY <1>0, <1>15, <2>1 DEF SendLine, RestOK, CallsGame, Assigned
<1>16. ASSUME NEW line \in lines, LoseLine(line) PROVE Goal
  BY <1>0, <1>16 DEF LoseLine, RestOK, CallsGame, Assigned
<1>17. ASSUME NEW line \in lines, NEW again \in BOOLEAN, ReceiveLine(line, again) PROVE Goal
  <2>1. line.event \in GameEvent /\ line.told \in GameIds
    BY <1>0 DEF RestOK, Line
  <2>2. \A g \in GameIds : [event |-> line.event, game |-> g, told |-> line.told] \in Handling
    BY <2>1 DEF Handling
  <2>3. handlings' \subseteq Handling /\ lines' \subseteq lines
    BY <1>0, <1>17, <2>2 DEF ReceiveLine, RestOK
  <2> QED BY <1>0, <1>17, <2>3 DEF ReceiveLine, RestOK, CallsGame, Assigned
<1>18. ASSUME NEW h \in handlings, HandleLine(h) PROVE Goal
  <2>1. RestOK' /\ server' = server /\ configs' = configs
    BY <1>0, <1>18 DEF HandleLine, RestOK
  <2>2. h.game \in GameIds /\ Handled(h)
    BY <1>18, HandleLineDoes DEF Handling
  <2>3. games' \in [GameIds -> Game] /\ Assigned'
    <3>1. CASE UNCHANGED games
      BY <1>0, <2>1, <3>1 DEF Assigned
    <3>2. CASE ~ UNCHANGED games
      BY <2>1, <2>2, <3>2, KeepsAssigned DEF Handled, GameChanges
    <3> QED BY <3>1, <3>2
  <2> QED BY <1>0, <2>1, <2>3 DEF CallsGame
<1>19. ASSUME NEW g \in GameIds, ForceEnd(g) PROVE Goal
  <2>1. RestOK' /\ server' = server /\ configs' = configs
    BY <1>0, <1>19 DEF ForceEnd, RestOK
  <2>2. games' \in [GameIds -> Game] /\ Assigned'
    BY <1>19, <2>1, ForceEndDoes, KeepsAssigned DEF GameChanges
  <2> QED BY <1>0, <2>1, <2>2 DEF CallsGame
<1>20. CASE CleanUp
  <2>1. RestOK' /\ games' = games /\ configs' = configs
    BY <1>0, <1>20 DEF CleanUp, RestOK
  <2>2. server' \in Server /\ Assigned'
    BY <1>20, CleanUpDoes, Constants DEF ServerChanges, Assigned
  <2> QED BY <1>0, <2>1, <2>2 DEF CallsGame
<1>21. CASE UNCHANGED vars
  BY <1>0, <1>21 DEF vars, RestOK, CallsGame, Assigned
<1> QED
  BY <1>1, <1>2, <1>3, <1>4, <1>5, <1>6, <1>7, <1>8, <1>9, <1>10, <1>11, <1>12, <1>13, <1>14,
     <1>15, <1>16, <1>17, <1>18, <1>19, <1>20, <1>21 DEF Next, By
-----------------------------------------------------------------------------
(* What holds between the steps when a server is configured once at a time *)

Steps == {"read", "log", "map", "password", "players", "store"}

\* A game in progress that was given a server has it, and the secret and the password
\* that it knows are the server's.
GameInv(g) ==
  /\ games[g].state = "none" => games[g] = NotCreated
  /\ games[g].gameServer /\ InProgress(g) => server.game = g
  /\ games[g].logSecret \in {NoGame, g}
  /\ games[g].logSecret # NoGame /\ server.game = g => server.logSecret = g
  /\ games[g].toldBy \subseteq {g}
  /\ games[g].connectString # NoPassword /\ server.game = g =>
       games[g].connectString = server.password

\* A call is for the game of the server, unless it is about to assign it, and has read
\* the players that the game had.
ConfigInv(by) ==
  LET c == configs[by] IN
  /\ c.step # "idle" => games[c.game].state # "none"
  /\ c.step = "assign" => /\ server.game = NoGame
                          /\ games[c.game].logSecret = NoGame
  /\ c.step \notin {"idle", "assign"} => server.game = c.game
  /\ c.step \in Steps \cup {"logSecret", "clear"} => server.logSecret = c.game
  /\ c.step \notin {"idle", "clear"} => games[c.game].connectString = NoPassword
  /\ c.step \in {"players", "store"} => c.password = server.password
  /\ c.step \notin {"log", "map", "password", "players"} => c.slots = {}
  /\ c.step # "idle" => c.slots \subseteq games[c.game].slots \cup raced

\* One call at a time, of launch() or of an admin.
OneCall ==
  /\ \E by \in By : configs[by].step = "idle"
  /\ configs["launch"].step # "clear"
  /\ configs["admin"].step \notin {"assign", "secret", "logSecret"}

\* A server without a game is clean.
ServerInv ==
  /\ server.game = NoGame => /\ server.players = {} /\ failed = {} /\ raced = {}
                             /\ replacings = {}
  /\ server.logAddress => server.game # NoGame /\ server.logSecret = server.game

ReplacingInv(r) ==
  /\ r.game = server.game
  /\ r.in \in games[r.game].slots /\ r.out \notin games[r.game].slots
  /\ replacings = {r}

\* Those whom the server was not told of.
Untold == failed \cup raced

\* Those who replace somebody and are not added yet.
Coming == {r.in : r \in {q \in replacings : q.step = "add"}}

LetInInv ==
  \A g \in GameIds : server.game = g =>
    /\ server.players \subseteq games[g].slots \cup Untold \cup {r.out : r \in replacings}
    /\ games[g].connectString # NoPassword =>
         games[g].slots \subseteq server.players \cup Untold \cup Coming
    /\ \A by \in By :
         configs[by].step \in Steps \ {"read"} =>
           games[g].slots \subseteq server.players \cup Untold \cup configs[by].slots \cup Coming

\* A line carries the secret of the game it tells of.
LinesInv ==
  /\ \A line \in lines : line.secret = line.told
  /\ \A h \in handlings : h.game = h.told /\ games[h.game].state # "none"

MatchInv ==
  /\ \A g \in GameIds : GameInv(g)
  /\ \A by \in By : ConfigInv(by)
  /\ OneCall
  /\ ServerInv
  /\ \A r \in replacings : ReplacingInv(r)
  /\ LetInInv
  /\ LinesInv

LEMMA MatchInitInv == Init => MatchInv
<1> SUFFICES ASSUME Init PROVE MatchInv
  OBVIOUS
<1>1. /\ \A g \in GameIds : games[g] = NotCreated
      /\ \A by \in By : configs[by] = NoConfig
      /\ server = NewServer /\ replacings = {} /\ failed = {} /\ raced = {}
      /\ lines = {} /\ handlings = {}
  BY DEF Init, By
<1>2. /\ NotCreated.state = "none" /\ ~ NotCreated.gameServer /\ NotCreated.logSecret = NoGame
      /\ NotCreated.toldBy = {} /\ NotCreated.connectString = NoPassword
      /\ NotCreated.slots = {}
  BY DEF NotCreated
<1>3. NoConfig.step = "idle" /\ NoConfig.slots = {}
  BY DEF NoConfig
<1>4. NewServer.game = NoGame /\ NewServer.players = {} /\ ~ NewServer.logAddress
  BY DEF NewServer
<1>5. \A g \in GameIds : GameInv(g)
  BY <1>1, <1>2, <1>4, Constants DEF GameInv
<1>6. \A by \in By : ConfigInv(by)
  BY <1>1, <1>3 DEF ConfigInv, Steps
<1>7. OneCall /\ ServerInv /\ LetInInv /\ LinesInv
  BY <1>1, <1>2, <1>3, <1>4, Constants DEF OneCall, ServerInv, LetInInv, LinesInv, By, Steps
<1> QED BY <1>1, <1>5, <1>6, <1>7 DEF MatchInv

LEMMA CreateGameInv ==
  ASSUME TypeOK, MatchInv, Overlap = FALSE, NEW g \in GameIds, CreateGame(g)
  PROVE  MatchInv'
<1>1. /\ games[g] = NotCreated /\ games'[g].state = "launching"
      /\ games'[g].connectString = NoPassword /\ games'[g].logSecret = NoGame
      /\ ~ games'[g].gameServer /\ games'[g].toldBy = {}
      /\ \A q \in GameIds : q # g => games'[q] = games[q]
      /\ \A q \in GameIds : games[q].state # "none" => q # g
  <2>1. games[g] = NotCreated
    BY DEF CreateGame, MatchInv, GameInv
  <2> QED BY <2>1, CreateGameDoes DEF GameChanges, GameFieldNames, NotCreated
<1>2. /\ configs[ "launch"].step = "idle"
      /\ configs'["launch"].step = "assign" /\ configs'["launch"].game = g
      /\ configs'["launch"].slots = {} /\ configs'["admin"] = configs["admin"]
  BY CreateGameDoes DEF CallStarts, ConfigChanges, ConfigFieldNames, By
<1>3. /\ server' = server /\ server.game = NoGame
      /\ UNCHANGED <<replacings, failed, raced, lines, handlings>>
  BY DEF CreateGame
<1>4. configs["admin"].step = "idle"
  <2>1. configs["admin"].game # NoGame => configs["admin"].game \in GameIds
    BY Typed DEF By, Config
  <2> QED BY <1>3, <2>1, TypeParts, Constants DEF MatchInv, ConfigInv, OneCall, CallsGame, By
<1>5. \A q \in GameIds : GameInv(q)'
  BY <1>1, <1>3, Constants DEF MatchInv, GameInv, InProgress
<1>6. \A by \in By : ConfigInv(by)'
  <2>1. ConfigInv("admin")'
    BY <1>2, <1>3, <1>4 DEF MatchInv, ConfigInv, By, Steps
  <2>2. ConfigInv("launch")'
    BY <1>1, <1>2, <1>3 DEF ConfigInv, Steps
  <2> QED BY <2>1, <2>2 DEF By
<1>7. OneCall' /\ ServerInv' /\ LetInInv' /\ LinesInv'
  BY <1>1, <1>2, <1>3, <1>4, Constants, TypeParts
     DEF MatchInv, OneCall, ServerInv, LetInInv, LinesInv, By, RestOK, Handling
<1>8. \A r \in replacings' : ReplacingInv(r)'
  BY <1>3 DEF MatchInv, ServerInv
<1> QED BY <1>5, <1>6, <1>7, <1>8 DEF MatchInv

LEMMA AssignInv ==
  ASSUME TypeOK, MatchInv, Overlap = FALSE, NEW g \in GameIds, AssignGameServer(g)
  PROVE  MatchInv'
<1>1. /\ games'[g].state = games[g].state /\ games'[g].slots = games[g].slots
      /\ games'[g].connectString = games[g].connectString
      /\ games'[g].logSecret = games[g].logSecret
      /\ games'[g].toldBy = games[g].toldBy
      /\ \A q \in GameIds : q # g => games'[q] = games[q]
  BY AssignDoes DEF GameChanges, GameFieldNames
<1>2. /\ configs["launch"].step = "assign" /\ configs["launch"].game = g
      /\ configs'["launch"].step = "secret" /\ configs'["launch"].game = g
      /\ configs'["launch"].slots = configs["launch"].slots
      /\ configs'["admin"] = configs["admin"]
  BY AssignDoes DEF AssignGameServer, ConfigChanges, ConfigFieldNames, By
<1>3. /\ server'.game = g /\ server'.password = server.password
      /\ server'.players = server.players /\ server'.logAddress = server.logAddress
      /\ server'.logSecret = server.logSecret
      /\ UNCHANGED <<replacings, failed, raced, lines, handlings>>
  BY AssignDoes DEF AssignGameServer, ServerChanges, ServerFieldNames
<1>4. /\ server.game = NoGame /\ games[g].logSecret = NoGame /\ games[g].state # "none"
      /\ games[g].connectString = NoPassword /\ configs["launch"].slots = {}
      /\ configs["admin"].step = "idle"
  BY <1>2 DEF MatchInv, ConfigInv, OneCall, By
<1>5. \A q \in GameIds : GameInv(q)'
  BY <1>1, <1>3, <1>4, Constants DEF MatchInv, GameInv, InProgress
<1>6. \A by \in By : ConfigInv(by)'
  <2>1. ConfigInv("admin")'
    BY <1>2, <1>3, <1>4 DEF MatchInv, ConfigInv, By, Steps
  <2>2. ConfigInv("launch")'
    BY <1>1, <1>2, <1>3, <1>4 DEF ConfigInv, Steps
  <2> QED BY <2>1, <2>2 DEF By
<1>7. OneCall' /\ ServerInv'
  BY <1>2, <1>3, <1>4, Constants DEF MatchInv, OneCall, ServerInv, By
<1>8. LetInInv' /\ LinesInv'
  BY <1>1, <1>2, <1>3, <1>4, Constants, TypeParts
     DEF MatchInv, ServerInv, LetInInv, LinesInv, By, Steps, RestOK, Handling
<1>9. \A r \in replacings' : ReplacingInv(r)'
  BY <1>3, <1>4 DEF MatchInv, ServerInv
<1> QED BY <1>5, <1>6, <1>7, <1>8, <1>9 DEF MatchInv
\* The game of a call that is beyond assign is the server's, and no other call is busy.
LEMMA BusyCall ==
  ASSUME TypeOK, MatchInv, NEW by \in By, configs[by].step \notin {"idle", "assign"}
  PROVE  /\ server.game \in GameIds /\ configs[by].game = server.game
         /\ \A c \in By : c # by => configs[c].step = "idle"
<1>1. configs[by].game \in GameIds
  BY TypeParts, Typed DEF CallsGame, Config
<1> QED BY <1>1 DEF MatchInv, ConfigInv, OneCall, By

LEMMA CallGame ==
  ASSUME TypeOK, NEW by \in By, configs[by].step # "idle"
  PROVE  configs[by].game \in GameIds
BY TypeParts, Typed DEF CallsGame, Config

LEMMA GetLogsecretInv ==
  ASSUME TypeOK, MatchInv, NEW g \in GameIds, GetLogsecret(g)
  PROVE  MatchInv'
<1>1. /\ configs["launch"].step = "secret" /\ configs["launch"].game = g
      /\ configs'["launch"].step = "logSecret" /\ configs'["launch"].game = g
      /\ configs'["launch"].slots = configs["launch"].slots
      /\ configs'["admin"] = configs["admin"]
  BY GetLogsecretDoes DEF GetLogsecret, ConfigChanges, ConfigFieldNames, By
<1>2. /\ server'.game = server.game /\ server'.password = server.password
      /\ server'.players = server.players /\ server'.logAddress = server.logAddress
      /\ server'.logSecret = g
      /\ UNCHANGED <<games, replacings, failed, raced, lines, handlings>>
  BY GetLogsecretDoes DEF GetLogsecret, ServerChanges, ServerFieldNames
<1>3. server.game = g /\ configs["admin"].step = "idle"
  BY <1>1, BusyCall DEF By
<1>4. \A q \in GameIds : GameInv(q)'
  BY <1>2, <1>3 DEF MatchInv, GameInv, InProgress
<1>5. \A by \in By : ConfigInv(by)'
  <2>1. ConfigInv("admin")'
    BY <1>1, <1>2, <1>3 DEF MatchInv, ConfigInv, By, Steps
  <2>2. ConfigInv("launch")'
    BY <1>1, <1>2, <1>3 DEF MatchInv, ConfigInv, Steps, By
  <2> QED BY <2>1, <2>2 DEF By
<1>6. OneCall' /\ ServerInv'
  BY <1>1, <1>2, <1>3, Constants DEF MatchInv, OneCall, ServerInv, By
<1>7. LetInInv' /\ LinesInv'
  BY <1>1, <1>2, <1>3 DEF MatchInv, LetInInv, LinesInv, By, Steps, Untold, Coming
<1>8. \A r \in replacings' : ReplacingInv(r)'
  BY <1>2 DEF MatchInv, ReplacingInv
<1> QED BY <1>4, <1>5, <1>6, <1>7, <1>8 DEF MatchInv

LEMMA StoreLogSecretInv ==
  ASSUME TypeOK, MatchInv, NEW g \in GameIds, StoreLogSecret(g)
  PROVE  MatchInv'
<1>1. /\ configs["launch"].step = "logSecret" /\ configs["launch"].game = g
      /\ configs'["launch"].step = "read" /\ configs'["launch"].game = g
      /\ configs'["launch"].slots = configs["launch"].slots
      /\ configs'["admin"] = configs["admin"]
  BY StoreLogSecretDoes DEF StoreLogSecret, ConfigChanges, ConfigFieldNames, By
<1>2. UNCHANGED <<server, replacings, failed, raced, lines, handlings>>
  BY DEF StoreLogSecret
<1>3. /\ server.game = g /\ configs["admin"].step = "idle"
      /\ server.logSecret = g /\ games[g].state # "none"
  BY <1>1, BusyCall DEF MatchInv, ConfigInv, By
<1>4. /\ games'[g].state = games[g].state /\ games'[g].slots = games[g].slots
      /\ games'[g].connectString = games[g].connectString
      /\ games'[g].gameServer = games[g].gameServer
      /\ games'[g].toldBy = games[g].toldBy /\ games'[g].logSecret = g
      /\ \A q \in GameIds : q # g => games'[q] = games[q]
  BY <1>3, StoreLogSecretDoes DEF GameChanges, GameFieldNames
<1>5. \A q \in GameIds : GameInv(q)'
  BY <1>2, <1>3, <1>4 DEF MatchInv, GameInv, InProgress
<1>6. \A by \in By : ConfigInv(by)'
  <2>1. ConfigInv("admin")'
    BY <1>1, <1>2, <1>3 DEF MatchInv, ConfigInv, By, Steps
  <2>2. ConfigInv("launch")'
    BY <1>1, <1>2, <1>3, <1>4 DEF MatchInv, ConfigInv, Steps, By
  <2> QED BY <2>1, <2>2 DEF By
<1>7. OneCall' /\ ServerInv'
  BY <1>1, <1>2, <1>3 DEF MatchInv, OneCall, ServerInv, By
<1>8. LetInInv' /\ LinesInv'
  BY <1>1, <1>2, <1>3, <1>4, TypeParts
     DEF MatchInv, LetInInv, LinesInv, By, Steps, Untold, Coming, RestOK, Handling
<1>9. \A r \in replacings' : ReplacingInv(r)'
  BY <1>2, <1>4, TypeParts DEF MatchInv, ReplacingInv, RestOK, Replacing
<1> QED BY <1>5, <1>6, <1>7, <1>8, <1>9 DEF MatchInv

LEMMA ReconfigureInv ==
  ASSUME TypeOK, MatchInv, Overlap = FALSE, NEW g \in GameIds, Reconfigure(g)
  PROVE  MatchInv'
<1>1. /\ configs["admin"].step = "idle" /\ configs'["admin"].step = "clear"
      /\ configs'["admin"].game = g /\ configs'["admin"].slots = {}
      /\ configs'["launch"] = configs["launch"]
  BY ReconfigureDoes DEF CallStarts, ConfigChanges, ConfigFieldNames, By
<1>2. /\ UNCHANGED <<games, server, replacings, failed, raced, lines, handlings>>
      /\ games[g].gameServer /\ InProgress(g) /\ games[g].logSecret # NoGame
      /\ \A by \in By : configs[by].game # g
  BY TypeParts DEF Reconfigure, Configuring, By
<1>3. server.game = g /\ server.logSecret = g /\ games[g].state # "none"
  BY <1>2 DEF MatchInv, GameInv, InProgress
<1>4. configs["launch"].step = "idle"
  BY <1>2, <1>3, BusyCall, Constants DEF MatchInv, ConfigInv, By
<1>5. \A q \in GameIds : GameInv(q)'
  BY <1>2 DEF MatchInv, GameInv, InProgress
<1>6. \A by \in By : ConfigInv(by)'
  <2>1. ConfigInv("launch")'
    BY <1>1, <1>2 DEF MatchInv, ConfigInv, By
  <2>2. ConfigInv("admin")'
    BY <1>1, <1>2, <1>3 DEF ConfigInv, Steps
  <2> QED BY <2>1, <2>2 DEF By
<1>7. OneCall' /\ ServerInv'
  BY <1>1, <1>2, <1>4 DEF MatchInv, OneCall, ServerInv, By
<1>8. LetInInv' /\ LinesInv'
  BY <1>1, <1>2 DEF MatchInv, LetInInv, LinesInv, By, Steps, Untold, Coming
<1>9. \A r \in replacings' : ReplacingInv(r)'
  BY <1>2 DEF MatchInv, ReplacingInv
<1> QED BY <1>5, <1>6, <1>7, <1>8, <1>9 DEF MatchInv

LEMMA ClearInv ==
  ASSUME TypeOK, MatchInv, ClearConnectString
  PROVE  MatchInv'
<1> DEFINE g == configs["admin"].game
<1>1. /\ configs["admin"].step = "clear" /\ configs'["admin"].step = "read"
      /\ configs'["admin"].game = g
      /\ configs'["admin"].slots = configs["admin"].slots
      /\ configs'["launch"] = configs["launch"]
  BY ClearDoes DEF ClearConnectString, ConfigChanges, ConfigFieldNames, By
<1>2. UNCHANGED <<server, replacings, failed, raced, lines, handlings>>
  BY DEF ClearConnectString
<1>3. /\ g \in GameIds /\ server.game = g /\ configs["launch"].step = "idle"
      /\ server.logSecret = g /\ games[g].state # "none"
  BY <1>1, BusyCall DEF MatchInv, ConfigInv, By
<1>4. /\ games'[g].state = games[g].state /\ games'[g].slots = games[g].slots
      /\ games'[g].connectString = NoPassword
      /\ games'[g].gameServer = games[g].gameServer
      /\ games'[g].toldBy = games[g].toldBy /\ games'[g].logSecret = games[g].logSecret
      /\ \A q \in GameIds : q # g => games'[q] = games[q]
  BY ClearDoes DEF GameChanges, GameFieldNames
<1>5. \A q \in GameIds : GameInv(q)'
  BY <1>2, <1>3, <1>4 DEF MatchInv, GameInv, InProgress
<1>6. \A by \in By : ConfigInv(by)'
  <2>1. ConfigInv("launch")'
    BY <1>1, <1>2, <1>3 DEF MatchInv, ConfigInv, By, Steps
  <2>2. ConfigInv("admin")'
    BY <1>1, <1>2, <1>3, <1>4 DEF MatchInv, ConfigInv, Steps, By
  <2> QED BY <2>1, <2>2 DEF By
<1>7. OneCall' /\ ServerInv'
  BY <1>1, <1>2, <1>3 DEF MatchInv, OneCall, ServerInv, By
<1>8. LetInInv' /\ LinesInv'
  BY <1>1, <1>2, <1>3, <1>4, TypeParts
     DEF MatchInv, LetInInv, LinesInv, By, Steps, Untold, Coming, RestOK, Handling
<1>9. \A r \in replacings' : ReplacingInv(r)'
  BY <1>2, <1>4, TypeParts DEF MatchInv, ReplacingInv, RestOK, Replacing
<1> QED BY <1>5, <1>6, <1>7, <1>8, <1>9 DEF MatchInv

LEMMA ReadGameInv ==
  ASSUME TypeOK, MatchInv, NEW by \in By, ReadGame(by)
  PROVE  MatchInv'
<1> DEFINE g == configs[by].game
<1>1. /\ configs[by].step = "read" /\ configs'[by].step = "log" /\ configs'[by].game = g
      /\ configs'[by].slots = games[g].slots
      /\ \A c \in By : c # by => configs'[c] = configs[c] /\ configs[c].step = "idle"
  <2>1. /\ ConfigChanges(by, {"step", "slots"}) /\ configs'[by].step = "log"
        /\ configs'[by].slots = games[g].slots /\ configs[by].step = "read"
    BY ReadGameDoes DEF ReadGame
  <2> QED BY <2>1, BusyCall DEF ConfigChanges, ConfigFieldNames
<1>2. UNCHANGED <<games, server, replacings, failed, raced, lines, handlings>>
  BY DEF ReadGame
<1>3. \A q \in GameIds : GameInv(q)'
  BY <1>2 DEF MatchInv, GameInv, InProgress
<1>4. \A c \in By : ConfigInv(c)'
  BY <1>1, <1>2 DEF MatchInv, ConfigInv, Steps
<1>5. OneCall' /\ ServerInv'
  BY <1>1, <1>2 DEF MatchInv, OneCall, ServerInv, By
<1>6. LetInInv' /\ LinesInv'
  <2>1. server.game = g
    BY <1>1, BusyCall
  <2> QED BY <1>1, <1>2, <2>1 DEF MatchInv, LetInInv, LinesInv, Steps, Untold, Coming
<1>7. \A r \in replacings' : ReplacingInv(r)'
  BY <1>2 DEF MatchInv, ReplacingInv
<1> QED BY <1>3, <1>4, <1>5, <1>6, <1>7 DEF MatchInv

LEMMA AddLogAddressInv ==
  ASSUME TypeOK, MatchInv, NEW by \in By, AddLogAddress(by)
  PROVE  MatchInv'
<1> DEFINE g == configs[by].game
<1>1. /\ configs[by].step = "log" /\ configs'[by].step = "map" /\ configs'[by].game = g
      /\ configs'[by].slots = configs[by].slots
      /\ \A c \in By : c # by => configs'[c] = configs[c] /\ configs[c].step = "idle"
  BY AddLogAddressDoes, BusyCall DEF AddLogAddress, ConfigChanges, ConfigFieldNames
<1>2. /\ server'.game = server.game /\ server'.password = server.password
      /\ server'.players = server.players /\ server'.logSecret = server.logSecret
      /\ server'.logAddress
      /\ UNCHANGED <<games, replacings, failed, raced, lines, handlings>>
  BY AddLogAddressDoes DEF AddLogAddress, ServerChanges, ServerFieldNames
<1>3. server.game \in GameIds /\ server.game = g /\ server.logSecret = g
  BY <1>1, BusyCall DEF MatchInv, ConfigInv, Steps
<1>4. \A q \in GameIds : GameInv(q)'
  BY <1>2 DEF MatchInv, GameInv, InProgress
<1>5. \A c \in By : ConfigInv(c)'
  BY <1>1, <1>2 DEF MatchInv, ConfigInv, Steps
<1>6. OneCall' /\ ServerInv'
  BY <1>1, <1>2, <1>3, Constants DEF MatchInv, OneCall, ServerInv, By
<1>7. LetInInv' /\ LinesInv'
  BY <1>1, <1>2 DEF MatchInv, LetInInv, LinesInv, Steps, Untold, Coming
<1>8. \A r \in replacings' : ReplacingInv(r)'
  BY <1>2 DEF MatchInv, ReplacingInv
<1> QED BY <1>4, <1>5, <1>6, <1>7, <1>8 DEF MatchInv

\* ChangeMap and AnswerConfigured.
LEMMA GoesOnInv ==
  ASSUME TypeOK, MatchInv, NEW by \in By, ChangeMap(by) \/ AnswerConfigured(by)
  PROVE  MatchInv'
<1> DEFINE g == configs[by].game
<1>1. /\ \/ configs[by].step = "map" /\ configs'[by].step = "password"
         \/ configs[by].step = "players" /\ configs'[by].step = "store"
            /\ configs[by].slots = {}
      /\ configs'[by].game = g /\ configs'[by].slots = configs[by].slots
      /\ configs'[by].password = configs[by].password
      /\ \A c \in By : c # by => configs'[c] = configs[c] /\ configs[c].step = "idle"
  BY GoChanges, BusyCall
     DEF ChangeMap, AnswerConfigured, ConfigChanges, ConfigFieldNames, ConfigStep
<1>2. UNCHANGED <<games, server, replacings, failed, raced, lines, handlings>>
  BY DEF ChangeMap, AnswerConfigured
<1>3. \A q \in GameIds : GameInv(q)'
  BY <1>2 DEF MatchInv, GameInv, InProgress
<1>4. \A c \in By : ConfigInv(c)'
  BY <1>1, <1>2 DEF MatchInv, ConfigInv, Steps
<1>5. OneCall' /\ ServerInv'
  BY <1>1, <1>2 DEF MatchInv, OneCall, ServerInv, By
<1>6. LetInInv' /\ LinesInv'
  BY <1>1, <1>2 DEF MatchInv, LetInInv, LinesInv, Steps, Untold, Coming
<1>7. \A r \in replacings' : ReplacingInv(r)'
  BY <1>2 DEF MatchInv, ReplacingInv
<1> QED BY <1>3, <1>4, <1>5, <1>6, <1>7 DEF MatchInv

LEMMA SetPasswordInv ==
  ASSUME TypeOK, MatchInv, NEW by \in By, SetPassword(by)
  PROVE  MatchInv'
<1> DEFINE g == configs[by].game
<1>1. /\ configs[by].step = "password" /\ configs'[by].step = "players"
      /\ configs'[by].game = g /\ configs'[by].slots = configs[by].slots
      /\ configs'[by].password = passwords'
      /\ \A c \in By : c # by => configs'[c] = configs[c] /\ configs[c].step = "idle"
  <2>1. /\ ConfigChanges(by, {"step", "password"}) /\ configs'[by].step = "players"
        /\ configs'[by].password = passwords' /\ configs[by].step = "password"
    BY SetPasswordDoes DEF SetPassword
  <2> QED BY <2>1, BusyCall DEF ConfigChanges, ConfigFieldNames
<1>2. /\ server'.game = server.game /\ server'.password = passwords'
      /\ server'.players = server.players /\ server'.logSecret = server.logSecret
      /\ server'.logAddress = server.logAddress
      /\ UNCHANGED <<games, replacings, failed, raced, lines, handlings>>
  BY SetPasswordDoes DEF SetPassword, ServerChanges, ServerFieldNames
<1>3. server.game = g /\ games[g].connectString = NoPassword
  BY <1>1, BusyCall DEF MatchInv, ConfigInv
<1>4. \A q \in GameIds : GameInv(q)'
  BY <1>2, <1>3 DEF MatchInv, GameInv, InProgress
<1>5. \A c \in By : ConfigInv(c)'
  BY <1>1, <1>2 DEF MatchInv, ConfigInv, Steps
<1>6. OneCall' /\ ServerInv'
  BY <1>1, <1>2 DEF MatchInv, OneCall, ServerInv, By
<1>7. LetInInv' /\ LinesInv'
  BY <1>1, <1>2 DEF MatchInv, LetInInv, LinesInv, Steps, Untold, Coming
<1>8. \A r \in replacings' : ReplacingInv(r)'
  BY <1>2 DEF MatchInv, ReplacingInv
<1> QED BY <1>4, <1>5, <1>6, <1>7, <1>8 DEF MatchInv

LEMMA AddPlayerInv ==
  ASSUME TypeOK, MatchInv, NEW by \in By, NEW p \in Players, AddPlayer(by, p)
  PROVE  MatchInv'
<1> DEFINE g == configs[by].game
<1>1. /\ configs[by].step = "players" /\ configs'[by].step = "players"
      /\ configs'[by].game = g /\ configs'[by].slots = configs[by].slots \ {p}
      /\ configs'[by].password = configs[by].password /\ p \in configs[by].slots
      /\ \A c \in By : c # by => configs'[c] = configs[c] /\ configs[c].step = "idle"
  BY AddPlayerDoes, BusyCall DEF AddPlayer, ConfigChanges, ConfigFieldNames
<1>2. /\ server'.game = server.game /\ server'.password = server.password
      /\ server'.players = server.players \cup {p} /\ server'.logSecret = server.logSecret
      /\ server'.logAddress = server.logAddress /\ failed' = failed \ {p}
      /\ UNCHANGED <<games, replacings, raced, lines, handlings>>
  BY AddPlayerDoes DEF AddPlayer, ServerChanges, ServerFieldNames
<1>3. /\ server.game \in GameIds /\ server.game = g
      /\ configs[by].slots \subseteq games[g].slots \cup raced
  BY <1>1, BusyCall DEF MatchInv, ConfigInv
<1>4. \A q \in GameIds : GameInv(q)'
  BY <1>2 DEF MatchInv, GameInv, InProgress
<1>5. \A c \in By : ConfigInv(c)'
  BY <1>1, <1>2 DEF MatchInv, ConfigInv, Steps
<1>6. OneCall' /\ ServerInv'
  BY <1>1, <1>2, <1>3, Constants DEF MatchInv, OneCall, ServerInv, By
<1>7. LetInInv'
  BY <1>1, <1>2, <1>3 DEF MatchInv, LetInInv, Steps, Untold, Coming
<1>8. LinesInv' /\ \A r \in replacings' : ReplacingInv(r)'
  BY <1>2 DEF MatchInv, ReplacingInv, LinesInv
<1> QED BY <1>4, <1>5, <1>6, <1>7, <1>8 DEF MatchInv
LEMMA StoreConnectStringInv ==
  ASSUME TypeOK, MatchInv, NEW by \in By, StoreConnectString(by)
  PROVE  MatchInv'
<1> DEFINE g == configs[by].game
<1>1. /\ configs[by].step = "store" /\ configs'[by].step = "idle" /\ configs'[by].slots = {}
      /\ \A c \in By : c # by => configs'[c] = configs[c] /\ configs[c].step = "idle"
  BY StoreConnectStringDoes, BusyCall DEF StoreConnectString, ConfigChanges, NoConfig
<1>2. UNCHANGED <<server, replacings, failed, raced, lines, handlings>>
  BY DEF StoreConnectString
<1>3. /\ g \in GameIds /\ server.game = g /\ configs[by].password = server.password
      /\ games[g].state # "none" /\ configs[by].slots = {}
  BY <1>1, BusyCall DEF MatchInv, ConfigInv
<1>4. /\ games'[g].state = games[g].state /\ games'[g].slots = games[g].slots
      /\ games'[g].connectString = server.password
      /\ games'[g].gameServer = games[g].gameServer
      /\ games'[g].toldBy = games[g].toldBy /\ games'[g].logSecret = games[g].logSecret
      /\ \A q \in GameIds : q # g => games'[q] = games[q]
  BY <1>3, StoreConnectStringDoes DEF GameChanges, GameFieldNames
<1>5. \A q \in GameIds : GameInv(q)'
  BY <1>2, <1>3, <1>4 DEF MatchInv, GameInv, InProgress
<1>6. \A c \in By : ConfigInv(c)'
  BY <1>1, <1>2 DEF MatchInv, ConfigInv, Steps
<1>7. OneCall' /\ ServerInv'
  BY <1>1, <1>2 DEF MatchInv, OneCall, ServerInv, By
<1>8. LetInInv' /\ LinesInv'
  BY <1>1, <1>2, <1>3, <1>4, TypeParts
     DEF MatchInv, LetInInv, LinesInv, Steps, Untold, Coming, RestOK, Handling
<1>9. \A r \in replacings' : ReplacingInv(r)'
  BY <1>2, <1>4, TypeParts DEF MatchInv, ReplacingInv, RestOK, Replacing
<1> QED BY <1>5, <1>6, <1>7, <1>8, <1>9 DEF MatchInv

LEMMA ConfigurationFailsInv ==
  ASSUME TypeOK, MatchInv, NEW by \in By, ConfigurationFails(by)
  PROVE  MatchInv'
<1>1. /\ configs'[by].step = "idle" /\ configs'[by].slots = {}
      /\ \A c \in By : c # by => configs'[c] = configs[c] /\ configs[c].step = "idle"
  BY ConfigurationFailsDoes, BusyCall DEF ConfigurationFails, ConfigChanges, NoConfig
<1>2. UNCHANGED <<games, server, replacings, failed, raced, lines, handlings>>
  BY DEF ConfigurationFails
<1>3. \A q \in GameIds : GameInv(q)'
  BY <1>2 DEF MatchInv, GameInv, InProgress
<1>4. \A c \in By : ConfigInv(c)'
  BY <1>1, <1>2 DEF MatchInv, ConfigInv, Steps
<1>5. OneCall' /\ ServerInv'
  BY <1>1, <1>2 DEF MatchInv, OneCall, ServerInv, By
<1>6. LetInInv' /\ LinesInv'
  BY <1>1, <1>2 DEF MatchInv, LetInInv, LinesInv, Steps, Untold, Coming
<1>7. \A r \in replacings' : ReplacingInv(r)'
  BY <1>2 DEF MatchInv, ReplacingInv
<1> QED BY <1>3, <1>4, <1>5, <1>6, <1>7 DEF MatchInv

LEMMA ReplacePlayerInv ==
  ASSUME TypeOK, MatchInv, Overlap = FALSE, NEW g \in GameIds,
         NEW out \in Players, NEW in \in Players, ReplacePlayer(g, out, in)
  PROVE  MatchInv'
<1> DEFINE new == NewReplacing(g, out, in)
<1>1. /\ games'[g].state = games[g].state
      /\ games'[g].slots = (games[g].slots \ {out}) \cup {in}
      /\ games'[g].connectString = games[g].connectString
      /\ games'[g].gameServer = games[g].gameServer
      /\ games'[g].toldBy = games[g].toldBy /\ games'[g].logSecret = games[g].logSecret
      /\ \A q \in GameIds : q # g => games'[q] = games[q]
  BY ReplacePlayerDoes DEF GameChanges, GameFieldNames
<1>2. /\ UNCHANGED <<server, configs, failed, lines, handlings>>
      /\ InProgress(g) /\ out \in games[g].slots /\ in \notin games[g].slots
      /\ \A r \in replacings : r.game # g
      /\ raced \subseteq raced' /\ raced' \subseteq raced \cup {out}
      /\ (\A by \in By : configs[by].game = g => out \notin configs[by].slots) => raced' = raced
      /\ \A by \in By : configs[by].game = g /\ out \in configs[by].slots => out \in raced'
  BY TypeParts DEF ReplacePlayer, Replaced, By
<1>3. new.game = g /\ new.in = in /\ new.out = out /\ new.step = "add"
  BY DEF NewReplacing
<1>4. /\ games[g].gameServer => server.game = g /\ replacings = {} /\ replacings' = {new}
      /\ ~ games[g].gameServer => server.game # g /\ replacings' = replacings
  <2>1. games[g].gameServer => server.game = g
    BY <1>2 DEF MatchInv, GameInv
  <2>2. games[g].gameServer => replacings = {}
    BY <1>2, <2>1 DEF MatchInv, ReplacingInv
  <2>3. ~ games[g].gameServer => server.game # g
    BY TypeParts DEF Assigned
  <2> QED BY <2>1, <2>2, <2>3 DEF ReplacePlayer, NewReplacing
<1> HIDE DEF new
<1>5. ~ games[g].gameServer => raced' = raced
  <2>1. ASSUME ~ games[g].gameServer, NEW by \in By, configs[by].game = g
        PROVE  out \notin configs[by].slots
    <3>1. configs[by].step = "assign"
      BY <1>4, <2>1, BusyCall, Constants, TypeParts DEF CallsGame
    <3> QED BY <3>1 DEF MatchInv, ConfigInv
  <2> QED BY <1>2, <2>1
<1>6. games[g].state # "none"
  BY <1>2 DEF InProgress
<1>7. \A q \in GameIds : GameInv(q)'
  BY <1>1, <1>2, <1>6 DEF MatchInv, GameInv, InProgress
<1>8. ASSUME NEW c \in By PROVE ConfigInv(c)'
  <2> DEFINE x == configs[c].game
  <2>1. configs[c].step # "idle" =>
          /\ x \in GameIds
          /\ games'[x].state = games[x].state /\ games'[x].logSecret = games[x].logSecret
          /\ games'[x].connectString = games[x].connectString
    BY <1>1, CallGame
  <2>2. configs[c].step # "idle" => configs[c].slots \subseteq games'[x].slots \cup raced'
    <3>1. configs[c].step # "idle" => configs[c].slots \subseteq games[x].slots \cup raced
      BY DEF MatchInv, ConfigInv
    <3> QED BY <1>1, <1>2, <2>1, <3>1
  <2> QED BY <1>2, <2>1, <2>2 DEF MatchInv, ConfigInv, Steps
<1>9. OneCall' /\ ServerInv'
  BY <1>2, <1>4, <1>5, Constants DEF MatchInv, OneCall, ServerInv
<1>10. LetInInv'
  <2>1. CASE games[g].gameServer
    <3>1. \A q \in GameIds : server'.game = q => q = g
      BY <1>2, <1>4, <2>1
    <3>2. /\ replacings = {} /\ replacings' = {new} /\ server.game = g
          /\ Untold \subseteq Untold'
      BY <1>2, <1>4, <2>1 DEF Untold
    <3> QED BY <1>1, <1>2, <1>3, <3>1, <3>2 DEF MatchInv, LetInInv, Coming
  <2>2. CASE ~ games[g].gameServer
    BY <1>1, <1>2, <1>4, <1>5, <2>2 DEF MatchInv, LetInInv, Untold, Coming
  <2> QED BY <2>1, <2>2
<1>11. LinesInv'
  BY <1>1, <1>2, TypeParts DEF MatchInv, LinesInv, RestOK, Handling
<1>12. \A r \in replacings' : ReplacingInv(r)'
  <2>1. CASE games[g].gameServer
    <3>1. out # in
      BY <1>2
    <3> QED BY <1>1, <1>2, <1>3, <1>4, <2>1, <3>1 DEF ReplacingInv
  <2>2. CASE ~ games[g].gameServer
    BY <1>1, <1>2, <1>4, <2>2, TypeParts DEF MatchInv, ReplacingInv, RestOK, Replacing
  <2> QED BY <2>1, <2>2
<1> QED BY <1>7, <1>8, <1>9, <1>10, <1>11, <1>12 DEF MatchInv

\* The only replacement there is.
LEMMA OneReplacing ==
  ASSUME TypeOK, MatchInv, NEW r \in replacings
  PROVE  /\ replacings = {r} /\ r.game \in GameIds /\ server.game = r.game
         /\ r.in \in games[r.game].slots /\ r.out \notin games[r.game].slots
         /\ r.step \in {"add", "del"}
BY TypeParts DEF MatchInv, ReplacingInv, RestOK, Replacing

LEMMA AddReplacementInv ==
  ASSUME TypeOK, MatchInv, NEW r \in replacings, AddReplacement(r)
  PROVE  MatchInv'
<1>1. PICK q \in Replacing : /\ replacings' = {q}
                             /\ q.game = r.game /\ q.in = r.in /\ q.out = r.out
                             /\ q.step = "del"
  BY AddReplacementDoes, OneReplacing
<1>2. /\ server'.game = server.game /\ server'.password = server.password
      /\ server'.players = server.players \cup {r.in}
      /\ server'.logSecret = server.logSecret /\ server'.logAddress = server.logAddress
      /\ failed' = failed \ {r.in} /\ r.step = "add"
      /\ UNCHANGED <<games, configs, raced, lines, handlings>>
  BY AddReplacementDoes DEF AddReplacement, ServerChanges, ServerFieldNames
<1>3. \A g \in GameIds : GameInv(g)'
  BY <1>2 DEF MatchInv, GameInv, InProgress
<1>4. \A c \in By : ConfigInv(c)'
  BY <1>2 DEF MatchInv, ConfigInv
<1>5. OneCall' /\ ServerInv'
  BY <1>2, OneReplacing, Constants DEF MatchInv, OneCall, ServerInv
<1>6. LetInInv'
  <2>1. server.game = r.game /\ replacings = {r} /\ r.in \in games[r.game].slots
    BY OneReplacing
  <2>2. Coming = {r.in} /\ Coming' = {} /\ {t.out : t \in replacings'} = {r.out}
    BY <1>1, <1>2, <2>1 DEF Coming
  <2> QED BY <1>2, <2>1, <2>2 DEF MatchInv, LetInInv, Untold
<1>7. LinesInv' /\ \A t \in replacings' : ReplacingInv(t)'
  BY <1>1, <1>2, OneReplacing DEF MatchInv, ReplacingInv, LinesInv
<1> QED BY <1>3, <1>4, <1>5, <1>6, <1>7 DEF MatchInv

LEMMA DelReplaceeInv ==
  ASSUME TypeOK, MatchInv, NEW r \in replacings, DelReplacee(r)
  PROVE  MatchInv'
<1>1. /\ server'.game = server.game /\ server'.password = server.password
      /\ server'.players = server.players \ {r.out}
      /\ server'.logSecret = server.logSecret /\ server'.logAddress = server.logAddress
      /\ failed' = failed \ {r.out} /\ r.step = "del" /\ replacings' = {}
      /\ UNCHANGED <<games, configs, raced, lines, handlings>>
  BY DelReplaceeDoes, OneReplacing DEF DelReplacee, ServerChanges, ServerFieldNames
<1>2. \A g \in GameIds : GameInv(g)'
  BY <1>1 DEF MatchInv, GameInv, InProgress
<1>3. \A c \in By : ConfigInv(c)'
  BY <1>1 DEF MatchInv, ConfigInv
<1>4. OneCall' /\ ServerInv'
  BY <1>1, OneReplacing, Constants DEF MatchInv, OneCall, ServerInv
<1>5. LetInInv'
  <2>1. server.game = r.game /\ replacings = {r} /\ r.out \notin games[r.game].slots
    BY OneReplacing
  <2>2. Coming = {} /\ Coming' = {}
    BY <1>1, <2>1 DEF Coming
  <2> QED BY <1>1, <2>1, <2>2 DEF MatchInv, LetInInv, Untold
<1>6. LinesInv' /\ \A t \in replacings' : ReplacingInv(t)'
  BY <1>1 DEF MatchInv, LinesInv
<1> QED BY <1>2, <1>3, <1>4, <1>5, <1>6 DEF MatchInv

LEMMA ReplacingFailsInv ==
  ASSUME TypeOK, MatchInv, NEW r \in replacings, ReplacingFails(r)
  PROVE  MatchInv'
<1>1. /\ UNCHANGED <<games, server, configs, raced, lines, handlings>>
      /\ failed \subseteq failed' /\ r.out \in failed'
      /\ r.step = "add" => r.in \in failed'
      /\ replacings' = {} /\ server.game \in GameIds
  BY OneReplacing DEF ReplacingFails
<1>2. \A g \in GameIds : GameInv(g)'
  BY <1>1 DEF MatchInv, GameInv, InProgress
<1>3. \A c \in By : ConfigInv(c)'
  BY <1>1 DEF MatchInv, ConfigInv
<1>4. OneCall' /\ ServerInv'
  BY <1>1, Constants DEF MatchInv, OneCall, ServerInv
<1>5. LetInInv'
  <2>1. \A t \in replacings : t = r
    BY OneReplacing
  <2>2. Coming \subseteq failed' /\ {t.out : t \in replacings} \subseteq failed'
    BY <1>1, <2>1 DEF Coming
  <2>3. Untold \cup Coming \cup {t.out : t \in replacings} \subseteq Untold'
    BY <1>1, <2>2 DEF Untold
  <2> HIDE DEF Untold, Coming
  <2> QED BY <1>1, <2>3 DEF MatchInv, LetInInv
<1>6. LinesInv' /\ \A t \in replacings' : ReplacingInv(t)'
  BY <1>1 DEF MatchInv, LinesInv
<1> QED BY <1>2, <1>3, <1>4, <1>5, <1>6 DEF MatchInv

\* Steps that change at most what is on its way from the log.
LEMMA LogInv ==
  ASSUME MatchInv, UNCHANGED <<games, server, configs, replacings, failed, raced>>, LinesInv'
  PROVE  MatchInv'
BY DEF MatchInv, GameInv, InProgress, ConfigInv, OneCall, ServerInv, ReplacingInv, LetInInv,
       Untold, Coming

LEMMA LineStepInv ==
  ASSUME TypeOK, MatchInv,
         \/ \E event \in GameEvent : SendLine(event)
         \/ \E line \in lines : LoseLine(line)
         \/ \E line \in lines, again \in BOOLEAN : ReceiveLine(line, again)
         \/ UNCHANGED vars
  PROVE  MatchInv'
<1>1. LinesInv
  BY DEF MatchInv
<1>2. ASSUME NEW event \in GameEvent, SendLine(event) PROVE LinesInv'
  BY <1>1, <1>2 DEF SendLine, LinesInv, MatchInv, ServerInv
<1>3. ASSUME NEW line \in lines, LoseLine(line) PROVE LinesInv'
  BY <1>1, <1>3 DEF LoseLine, LinesInv
<1>4. ASSUME NEW line \in lines, NEW again \in BOOLEAN, ReceiveLine(line, again)
      PROVE  LinesInv'
  <2>1. \A g \in GameIds : games[g].logSecret = line.secret /\ games[g].logSecret # NoGame
                             => g = line.told /\ games[g].state # "none"
    <3>1. NotCreated.logSecret = NoGame
      BY DEF NotCreated
    <3> QED BY <1>1, <3>1 DEF LinesInv, MatchInv, GameInv
  <2> QED BY <1>1, <1>4, <2>1 DEF ReceiveLine, WithoutSecret, LinesInv
<1>5. CASE UNCHANGED vars
  BY <1>1, <1>5, LogInv DEF vars, LinesInv
<1> QED BY <1>2, <1>3, <1>4, <1>5, LogInv DEF SendLine, LoseLine, ReceiveLine

\* Steps that change at most the state of a game and what told it.
LEMMA StateInv ==
  ASSUME TypeOK, MatchInv, NEW g \in GameIds, GameChanges(g, {"state", "toldBy"}),
         games[g].state # "none", games'[g].state # "none",
         games'[g].state \in {"launching", "started"} => InProgress(g),
         games'[g].toldBy \subseteq {g},
         UNCHANGED <<server, configs, replacings, failed, raced, lines>>,
         handlings' \subseteq handlings
  PROVE  MatchInv'
<1>1. /\ games'[g].slots = games[g].slots
      /\ games'[g].connectString = games[g].connectString
      /\ games'[g].gameServer = games[g].gameServer
      /\ games'[g].logSecret = games[g].logSecret
      /\ \A q \in GameIds : q # g => games'[q] = games[q]
  BY DEF GameChanges, GameFieldNames
<1>2. \A q \in GameIds : GameInv(q)'
  BY <1>1 DEF MatchInv, GameInv, InProgress
<1>3. ASSUME NEW c \in By PROVE ConfigInv(c)'
  <2>1. configs[c].step # "idle" =>
          /\ configs[c].game \in GameIds
          /\ games[configs[c].game].state # "none" => games'[configs[c].game].state # "none"
          /\ games'[configs[c].game].slots = games[configs[c].game].slots
          /\ games'[configs[c].game].connectString = games[configs[c].game].connectString
          /\ games'[configs[c].game].logSecret = games[configs[c].game].logSecret
    BY <1>1, CallGame
  <2> QED BY <2>1 DEF MatchInv, ConfigInv, Steps
<1>4. OneCall' /\ ServerInv'
  BY DEF MatchInv, OneCall, ServerInv
<1>5. LetInInv'
  BY <1>1 DEF MatchInv, LetInInv, Untold, Coming
<1>6. LinesInv'
  BY <1>1, TypeParts DEF MatchInv, LinesInv, RestOK, Handling
<1>7. \A r \in replacings' : ReplacingInv(r)'
  BY <1>1, TypeParts DEF MatchInv, ReplacingInv, RestOK, Replacing
<1> QED BY <1>2, <1>3, <1>4, <1>5, <1>6, <1>7 DEF MatchInv

LEMMA HandleLineInv ==
  ASSUME TypeOK, MatchInv, NEW h \in handlings, HandleLine(h)
  PROVE  MatchInv'
<1>1. /\ h \in Handling /\ Handled(h) /\ h.game \in GameIds
      /\ h.game = h.told /\ games[h.game].state # "none"
      /\ games[h.game].toldBy \subseteq {h.game}
      /\ handlings' \subseteq handlings
      /\ UNCHANGED <<server, configs, replacings, failed, raced, lines>>
  BY HandleLineDoes DEF HandleLine, Handling, MatchInv, LinesInv, GameInv
<1>2. CASE UNCHANGED games
  BY <1>1, <1>2, LogInv DEF MatchInv, LinesInv
<1>3. CASE ~ UNCHANGED games
  BY <1>1, <1>3, StateInv DEF Handled
<1> QED BY <1>2, <1>3

LEMMA ForceEndInv ==
  ASSUME TypeOK, MatchInv, NEW g \in GameIds, ForceEnd(g)
  PROVE  MatchInv'
<1>1. /\ GameChanges(g, {"state", "toldBy"}) /\ games'[g].state = "over"
      /\ games'[g].toldBy = games[g].toldBy
  BY ForceEndDoes DEF GameChanges, GameFieldNames
<1>2. games[g].state # "none" /\ games[g].toldBy \subseteq {g}
  BY DEF ForceEnd, InProgress, MatchInv, GameInv
<1> QED BY <1>1, <1>2, StateInv DEF ForceEnd

LEMMA CleanUpInv ==
  ASSUME TypeOK, MatchInv, Overlap = FALSE, CleanUp
  PROVE  MatchInv'
<1>1. /\ server'.game = NoGame /\ ~ server'.logAddress /\ server'.players = {}
      /\ failed' = {} /\ raced' = {}
      /\ UNCHANGED <<games, configs, replacings, lines, handlings>>
  BY CleanUpDoes DEF CleanUp
<1>2. /\ server.game # NoGame /\ games[server.game].state = "over"
      /\ \A by \in By : configs[by].game # server.game
      /\ \A r \in replacings : r.game # server.game
  BY TypeParts DEF CleanUp, Quiet, Configuring, Replaced, By
<1>3. \A by \in By : configs[by].step = "idle"
  BY <1>2, BusyCall DEF MatchInv, ConfigInv
<1>4. replacings = {}
  BY <1>2 DEF MatchInv, ReplacingInv
<1>5. \A g \in GameIds : GameInv(g)'
  BY <1>1, <1>2, Constants DEF MatchInv, GameInv, InProgress
<1>6. \A c \in By : ConfigInv(c)'
  BY <1>1, <1>3 DEF MatchInv, ConfigInv, Steps
<1>7. OneCall' /\ ServerInv' /\ LinesInv' /\ \A r \in replacings' : ReplacingInv(r)'
  BY <1>1, <1>3, <1>4 DEF MatchInv, OneCall, ServerInv, LinesInv, By
<1>8. LetInInv'
  BY <1>1, Constants DEF LetInInv
<1> QED BY <1>5, <1>6, <1>7, <1>8 DEF MatchInv

LEMMA MatchNextInv ==
  ASSUME Overlap = FALSE
  PROVE  TypeOK /\ MatchInv /\ [Next]_vars => MatchInv'
<1> SUFFICES ASSUME TypeOK, MatchInv, [Next]_vars PROVE MatchInv'
  OBVIOUS
<1> QED
  BY CreateGameInv, AssignInv, GetLogsecretInv, StoreLogSecretInv, ReconfigureInv, ClearInv,
     ReadGameInv, AddLogAddressInv, GoesOnInv, SetPasswordInv, AddPlayerInv,
     StoreConnectStringInv, ConfigurationFailsInv, ReplacePlayerInv, AddReplacementInv,
     DelReplaceeInv, ReplacingFailsInv, LineStepInv, HandleLineInv, ForceEndInv, CleanUpInv
     DEF Next, By

\* Whatever overlaps, what is stored and sent is what it should be, and the game that a
\* server is assigned to knows that it has one.
THEOREM MatchTypeCorrect == Spec => []TypeOK
BY MatchInitType, MatchNextType, PTL DEF Spec

LEMMA MatchInvariant == ASSUME Overlap = FALSE PROVE Spec => [](TypeOK /\ MatchInv)
<1>1. TypeOK /\ MatchInv /\ [Next]_vars => TypeOK' /\ MatchInv'
  BY MatchNextType, MatchNextInv
<1> QED BY MatchInitType, MatchInitInv, <1>1, PTL DEF Spec

\* Whoever reads the connect string of a game has the password of its server, when a
\* server is configured once at a time.
THEOREM PasswordsWork == ASSUME Overlap = FALSE PROVE Spec => []PublishedPasswordWorks
<1>1. MatchInv => PublishedPasswordWorks
  BY DEF MatchInv, GameInv, PublishedPasswordWorks
<1> QED BY MatchInvariant, <1>1, PTL

\* The players of a game, substitutes too, and nobody else are let in.
THEOREM PlayersGetIn == ASSUME Overlap = FALSE PROVE Spec => []PlayersAreLetIn
<1>1. TypeOK /\ MatchInv => PlayersAreLetIn
  <2> SUFFICES ASSUME TypeOK, MatchInv, NEW g \in GameIds, server.game = g,
                      games[g].connectString # NoPassword, Quiet(g)
               PROVE  server.players \ (failed \cup raced) = games[g].slots \ (failed \cup raced)
    BY DEF PlayersAreLetIn
  <2>1. replacings = {}
    BY DEF Quiet, Replaced, MatchInv, ReplacingInv
  <2> QED BY <2>1 DEF MatchInv, LetInInv, Untold, Coming
<1> QED BY MatchInvariant, <1>1, PTL

\* What the log tells of a game changes no other game, late lines too.
THEOREM LinesCount == ASSUME Overlap = FALSE PROVE Spec => []LinesCountForTheirGame
<1>1. MatchInv => LinesCountForTheirGame
  BY DEF MatchInv, GameInv, LinesCountForTheirGame
<1> QED BY MatchInvariant, <1>1, PTL

-----------------------------------------------------------------------------
(* All of it *)

\* A behaviour of the four is one of each.
LEMMA EachPart == AllSpec => Spec /\ HeartbeatsSpec /\ DiagnosticsSpec /\ ServemeSpec
<1>1. AllInit => Init /\ HeartbeatsInit /\ DiagnosticsInit /\ ServemeInit
  BY DEF AllInit
<1>2. [AllNext]_<<part, vars, heartbeatsVars, diagnosticsVars, servemeVars>>
        => /\ [Next]_vars /\ [HeartbeatsNext]_heartbeatsVars
           /\ [DiagnosticsNext]_diagnosticsVars /\ [ServemeNext]_servemeVars
  BY DEF AllNext
<1> QED BY <1>1, <1>2, PTL DEF AllSpec, Spec, HeartbeatsSpec, DiagnosticsSpec, ServemeSpec

\* What is stored of a server, and sent to it, is always of the right type.
THEOREM GameServersTypesCorrect == AllSpec => []TypesOK
<1>1. HeartbeatsSpec => []HeartbeatsTypeOK
  BY InitHeartbeats, NextHeartbeats, PTL DEF HeartbeatsSpec
<1>2. DiagnosticsSpec => []DiagnosticsTypeOK
  BY InitDiagnostics, NextDiagnostics, PTL DEF DiagnosticsSpec
<1>3. ServemeSpec => []ServemeTypeOK
  BY InitServeme, NextServeme, ServemeType, PTL DEF ServemeSpec
<1> QED BY EachPart, MatchTypeCorrect, <1>1, <1>2, <1>3, PTL DEF TypesOK

=============================================================================
