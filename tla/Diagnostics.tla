----------------------------- MODULE Diagnostics -----------------------------
(***************************************************************************)
(* Diagnostics of a game server: a run of two checks, what is stored of    *)
(* it, and what the second check does to the server while its timeout runs *)
(* (GameServerDiagnosticsService, RconConnection, LogForwarding).          *)
(*                                                                         *)
(* The server and the network are external: a command arrives or fails, a  *)
(* line arrives or does not.                                               *)
(***************************************************************************)
EXTENDS Naturals, Sequences

VARIABLES
  diagnosticRun,  \* the run as executeAllRunners() has it
  snapshots,      \* snapshots of it that are not stored yet
  storedRun,      \* the diagnostic runs collection
  logCheck,       \* the promise of the log forwarding check, and its subscription
  commands,       \* rcon commands the log forwarding check has left to send
  checkedServer   \* what the commands changed

diagnosticsVars == <<diagnosticRun, snapshots, storedRun, logCheck, commands,
                     checkedServer>>

-----------------------------------------------------------------------------
CheckStatus == {"pending", "running", "completed", "failed"}

Run == [status : CheckStatus, rcon : CheckStatus, logs : CheckStatus]

NewRun == [status |-> "pending", rcon |-> "pending", logs |-> "pending"]

Commands == <<"svLogsecret", "logAddressAdd", "say", "logAddressDel", "noLogsecret">>

DiagnosticsTypeOK ==
  /\ diagnosticRun \in Run
  /\ snapshots \in Seq(Run)
  /\ storedRun \in Run
  /\ logCheck \in [result : {"none", "success", "failure"}, subscribed : BOOLEAN]
  /\ commands \in {SubSeq(Commands, i, 5) : i \in 1..6}
  /\ checkedServer \in [secret : BOOLEAN, logAddress : BOOLEAN, said : BOOLEAN]

DiagnosticsInit ==
  /\ diagnosticRun = NewRun
  /\ snapshots = <<>>
  /\ storedRun = NewRun
  /\ logCheck = [result |-> "none", subscribed |-> FALSE]
  /\ commands = <<>>
  /\ checkedServer = [secret |-> FALSE, logAddress |-> FALSE, said |-> FALSE]

-----------------------------------------------------------------------------
Publish(run) ==
  /\ diagnosticRun' = run
  /\ snapshots' = Append(snapshots, run)

\* The server is found; the first check begins.
StartRun ==
  /\ diagnosticRun = NewRun
  /\ Publish([diagnosticRun EXCEPT !.status = "running", !.rcon = "running"])
  /\ UNCHANGED <<storedRun, logCheck, commands, checkedServer>>

\* RconConnection
RconChecked(success) ==
  /\ diagnosticRun.rcon = "running"
  /\ Publish([diagnosticRun EXCEPT !.rcon = IF success THEN "completed" ELSE "failed"])
  /\ UNCHANGED <<storedRun, logCheck, commands, checkedServer>>

\* Without a connection the second check fails at once.
StartLogForwarding ==
  /\ diagnosticRun.rcon \in {"completed", "failed"}
  /\ diagnosticRun.logs = "pending"
  /\ Publish([diagnosticRun EXCEPT !.logs = "running"])
  /\ IF diagnosticRun.rcon = "completed"
     THEN /\ logCheck' = [result |-> "none", subscribed |-> TRUE]
          /\ commands' = Commands
     ELSE /\ logCheck' = [logCheck EXCEPT !.result = "failure"]
          /\ UNCHANGED commands
  /\ UNCHANGED <<storedRun, checkedServer>>

\* The commands follow one another whether or not the check was decided meanwhile.
SendCommand ==
  /\ commands # <<>>
  /\ commands' = Tail(commands)
  /\ checkedServer' =
       CASE Head(commands) = "svLogsecret" -> [checkedServer EXCEPT !.secret = TRUE]
         [] Head(commands) = "logAddressAdd" -> [checkedServer EXCEPT !.logAddress = TRUE]
         [] Head(commands) = "say" -> [checkedServer EXCEPT !.said = TRUE]
         [] Head(commands) = "logAddressDel" -> [checkedServer EXCEPT !.logAddress = FALSE]
         [] Head(commands) = "noLogsecret" -> [checkedServer EXCEPT !.secret = FALSE]
  /\ logCheck' = [logCheck EXCEPT !.subscribed = Len(commands) > 1]
  /\ UNCHANGED <<diagnosticRun, snapshots, storedRun>>

\* The chain of commands breaks; the subscription stays.
CommandFails ==
  /\ commands # <<>>
  /\ commands' = <<>>
  /\ UNCHANGED <<diagnosticRun, snapshots, storedRun, logCheck, checkedServer>>

Settle(result) ==
  logCheck' = IF logCheck.result = "none" THEN [logCheck EXCEPT !.result = result]
                                          ELSE logCheck

\* The secret comes back in a line that was said; the line may be late.
LineArrives ==
  /\ checkedServer.said
  /\ logCheck.subscribed
  /\ checkedServer' = [checkedServer EXCEPT !.said = FALSE]
  /\ Settle("success")
  /\ UNCHANGED <<diagnosticRun, snapshots, storedRun, commands>>

FiveSecondsPass ==
  /\ diagnosticRun.logs = "running"
  /\ logCheck.result = "none"
  /\ Settle("failure")
  /\ UNCHANGED <<diagnosticRun, snapshots, storedRun, commands, checkedServer>>

LogForwardingChecked ==
  /\ diagnosticRun.logs = "running"
  /\ logCheck.result # "none"
  /\ Publish([diagnosticRun EXCEPT
       !.logs = IF logCheck.result = "success" THEN "completed" ELSE "failed"])
  /\ UNCHANGED <<storedRun, logCheck, commands, checkedServer>>

FinishRun ==
  /\ diagnosticRun.logs \in {"completed", "failed"}
  /\ diagnosticRun.status = "running"
  /\ Publish([diagnosticRun EXCEPT
       !.status = IF diagnosticRun.rcon = "completed" /\ diagnosticRun.logs = "completed"
                  THEN "completed" ELSE "failed"])
  /\ UNCHANGED <<storedRun, logCheck, commands, checkedServer>>
\* Mutant: the updates do not wait for one another.
StoreAnySnapshot ==
  /\ \E i \in DOMAIN snapshots :
       /\ storedRun' = snapshots[i]
       /\ snapshots' = SubSeq(snapshots, 1, i - 1) \o SubSeq(snapshots, i + 1, Len(snapshots))
  /\ UNCHANGED <<diagnosticRun, logCheck, commands, checkedServer>>

\* concatMap(): one update after the other.
StoreSnapshot ==
  /\ snapshots # <<>>
  /\ storedRun' = Head(snapshots)
  /\ snapshots' = Tail(snapshots)
  /\ UNCHANGED <<diagnosticRun, logCheck, commands, checkedServer>>

DiagnosticsNext ==
  \/ StartRun
  \/ \E success \in BOOLEAN : RconChecked(success)
  \/ StartLogForwarding
  \/ SendCommand
  \/ CommandFails
  \/ LineArrives
  \/ FiveSecondsPass
  \/ LogForwardingChecked
  \/ FinishRun
  \/ StoreSnapshot

DiagnosticsSpec == DiagnosticsInit /\ [][DiagnosticsNext]_diagnosticsVars

-----------------------------------------------------------------------------
\* Whoever polls the run reads what it came to: once everything is stored, the run that
\* is stored says that it is completed only if both checks are, and nothing in it is
\* taken back by an update that was on its way.
StoredRunIsLatest ==
  /\ snapshots = <<>> => storedRun = diagnosticRun
  /\ storedRun.status = "completed" => storedRun.rcon = "completed"
                                       /\ storedRun.logs = "completed"

=============================================================================
