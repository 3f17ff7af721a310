--------------------------- MODULE MCGameServers ---------------------------
(* Instances for TLC of what happens to one game server: Match, Heartbeats, Diagnostics
   and Serveme.  They share no state: a behaviour is one of a single part, so that the
   states of the parts add up instead of being multiplied.  Two games are played on a
   server, with one player more than a game needs, so that somebody can be replaced; two
   servers send heartbeats; there are two reservations. *)
EXTENDS Match, Heartbeats, Diagnostics, Serveme, TLC

CONSTANTS p1, p2, p3

VARIABLE part   \* the part the behaviour is of

Symmetry == Permutations(Players)

AllInit ==
  /\ part \in {"match", "heartbeats", "diagnostics", "serveme"}
  /\ Init /\ HeartbeatsInit /\ DiagnosticsInit /\ ServemeInit

AllNext ==
  /\ UNCHANGED part
  /\ \/ /\ part = "match"
        /\ Next
        /\ UNCHANGED <<heartbeatsVars, diagnosticsVars, servemeVars>>
     \/ /\ part = "heartbeats"
        /\ HeartbeatsNext
        /\ UNCHANGED <<vars, diagnosticsVars, servemeVars>>
     \/ /\ part = "diagnostics"
        /\ DiagnosticsNext
        /\ UNCHANGED <<vars, heartbeatsVars, servemeVars>>
     \/ /\ part = "serveme"
        /\ ServemeNext
        /\ UNCHANGED <<vars, heartbeatsVars, diagnosticsVars>>

AllSpec ==
  AllInit /\ [][AllNext]_<<part, vars, heartbeatsVars, diagnosticsVars, servemeVars>>

\* What is stored and sent is what the modules say it is.
TypesOK == TypeOK /\ HeartbeatsTypeOK /\ DiagnosticsTypeOK /\ ServemeTypeOK

=============================================================================
