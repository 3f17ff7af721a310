------------------------------- MODULE Roster -------------------------------
(***************************************************************************)
(* What the pickup queue promises, without slots, timers, callbacks or     *)
(* database calls: players gather, are asked to ready up, and once all of  *)
(* them have, the whole roster is handed over to one game before the queue *)
(* opens again.  Queue implements this (Queue!RefinesRoster).              *)
(***************************************************************************)
EXTENDS Naturals, FiniteSets

CONSTANTS
  Players,
  Size       \* how many players make a game

VARIABLES
  phase,     \* QueueService.state
  members,   \* players in the queue
  readied    \* those of them who have readied up

rosterVars == <<phase, members, readied>>

RosterInit ==
  /\ phase = "waiting"
  /\ members = {}
  /\ readied = {}

\* A player who joins during the ready-up, or who completes the roster, counts
\* as ready; a member may join again to change his slot.
Enter(p) ==
  /\ phase # "launching"
  /\ Cardinality(members) < Size
  /\ members' = members \cup {p}
  /\ readied' = IF phase = "ready" \/ Cardinality(members') = Size
                THEN readied \cup {p} ELSE readied
  /\ UNCHANGED phase

ReadyUpMember(p) ==
  /\ phase = "ready"
  /\ p \in members
  /\ readied' = readied \cup {p}
  /\ UNCHANGED <<phase, members>>

\* Leaving is voluntary and ends with readying up; kicking is not.
Exit(p) ==
  /\ phase # "launching"
  /\ p \in members
  /\ members' = members \ {p}
  /\ readied' = readied \ {p}
  /\ UNCHANGED phase

DropUnready ==
  /\ phase = "ready"
  /\ members' = readied
  /\ UNCHANGED <<phase, readied>>

Unready ==
  /\ phase = "ready"
  /\ phase' = "waiting"
  /\ readied' = {}
  /\ UNCHANGED members

Assemble ==
  /\ phase = "waiting"
  /\ Cardinality(members) = Size
  /\ phase' = "ready"
  /\ UNCHANGED <<members, readied>>

Abandon ==
  /\ phase = "ready"
  /\ members = {}
  /\ phase' = "waiting"
  /\ UNCHANGED <<members, readied>>

BeginGame ==
  /\ phase = "ready"
  /\ Cardinality(readied) = Size
  /\ phase' = "launching"
  /\ UNCHANGED <<members, readied>>

HandOver ==
  /\ phase = "launching"
  /\ members # {}
  /\ members' = {}
  /\ readied' = {}
  /\ UNCHANGED phase

Reopen ==
  /\ phase = "launching"
  /\ members = {}
  /\ phase' = "waiting"
  /\ UNCHANGED <<members, readied>>

RosterNext ==
  \/ \E p \in Players : Enter(p) \/ ReadyUpMember(p) \/ Exit(p)
  \/ DropUnready
  \/ Unready
  \/ Assemble
  \/ Abandon
  \/ BeginGame
  \/ HandOver
  \/ Reopen

RosterSpec == RosterInit /\ [][RosterNext]_rosterVars
=============================================================================
