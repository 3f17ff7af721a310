------------------------------ MODULE Notices ------------------------------
(***************************************************************************)
(* What the admins' channel on Discord is told about the deeds of the      *)
(* admins (src/plugins/discord/services/admin-notifications.service): of a *)
(* player's name, roles, skill and ban, of a game and a place in it.       *)
(*                                                                         *)
(* A behaviour is about one of them, the aspect, which has two values.     *)
(* Discord is connected, and sends what it is given.                       *)
(***************************************************************************)
EXTENDS Naturals

CONSTANTS
  Deeds   \* bound: deeds at a time

VARIABLES
  aspect,    \* what the behaviour is about
  stored,    \* what is stored of it
  deeds,     \* the deeds in flight
  base,      \* what was stored when the first of the deeds in flight began
  noticed,   \* what the notices since then say is stored
  silent     \* what was stored since then by nobody of the admins

noticesVars == <<aspect, stored, deeds, base, noticed, silent>>

-----------------------------------------------------------------------------
Aspects == {"name", "roles", "skill", "state", "ban", "place"}

\* state: a game is interrupted (2); ban: the player is banned (2); place: its player
\* waits for a substitute (2)
Values == IF aspect \in {"state", "place"} THEN {2} ELSE {1, 2}

\* Future skills, a player who accepts the rules or asks for a substitute.
AnyoneMay == aspect \in {"name", "skill", "place"}

\* updatePlayer(), setPlayerSkill() and forceEnd() read what is stored first, and the
\* notices compare it with what is stored then.  A ban is created, and a substitute is
\* asked for, without.
Compared == aspect \notin {"ban", "place"}

Deed == [step : {"idle", "read", "write", "event", "notice"}, admin : BOOLEAN,
         value : {1, 2}, old : {1, 2}]

NoDeed == [step |-> "idle", admin |-> FALSE, value |-> 1, old |-> 1]

Settled == \A d \in Deeds : deeds[d].step = "idle"

NoticesTypeOK ==
  /\ aspect \in Aspects
  /\ {stored, base} \subseteq {1, 2}
  /\ deeds \in [Deeds -> Deed]
  /\ {noticed, silent} \subseteq SUBSET {1, 2}

NoticesInit ==
  /\ aspect \in Aspects
  /\ stored = 1
  /\ deeds = [d \in Deeds |-> NoDeed]
  /\ base = 1
  /\ noticed = {}
  /\ silent = {}

-----------------------------------------------------------------------------
\* Only a ban that has not ended is revoked.
BeginDeed(d, admin, value) ==
  /\ deeds[d].step = "idle"
  /\ admin \/ AnyoneMay
  /\ value \in Values
  /\ aspect = "ban" /\ value = 1 => stored = 2
  /\ deeds' = [deeds EXCEPT
       ![d] = [step |-> IF Compared THEN "read" ELSE "write", admin |-> admin,
               value |-> value, old |-> 1]]
  /\ IF Settled THEN base' = stored /\ noticed' = {} /\ silent' = {}
                ELSE UNCHANGED <<base, noticed, silent>>
  /\ UNCHANGED <<aspect, stored>>

ReadOld(d) ==
  /\ deeds[d].step = "read"
  /\ deeds' = [deeds EXCEPT ![d].old = stored, ![d].step = "write"]
  /\ UNCHANGED <<aspect, stored, base, noticed, silent>>

Update(d, old) ==
  LET value == deeds[d].value
      again == aspect = "place" /\ stored = value
  IN /\ deeds[d].step = "write"
     /\ stored' = value
     /\ deeds' = [deeds EXCEPT ![d] = IF again THEN NoDeed
                                     ELSE [@ EXCEPT !.step = "event", !.old = old]]
     /\ silent' = IF deeds[d].admin THEN silent ELSE silent \cup {value}
     /\ UNCHANGED <<aspect, base, noticed>>

\* Mutant: what is stored after the update is taken for the old value.
StoreThenRead(d) == Update(d, deeds[d].value)

\* Stored without a look at what is stored now: only who asks for a substitute again
\* is left alone, under the mutex.
Store(d) == Update(d, deeds[d].old)

\* onPlayerUpdates(), onPlayerSkillChanged(), onGameForceEnded() ... tell nothing if
\* there is no admin or no change.  The new roles are taken from the old player.
Announced(d) ==
  /\ deeds[d].admin
  /\ Compared => deeds[d].old # deeds[d].value
  /\ aspect # "roles"

\* The event, once the update is answered.
EmitEvent(d) ==
  /\ deeds[d].step = "event"
  /\ deeds' = [deeds EXCEPT ![d] = IF Announced(d) THEN [@ EXCEPT !.step = "notice"]
                                  ELSE NoDeed]
  /\ UNCHANGED <<aspect, stored, base, noticed, silent>>

\* The admin and the player have been read.
SendNotice(d) ==
  /\ deeds[d].step = "notice"
  /\ noticed' = noticed \cup {deeds[d].value}
  /\ deeds' = [deeds EXCEPT ![d] = NoDeed]
  /\ UNCHANGED <<aspect, stored, base, silent>>

\* A substitute comes, or the next game is played.
StartAnew ==
  /\ aspect \in {"place", "state"}
  /\ Settled
  /\ stored = 2
  /\ stored' = 1
  /\ base' = 1
  /\ UNCHANGED <<aspect, deeds, noticed, silent>>

NoticesNext ==
  \/ \E d \in Deeds : \/ \E admin \in BOOLEAN, value \in {1, 2} :
                           BeginDeed(d, admin, value)
                      \/ ReadOld(d) \/ Store(d) \/ EmitEvent(d) \/ SendNotice(d)
  \/ StartAnew

NoticesSpec == NoticesInit /\ [][NoticesNext]_noticesVars

-----------------------------------------------------------------------------
\* No change goes unnoticed: when overlapping deeds are over, what is stored is what
\* was stored before them, or a notice since then says that an admin has stored it, or
\* somebody else has stored it.  Two deeds may both have read the same old value, and
\* the later update may restore it.  The roles are left out: onPlayerUpdates() compares
\* the old ones with themselves (admin-notifications.service.ts:152-153).
ChangesAreNoticed ==
  Settled /\ aspect # "roles" => stored \in {base} \cup noticed \cup silent

=============================================================================
