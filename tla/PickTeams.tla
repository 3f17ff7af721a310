----------------------------- MODULE PickTeams -----------------------------
(***************************************************************************)
(* The team picker, src/games/utils/pick-teams.ts: from the players of a   *)
(* game, with their classes and skills, and the pairs of friends, to the   *)
(* two teams.                                                              *)
(*                                                                         *)
(* A line-up is the set of players of either team; the order within a team *)
(* and which of two equally good line-ups sorts first are left open.  Both *)
(* teams have as many players, so that comparing the sums of their skills  *)
(* is comparing the averages.                                              *)
(***************************************************************************)
EXTENDS Integers, FiniteSets, FiniteSetsExt

CONSTANTS
  FourOf,    \* classes with two players in a team
  TwoOf,     \* classes with one
  Medic,     \* the class that may make friends
  MaxSkill   \* bound: skills are 0..MaxSkill

ASSUME PickTeamsAssumption ==
  /\ IsFiniteSet(FourOf) /\ IsFiniteSet(TwoOf)
  /\ FourOf \cap TwoOf = {}
  /\ Medic \in TwoOf
  /\ MaxSkill \in Nat

VARIABLES
  skill,    \* the skill of every player
  friends,  \* TeamOverrides.friends
  teams     \* what pickTeams() returned

vars == <<skill, friends, teams>>

GameClasses == FourOf \cup TwoOf

\* A player is his class and his rank among the players of the class, which is
\* arbitrary: create() shuffles the players.
Players == (FourOf \X (1..4)) \cup (TwoOf \X (1..2))

Medics == {p \in Players : p[1] = Medic}

NotPicked == <<{}, {}>>

\* The friendships FriendsService hands over, when no friend is a medic himself.
Friendships ==
  {F \in SUBSET (Medics \X (Players \ Medics)) :
     \A f, g \in F : f # g => f[1] # g[1] /\ f[2] # g[2]}

-----------------------------------------------------------------------------
\* Mutant: one way only.
SplitTwoOneWay(a, b) == {<<{a}, {b}>>}

\* Both ways to split the two players of a class.
SplitTwo(a, b) == {<<{a}, {b}>>, <<{b}, {a}>>}

\* The four ways the code lists, of the six there are.
SplitFour(a, b, c, d) ==
  {<<{a, b}, {c, d}>>, <<{a, c}, {b, d}>>, <<{a, d}, {b, c}>>, <<{c, d}, {a, b}>>}

GameClassLineups(c) ==
  IF c \in FourOf THEN SplitFour(<<c, 1>>, <<c, 2>>, <<c, 3>>, <<c, 4>>)
                  ELSE SplitTwo(<<c, 1>>, <<c, 2>>)

\* One of them for every class.
PossibleLineups ==
  LET choices == {f \in [GameClasses -> UNION {GameClassLineups(c) : c \in GameClasses}] :
                    \A c \in GameClasses : f[c] \in GameClassLineups(c)}
  IN  {<<UNION {f[c][1] : c \in GameClasses}, UNION {f[c][2] : c \in GameClasses}>> :
         f \in choices}

\* Mutant: friends are only looked for in the first team.
RespectsSomeOverrides(lineup, F) ==
  \A f \in F : f[1] \notin lineup[1] \/ f[2] \notin lineup[1]

\* No two friends are in different teams.
RespectsOverrides(lineup, F) ==
  \A f \in F : \E t \in 1..2 : {f[1], f[2]} \cap lineup[t] = {}

Skill(team) == MapThenSumSet(LAMBDA p : skill[p], team)

\* Mutant: the difference is not absolute.
SignedDifference(lineup) == Skill(lineup[1]) - Skill(lineup[2])

SkillDifference(lineup) ==
  LET d == Skill(lineup[1]) - Skill(lineup[2])
  IN  IF d < 0 THEN -d ELSE d

Candidates == {l \in PossibleLineups : RespectsOverrides(l, friends)}

-----------------------------------------------------------------------------
Init ==
  /\ skill \in [Players -> 0..MaxSkill]
  /\ friends \in Friendships
  /\ teams = NotPicked

\* pickTeams(): the first line-up after sorting; without any, the call throws.
PickTeams ==
  /\ teams = NotPicked
  /\ LET least == Min({SkillDifference(l) : l \in Candidates})
     IN  teams' \in {l \in Candidates : SkillDifference(l) = least}
  /\ UNCHANGED <<skill, friends>>

Spec == Init /\ [][PickTeams]_vars

-----------------------------------------------------------------------------
\* Every way to make two even teams of the players.
EvenLineups ==
  {<<T, Players \ T>> :
     T \in {S \in SUBSET Players :
              \A c \in GameClasses :
                Cardinality({p \in S : p[1] = c}) = IF c \in FourOf THEN 2 ELSE 1}}

\* Whatever friends the medics have, there is a line-up that keeps them together, so that
\* create() does not fail for want of one; in every line-up that is considered everybody
\* plays, in one of the teams, and every class is split in two halves.
LineupIsFound == Candidates # {} /\ Candidates \subseteq EvenLineups

\* Friends play together.
FriendsStayTogether ==
  teams # NotPicked => \A f \in friends : f[1] \in teams[1] <=> f[2] \in teams[1]

Gap(lineup) == Max({Skill(lineup[1]) - Skill(lineup[2]),
                    Skill(lineup[2]) - Skill(lineup[1])})

\* Exchanging the two players of a class does not make the teams more even, unless
\* it separates friends.
NoExchangeHelps ==
  teams # NotPicked =>
    \A c \in TwoOf :
      LET pair == {p \in Players : p[1] = c}
          exchanged == [t \in 1..2 |-> (teams[t] \ pair) \cup (teams[3 - t] \cap pair)]
      IN  RespectsOverrides(exchanged, friends) => Gap(teams) <= Gap(exchanged)

-----------------------------------------------------------------------------
\* "From the given pool of players make two teams that make the smallest average
\* skill difference" (pick-teams.ts:165), among those that keep friends together:
\* so it is with one class of four players, and not with two.
DifferenceIsSmallest ==
  teams # NotPicked =>
    \A l \in EvenLineups :
      RespectsOverrides(l, friends) => Gap(teams) <= Gap(l)
=============================================================================
