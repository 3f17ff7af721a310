-------------------------- MODULE PickTeamsProofs --------------------------
(***************************************************************************)
(* What pick-teams.ts promises whatever classes, skills and friends there  *)
(* are: a line-up is found, it is even, friends play together, and no      *)
(* exchange of two players of a class makes the teams more even.           *)
(***************************************************************************)
EXTENDS PickTeams, FiniteSetTheorems, WellFoundedInduction, TLAPS

-----------------------------------------------------------------------------
(* The players of a class and the ways to split them.                      *)

OfClass(S, c) == {p \in S : p[1] = c}

Half(c) == IF c \in FourOf THEN 2 ELSE 1

\* What makes l a way to split the players of the class c in two halves.
Splits(l, c) ==
  /\ DOMAIN l = 1..2
  /\ l[1] \cup l[2] = OfClass(Players, c)
  /\ l[1] \cap l[2] = {}
  /\ Cardinality(l[1]) = Half(c)

LEMMA Pair == ASSUME NEW a, NEW b, a # b
              PROVE Cardinality({a, b}) = 2
  <1>1. IsFiniteSet({a}) /\ Cardinality({a}) = 1
    BY FS_Singleton
  <1>2. {a, b} = {a} \cup {b} /\ b \notin {a}
    OBVIOUS
  <1> QED BY <1>1, <1>2, FS_AddElement

LEMMA Numbers == 1..4 = {1, 2, 3, 4} /\ 1..2 = {1, 2}
  OBVIOUS

\* The players of a class are four or two.
LEMMA ClassMembers ==
  ASSUME NEW c \in GameClasses
  PROVE  OfClass(Players, c) =
           IF c \in FourOf THEN {<<c, 1>>, <<c, 2>>, <<c, 3>>, <<c, 4>>}
                           ELSE {<<c, 1>>, <<c, 2>>}
  BY PickTeamsAssumption, Numbers DEF PickTeamsAssumption, OfClass, Players, GameClasses

\* Every line-up of a class is such a split.
LEMMA LineupsSplit ==
  ASSUME NEW c \in GameClasses, NEW l \in GameClassLineups(c)
  PROVE  Splits(l, c)
  <1>1. CASE c \in FourOf
    <2> DEFINE p1 == <<c, 1>>  p2 == <<c, 2>>  p3 == <<c, 3>>  p4 == <<c, 4>>
    <2>1. OfClass(Players, c) = {p1, p2, p3, p4} /\ Half(c) = 2
      BY <1>1, ClassMembers DEF Half
    <2>2. l \in SplitFour(p1, p2, p3, p4)
      BY <1>1 DEF GameClassLineups
    <2>3. p1 # p2 /\ p1 # p3 /\ p1 # p4 /\ p2 # p3 /\ p2 # p4 /\ p3 # p4
      OBVIOUS
    <2> HIDE DEF p1, p2, p3, p4
    <2>4. /\ Cardinality({p1, p2}) = 2 /\ Cardinality({p1, p3}) = 2
          /\ Cardinality({p1, p4}) = 2 /\ Cardinality({p3, p4}) = 2
      BY <2>3, Pair
    <2>5. /\ DOMAIN l = 1..2 
          /\ \/ l[1] = {p1, p2} /\ l[2] = {p3, p4}
             \/ l[1] = {p1, p3} /\ l[2] = {p2, p4}
             \/ l[1] = {p1, p4} /\ l[2] = {p2, p3}
             \/ l[1] = {p3, p4} /\ l[2] = {p1, p2}
      BY <2>2, Numbers DEF SplitFour
    <2> QED BY <2>1, <2>3, <2>4, <2>5 DEF Splits
  <1>2. CASE c \notin FourOf
    <2> DEFINE p1 == <<c, 1>>  p2 == <<c, 2>>
    <2>1. OfClass(Players, c) = {p1, p2} /\ Half(c) = 1
      BY <1>2, ClassMembers DEF Half
    <2>2. l \in SplitTwo(p1, p2)
      BY <1>2 DEF GameClassLineups
    <2>3. p1 # p2
      OBVIOUS
    <2> HIDE DEF p1, p2
    <2>4. Cardinality({p1}) = 1 /\ Cardinality({p2}) = 1
      BY FS_Singleton
    <2>5. /\ DOMAIN l = 1..2 
          /\ \/ l[1] = {p1} /\ l[2] = {p2}
             \/ l[1] = {p2} /\ l[2] = {p1}
      BY <2>2, Numbers DEF SplitTwo
    <2> QED BY <2>1, <2>3, <2>4, <2>5 DEF Splits
  <1> QED BY <1>1, <1>2

-----------------------------------------------------------------------------
(* A line-up of the game.                                                  *)

\* What an even line-up comes to.
Even(l) ==
  /\ l = <<l[1], l[2]>>
  /\ l[1] \subseteq Players
  /\ l[2] = Players \ l[1]
  /\ \A c \in GameClasses : Cardinality(OfClass(l[1], c)) = Half(c)

\* A choice of a line-up for every class is an even line-up of the game.
LEMMA ChoiceIsEven ==
  ASSUME NEW f, DOMAIN f = GameClasses,
         \A c \in GameClasses : f[c] \in GameClassLineups(c)
  PROVE  Even(<<UNION {f[c][1] : c \in GameClasses}, UNION {f[c][2] : c \in GameClasses}>>)
  <1> DEFINE T == UNION {f[c][1] : c \in GameClasses}
             U == UNION {f[c][2] : c \in GameClasses}
  <1>1. \A c \in GameClasses : Splits(f[c], c)
    BY LineupsSplit
  <1>2. \A c \in GameClasses : OfClass(T, c) = f[c][1]
    BY <1>1 DEF Splits, OfClass
  <1>3. \A p \in Players : p[1] \in GameClasses
    BY DEF Players, GameClasses
  <1>4. T \subseteq Players /\ U \subseteq Players
    BY <1>1 DEF Splits, OfClass
  <1>5. ASSUME NEW p \in Players PROVE p \in U <=> p \notin T
    <2>1. p \in OfClass(Players, p[1]) /\ p[1] \in GameClasses
      BY <1>3 DEF OfClass
    <2>2. \A c \in GameClasses : p \in f[c][1] \cup f[c][2] => c = p[1]
      BY <1>1 DEF Splits, OfClass
    <2>3. p \in T <=> p \in f[p[1]][1]
      BY <2>1, <2>2
    <2>4. p \in U <=> p \in f[p[1]][2]
      BY <2>1, <2>2
    <2> QED BY <1>1, <2>1, <2>3, <2>4 DEF Splits
  <1>6. U = Players \ T
    BY <1>4, <1>5
  <1>7. \A c \in GameClasses : Cardinality(OfClass(T, c)) = Half(c)
    BY <1>1, <1>2 DEF Splits
  <1> HIDE DEF T, U
  <1>8. Even(<<T, U>>)
    BY <1>4, <1>6, <1>7 DEF Even
  <1> QED BY <1>8 DEF T, U

\* So is every line-up the code enumerates.
LEMMA LineupsAreEven == \A l \in PossibleLineups : Even(l)
  <1> SUFFICES ASSUME NEW l \in PossibleLineups PROVE Even(l)
    OBVIOUS
  <1>1. PICK f :
          /\ DOMAIN f = GameClasses
          /\ \A c \in GameClasses : f[c] \in GameClassLineups(c)
          /\ l = <<UNION {f[c][1] : c \in GameClasses}, UNION {f[c][2] : c \in GameClasses}>>
    BY DEF PossibleLineups
  <1> QED BY <1>1, ChoiceIsEven

LEMMA EvenLineupsAreEven == ASSUME NEW l, Even(l) PROVE l \in EvenLineups
  <1>1. \A c \in GameClasses :
          Cardinality({p \in l[1] : p[1] = c}) = IF c \in FourOf THEN 2 ELSE 1
    BY DEF Even, OfClass, Half
  <1>2. l = <<l[1], Players \ l[1]>> /\ l[1] \in SUBSET Players
    BY DEF Even
  <1> QED BY <1>1, <1>2 DEF EvenLineups

-----------------------------------------------------------------------------
(* A line-up with the medic o in the first team and his friend with him,   *)
(* and the other medic's friend in the second.                             *)

\* A friend of the players of the class c plays where his medic does.
Together(l, c, o) ==
  \A f \in friends : f[2][1] = c =>
    IF f[1] = <<Medic, o>> THEN f[2] \in l[1] ELSE f[2] \in l[2]

\* The split of a class of four that no ordered split of the code puts right: the first
\* medic's friend is the second, the other medic's friend the first of the class.
Crossed ==
  \E c \in FourOf : <<<<Medic, 1>>, <<c, 2>>>> \in friends /\ <<<<Medic, 2>>, <<c, 1>>>> \in friends

First == IF Crossed THEN 2 ELSE 1

LEMMA FriendsOf ==
  ASSUME friends \in Friendships, NEW f \in friends
  PROVE  /\ f = <<f[1], f[2]>>
         /\ f[1] = <<Medic, 1>> \/ f[1] = <<Medic, 2>>
         /\ f[2] \in Players /\ f[2][1] # Medic /\ f[2][1] \in GameClasses
         /\ \A g \in friends : f # g => f[1] # g[1] /\ f[2] # g[2]
  <1>1. f \in Medics \X (Players \ Medics)
    BY DEF Friendships
  <1>2. \A p \in Medics : p = <<Medic, 1>> \/ p = <<Medic, 2>>
    BY PickTeamsAssumption, Numbers DEF PickTeamsAssumption, Medics, Players
  <1>3. \A p \in Players : p[1] \in GameClasses
    BY DEF Players, GameClasses
  <1>4. \A p \in Players \ Medics : p[1] # Medic
    BY DEF Medics
  <1>5. \A g \in friends : f # g => f[1] # g[1] /\ f[2] # g[2]
    BY DEF Friendships
  <1> QED BY <1>1, <1>2, <1>3, <1>4, <1>5

\* Every class has a line-up that keeps the friends with their medics.
LEMMA ClassKeepsFriends ==
  ASSUME friends \in Friendships, NEW c \in GameClasses, c # Medic
  PROVE  \E l \in GameClassLineups(c) : Together(l, c, First)
  <1> DEFINE p1 == <<c, 1>>  p2 == <<c, 2>>  p3 == <<c, 3>>  p4 == <<c, 4>>
             m1 == <<Medic, 1>>  m2 == <<Medic, 2>>
  <1>1. m1 # m2 /\ p1 # p2 /\ p1 # p3 /\ p1 # p4 /\ p2 # p3 /\ p2 # p4 /\ p3 # p4
    OBVIOUS
  <1>2. \A f \in friends : f[1] = m1 \/ f[1] = m2
    BY FriendsOf
  <1>3. \A f, g \in friends : f # g => f[1] # g[1] /\ f[2] # g[2]
    BY FriendsOf
  <1>4. \A f \in friends : f = <<f[1], f[2]>>
    BY FriendsOf
  <1>5. CASE c \in FourOf
    <2>1. \A f \in friends : f[2][1] = c => f[2] \in {p1, p2, p3, p4}
      <3>1. OfClass(Players, c) = {p1, p2, p3, p4}
        BY <1>5, ClassMembers
      <3> QED BY <3>1, FriendsOf DEF OfClass
    <2>2. GameClassLineups(c) = SplitFour(p1, p2, p3, p4)
      BY <1>5 DEF GameClassLineups
    <2> DEFINE a == {f[2] : f \in {g \in friends : g[2][1] = c /\ g[1] = <<Medic, First>>}}
               b == {f[2] : f \in {g \in friends : g[2][1] = c /\ g[1] # <<Medic, First>>}}
    <2>3. a \cap b = {} /\ a \subseteq {p1, p2, p3, p4} /\ b \subseteq {p1, p2, p3, p4}
      BY <1>3, <2>1
    <2>4. \A x, y \in a : x = y
      BY <1>3
    <2>5. \A x, y \in b : x = y
      BY <1>1, <1>2, <1>3 DEF First
    <2>6. ~ (p2 \in a /\ p1 \in b)
      <3> SUFFICES ASSUME p2 \in a, p1 \in b PROVE FALSE
        OBVIOUS
      <3>1. PICK f \in friends : f[2] = p2 /\ f[1] = <<Medic, First>>
        OBVIOUS
      <3>2. PICK g \in friends : g[2] = p1 /\ g[1] # <<Medic, First>>
        OBVIOUS
      <3>3. CASE Crossed
        <4>1. PICK d \in FourOf : <<m1, <<d, 2>>>> \in friends /\ <<m2, <<d, 1>>>> \in friends
          BY <3>3 DEF Crossed
        <4>2. f[1] = m2 /\ g[1] = m1
          BY <1>2, <3>1, <3>2, <3>3 DEF First
        <4>3. f = <<m2, <<d, 1>>>>
          BY <1>3, <4>1, <4>2
        <4> QED BY <3>1, <4>3
      <3>4. CASE ~Crossed
        <4>1. f[1] = m1 /\ g[1] = m2
          BY <1>2, <3>1, <3>2, <3>4 DEF First
        <4>2. f = <<m1, p2>> /\ g = <<m2, p1>>
          BY <1>4, <3>1, <3>2, <4>1
        <4> QED BY <1>5, <3>4, <4>2 DEF Crossed
      <3> QED BY <3>3, <3>4
    <2>7. \A l : Together(l, c, First) <=> a \subseteq l[1] /\ b \subseteq l[2]
      BY DEF Together
    <2>8. \E l \in SplitFour(p1, p2, p3, p4) : a \subseteq l[1] /\ b \subseteq l[2]
      <3> HIDE DEF a, b, p1, p2, p3, p4
      <3>1. /\ a = {} \/ a = {p1} \/ a = {p2} \/ a = {p3} \/ a = {p4}
            /\ b = {} \/ b = {p1} \/ b = {p2} \/ b = {p3} \/ b = {p4}
        BY <2>3, <2>4, <2>5
      <3>2. (a \subseteq {p1, p2} /\ b \subseteq {p3, p4}) \/
            (a \subseteq {p1, p3} /\ b \subseteq {p2, p4}) \/
            (a \subseteq {p1, p4} /\ b \subseteq {p2, p3}) \/
            (a \subseteq {p3, p4} /\ b \subseteq {p1, p2})
        BY <1>1, <2>3, <2>6, <3>1
      <3> QED BY <3>2 DEF SplitFour
    <2> QED BY <2>2, <2>7, <2>8
  <1>6. CASE c \notin FourOf
    <2>1. \A f \in friends : f[2][1] = c => f[2] \in {p1, p2}
      <3>1. OfClass(Players, c) = {p1, p2}
        BY <1>6, ClassMembers
      <3> QED BY <3>1, FriendsOf DEF OfClass
    <2>2. GameClassLineups(c) = SplitTwo(p1, p2)
      BY <1>6 DEF GameClassLineups
    <2> DEFINE a == {f[2] : f \in {g \in friends : g[2][1] = c /\ g[1] = <<Medic, First>>}}
               b == {f[2] : f \in {g \in friends : g[2][1] = c /\ g[1] # <<Medic, First>>}}
    <2>3. a \cap b = {} /\ a \subseteq {p1, p2} /\ b \subseteq {p1, p2}
      BY <1>3, <2>1
    <2>4. \A x, y \in a : x = y
      BY <1>3
    <2>5. \A x, y \in b : x = y
      BY <1>1, <1>2, <1>3 DEF First
    <2>7. \A l : Together(l, c, First) <=> a \subseteq l[1] /\ b \subseteq l[2]
      BY DEF Together
    <2>8. \E l \in SplitTwo(p1, p2) : a \subseteq l[1] /\ b \subseteq l[2]
      <3> HIDE DEF a, b, p1, p2
      <3>2. (a \subseteq {p1} /\ b \subseteq {p2}) \/ (a \subseteq {p2} /\ b \subseteq {p1})
        BY <1>1, <2>3, <2>4, <2>5
      <3> QED BY <3>2 DEF SplitTwo
    <2> QED BY <2>2, <2>7, <2>8
  <1> QED BY <1>5, <1>6

\* The medics have a line-up with the first one chosen in the first team.
LEMMA MedicsApart ==
  ASSUME friends \in Friendships
  PROVE  \E l \in GameClassLineups(Medic) :
           l = <<{<<Medic, First>>}, {<<Medic, 3 - First>>}>> /\ Together(l, Medic, First)
  <1>1. Medic \notin FourOf
    BY PickTeamsAssumption DEF PickTeamsAssumption
  <1>2. First = 1 \/ First = 2
    BY DEF First
  <1>3. <<{<<Medic, First>>}, {<<Medic, 3 - First>>}>> \in GameClassLineups(Medic)
    BY <1>1, <1>2 DEF GameClassLineups, SplitTwo
  <1>4. \A f \in friends : f[2][1] # Medic
    BY FriendsOf
  <1> QED BY <1>3, <1>4 DEF Together

LEMMA SomeLineupRespects == ASSUME friends \in Friendships PROVE Candidates # {}
  <1> DEFINE Right(l, c) ==
               /\ Together(l, c, First)
               /\ c = Medic => l = <<{<<Medic, First>>}, {<<Medic, 3 - First>>}>>
             f == [c \in GameClasses |-> CHOOSE l \in GameClassLineups(c) : Right(l, c)]
             T == UNION {f[c][1] : c \in GameClasses}
             U == UNION {f[c][2] : c \in GameClasses}
  <1>1. ASSUME NEW c \in GameClasses
        PROVE  f[c] \in GameClassLineups(c) /\ Right(f[c], c)
    <2>1. \E l \in GameClassLineups(c) : Right(l, c)
      BY ClassKeepsFriends, MedicsApart
    <2> QED BY <2>1
  <1>2. DOMAIN f = GameClasses
    OBVIOUS
  <1>3. \A c \in GameClasses : Together(f[c], c, First)
    BY <1>1
  <1>4. f[Medic] = <<{<<Medic, First>>}, {<<Medic, 3 - First>>}>> /\ Medic \in GameClasses
    BY <1>1, PickTeamsAssumption DEF PickTeamsAssumption, GameClasses
  <1>5. \A c \in GameClasses : f[c] \in GameClassLineups(c)
    BY <1>1
  <1>6. f \in [GameClasses -> UNION {GameClassLineups(c) : c \in GameClasses}]
    BY <1>5
  <1>7. <<T, U>> \in PossibleLineups
    BY <1>5, <1>6 DEF PossibleLineups
  <1> HIDE DEF f
  <1>8. Even(<<T, U>>)
    BY <1>7, LineupsAreEven
  <1>9. <<Medic, First>> \in T /\ <<Medic, 3 - First>> \in U
    BY <1>4
  <1>10. First = 1 \/ First = 2
    BY DEF First
  <1>11. ASSUME NEW g \in friends
         PROVE  \/ g[1] \in T /\ g[2] \in T
                \/ g[1] \in U /\ g[2] \in U
    <2>1. g[2][1] \in GameClasses /\ (g[1] = <<Medic, 1>> \/ g[1] = <<Medic, 2>>)
      BY FriendsOf
    <2>2. IF g[1] = <<Medic, First>> THEN g[2] \in T ELSE g[2] \in U
      BY <1>3, <2>1 DEF Together
    <2>3. g[1] # <<Medic, First>> => g[1] = <<Medic, 3 - First>>
      BY <1>10, <2>1
    <2> QED BY <1>9, <2>2, <2>3
  <1>12. T \cap U = {}
    BY <1>8 DEF Even
  <1>13. RespectsOverrides(<<T, U>>, friends)
    <2> HIDE DEF T, U
    <2> QED BY <1>11, <1>12, Numbers DEF RespectsOverrides
  <1> QED BY <1>7, <1>13 DEF Candidates

-----------------------------------------------------------------------------
(* Line-ups and friends.                                                   *)

PickInv ==
  /\ friends \in Friendships
  /\ teams # NotPicked => teams \in Candidates

LEMMA PickInvInit == Init => PickInv
  BY DEF Init, PickInv

LEMMA PickInvNext == PickInv /\ [PickTeams]_vars => PickInv'
  <1> SUFFICES ASSUME PickInv, [PickTeams]_vars PROVE PickInv'
    OBVIOUS
  <1>1. CASE PickTeams
    <2>1. friends' = friends /\ teams' \in Candidates
      BY <1>1 DEF PickTeams
    <2> QED BY <2>1 DEF PickInv, Candidates
  <1>2. CASE UNCHANGED vars
    BY <1>2 DEF vars, PickInv, Candidates
  <1> QED BY <1>1, <1>2

\* create() never fails for want of a line-up, whatever friends its medics have made and
\* however many classes the game has: of the splits makeAllPossibleLineups() lists there is
\* always one that keeps the friends together.  Whatever line-up it considers is even.
THEOREM LineupsAreFound == Spec => []LineupIsFound
  <1>1. PickInv => LineupIsFound
    <2> SUFFICES ASSUME PickInv PROVE Candidates # {} /\ Candidates \subseteq EvenLineups
      BY DEF LineupIsFound
    <2>1. Candidates # {}
      BY SomeLineupRespects DEF PickInv
    <2>2. Candidates \subseteq EvenLineups
      BY LineupsAreEven, EvenLineupsAreEven DEF Candidates
    <2> QED BY <2>1, <2>2
  <1> QED BY <1>1, PickInvInit, PickInvNext, PTL DEF Spec

\* respectsOverrides() asks for a team without either friend; as everybody plays in one of
\* the teams, pickTeams() returns teams in which friends play together.
THEOREM FriendsPlayTogether == Spec => []FriendsStayTogether
  <1>1. PickInv => FriendsStayTogether
    <2> SUFFICES ASSUME PickInv, teams # NotPicked, NEW f \in friends
                 PROVE  f[1] \in teams[1] <=> f[2] \in teams[1]
      BY DEF FriendsStayTogether
    <2>1. teams \in PossibleLineups /\ RespectsOverrides(teams, friends)
      BY DEF PickInv, Candidates
    <2>2. f[1] \in Players /\ f[2] \in Players
      BY DEF PickInv, Friendships, Medics
    <2>3. teams[2] = Players \ teams[1]
      BY <2>1, LineupsAreEven DEF Even
    <2>4. {f[1], f[2]} \cap teams[1] = {} \/ {f[1], f[2]} \cap teams[2] = {}
      BY <2>1, Numbers DEF RespectsOverrides
    <2> QED BY <2>2, <2>3, <2>4
  <1> QED BY <1>1, PickInvInit, PickInvNext, PTL DEF Spec

-----------------------------------------------------------------------------
(* Sums of skills.  MapThenSumSet chooses its function among those that    *)
(* satisfy the recursion: that there is one, and that it takes integer     *)
(* values, is proved by a least counterexample.                            *)

Member(s) == CHOOSE x \in s : TRUE
Added(sk, g, s) == IF s = {} THEN 0 ELSE sk[Member(s)] + g[s \ {Member(s)}]
Adds(sk, S, g) == g = [s \in SUBSET S |-> Added(sk, g, s)]
Sum(sk, S) == (CHOOSE g : Adds(sk, S, g))[S]

LEMMA SkillIsSum == \A S : Skill(S) = Sum(skill, S)
  BY DEF Skill, MapThenSumSet, MapThenFoldSet, Sum, Adds, Added, Member

LEMMA LeastNatural ==
  ASSUME NEW T, T \subseteq Nat, T # {}
  PROVE  \E n \in T : \A m \in T : n <= m
  <1>1. PICK n \in T : \A m \in T : ~(<<m, n>> \in OpToRel(<, Nat))
    BY NatLessThanWellFounded, WFMin
  <1>2. ASSUME NEW m \in T PROVE n <= m
    <2>1. <<m, n>> \in Nat \X Nat
      OBVIOUS
    <2>2. ~(m < n)
      BY <1>1, <2>1 DEF OpToRel
    <2> QED BY <2>2
  <1> QED BY <1>2

\* On the sets of up to n elements some function satisfies the recursion.
AddsUpTo(sk, S, n) ==
  \E g : /\ DOMAIN g = SUBSET S
         /\ \A s \in SUBSET S : Cardinality(s) <= n => g[s] = Added(sk, g, s)

LEMMA AddsNext ==
  ASSUME NEW sk, NEW S, IsFiniteSet(S), NEW n \in Nat, AddsUpTo(sk, S, n)
  PROVE  AddsUpTo(sk, S, n + 1)
  <1>1. PICK g : /\ DOMAIN g = SUBSET S
                 /\ \A s \in SUBSET S : Cardinality(s) <= n => g[s] = Added(sk, g, s)
    BY DEF AddsUpTo
  <1> DEFINE h == [s \in SUBSET S |-> Added(sk, g, s)]
  <1>2. ASSUME NEW s \in SUBSET S, Cardinality(s) <= n + 1 PROVE h[s] = Added(sk, h, s)
    <2>1. CASE s = {}
      BY <2>1 DEF Added
    <2>2. CASE s # {}
      <3>1. Member(s) \in s
        BY <2>2 DEF Member
      <3>2. IsFiniteSet(s) /\ Cardinality(s) \in Nat
        BY FS_Subset, FS_CardinalityType
      <3> DEFINE t == s \ {Member(s)}
      <3>3. Cardinality(t) = Cardinality(s) - 1
        BY <3>1, <3>2, FS_RemoveElement
      <3>4. h[t] = g[t]
        <4>1. Cardinality(t) <= n /\ t \in SUBSET S
          BY <1>2, <3>2, <3>3
        <4> QED BY <1>1, <4>1
      <3>5. h[s] = Added(sk, g, s)
        OBVIOUS
      <3> HIDE DEF h
      <3> QED BY <2>2, <3>4, <3>5 DEF Added
    <2> QED BY <2>1, <2>2
  <1>3. DOMAIN h = SUBSET S
    OBVIOUS
  <1> HIDE DEF h
  <1> QED BY <1>2, <1>3 DEF AddsUpTo

LEMMA SomeAdds ==
  ASSUME NEW sk, NEW S, IsFiniteSet(S)
  PROVE  \E g : Adds(sk, S, g)
  <1> DEFINE Bad == {n \in Nat : ~AddsUpTo(sk, S, n)}
  <1>1. 0 \notin Bad
    <2> DEFINE h == [s \in SUBSET S |-> 0]
    <2>1. ASSUME NEW s \in SUBSET S, Cardinality(s) <= 0 PROVE h[s] = Added(sk, h, s)
      <3>1. IsFiniteSet(s) /\ Cardinality(s) \in Nat
        BY FS_Subset, FS_CardinalityType
      <3>2. s = {}
        BY <2>1, <3>1, FS_EmptySet
      <3> QED BY <3>2 DEF Added
    <2>2. DOMAIN h = SUBSET S
      OBVIOUS
    <2> HIDE DEF h
    <2> QED BY <2>1, <2>2 DEF AddsUpTo
  <1>2. Bad = {}
    <2> SUFFICES ASSUME Bad # {} PROVE FALSE
      OBVIOUS
    <2>1. PICK n \in Bad : \A m \in Bad : n <= m
      BY LeastNatural
    <2>2. n - 1 \in Nat /\ n - 1 \notin Bad
      BY <1>1, <2>1
    <2>3. AddsUpTo(sk, S, (n - 1) + 1)
      BY <2>2, AddsNext
    <2> QED BY <2>3
  <1>3. Cardinality(S) \in Nat
    BY FS_CardinalityType
  <1>4. AddsUpTo(sk, S, Cardinality(S))
    BY <1>2, <1>3
  <1>5. PICK g : /\ DOMAIN g = SUBSET S
                 /\ \A s \in SUBSET S :
                      Cardinality(s) <= Cardinality(S) => g[s] = Added(sk, g, s)
    BY <1>4 DEF AddsUpTo
  <1>6. \A s \in SUBSET S : g[s] = Added(sk, g, s)
    BY <1>5, FS_Subset
  <1> DEFINE h == [s \in SUBSET S |-> Added(sk, g, s)]
  <1>7. \A s \in SUBSET S : Added(sk, h, s) = Added(sk, g, s)
    <2>1. \A s \in SUBSET S : h[s] = g[s]
      BY <1>6
    <2> HIDE DEF h
    <2> QED BY <2>1 DEF Added
  <1>8. h = [s \in SUBSET S |-> Added(sk, h, s)]
    BY <1>7
  <1> QED BY <1>8 DEF Adds

\* The sum of finitely many integers is one.
LEMMA SumIsInteger ==
  ASSUME NEW sk, NEW S, IsFiniteSet(S), \A p \in S : sk[p] \in Int
  PROVE  Sum(sk, S) \in Int
  <1> DEFINE g == CHOOSE h : Adds(sk, S, h)
  <1>1. g = [s \in SUBSET S |-> Added(sk, g, s)]
    BY SomeAdds DEF Adds
  <1> HIDE DEF g
  <1> DEFINE Bad == {s \in SUBSET S : g[s] \notin Int}
             Sizes == {Cardinality(s) : s \in Bad}
  <1>2. Bad = {}
    <2> SUFFICES ASSUME Bad # {} PROVE FALSE
      OBVIOUS
    <2>1. \A s \in SUBSET S : IsFiniteSet(s) /\ Cardinality(s) \in Nat
      BY FS_Subset, FS_CardinalityType
    <2>2. PICK s \in Bad : \A t \in Bad : Cardinality(s) <= Cardinality(t)
      <3>1. Sizes \subseteq Nat /\ Sizes # {}
        BY <2>1
      <3>2. PICK n \in Sizes : \A m \in Sizes : n <= m
        BY <3>1, LeastNatural
      <3> QED BY <3>2
    <2>3. g[s] = Added(sk, g, s)
      BY <1>1
    <2>4. s # {}
      BY <2>3 DEF Added
    <2>5. Member(s) \in s
      BY <2>4 DEF Member
    <2> DEFINE t == s \ {Member(s)}
    <2>6. t \in SUBSET S /\ Cardinality(t) = Cardinality(s) - 1
      BY <2>1, <2>5, FS_RemoveElement
    <2>7. t \notin Bad
      BY <2>1, <2>2, <2>6
    <2>8. g[t] \in Int /\ sk[Member(s)] \in Int
      BY <2>5, <2>6, <2>7
    <2> QED BY <2>3, <2>4, <2>8 DEF Added
  <1>3. g[S] \in Int
    BY <1>2
  <1> QED BY <1>3 DEF Sum, g

-----------------------------------------------------------------------------
(* The least difference.                                                   *)

Distance(a, b) == IF a - b < 0 THEN -(a - b) ELSE a - b

Difference(sk, l) == Distance(Sum(sk, l[1]), Sum(sk, l[2]))

LEMMA DifferenceIs == \A l : SkillDifference(l) = Difference(skill, l)
  BY SkillIsSum DEF SkillDifference, Difference, Distance

LEMMA GapIs ==
  ASSUME NEW l, Sum(skill, l[1]) \in Int, Sum(skill, l[2]) \in Int
  PROVE  Gap(l) = Difference(skill, l)
  <1> DEFINE a == Sum(skill, l[1])  b == Sum(skill, l[2])
  <1>1. a \in Int /\ b \in Int
    OBVIOUS
  <1>2. Gap(l) = Max({a - b, b - a})
    BY SkillIsSum DEF Gap
  <1>3. Difference(skill, l) = Distance(a, b)
    BY DEF Difference
  <1> HIDE DEF a, b
  <1>4. Max({a - b, b - a}) = Distance(a, b)
    <2>1. \A x \in {a - b, b - a} : Distance(a, b) >= x
      BY <1>1 DEF Distance
    <2>2. Distance(a, b) \in {a - b, b - a}
      BY <1>1 DEF Distance
    <2>3. \A x \in {a - b, b - a} : (\A y \in {a - b, b - a} : x >= y) => x = Distance(a, b)
      BY <1>1, <2>1, <2>2
    <2> QED BY <2>1, <2>2, <2>3 DEF Max
  <1> QED BY <1>2, <1>3, <1>4

LEMMA PlayersFinite == IsFiniteSet(Players)
  <1>1. IsFiniteSet(1..4) /\ IsFiniteSet(1..2)
    <2>1. 1 \in Int /\ 2 \in Int /\ 4 \in Int
      OBVIOUS
    <2> QED BY ONLY <2>1, FS_Interval
  <1>2. IsFiniteSet(FourOf \X (1..4)) /\ IsFiniteSet(TwoOf \X (1..2))
    BY <1>1, FS_Product, PickTeamsAssumption DEF PickTeamsAssumption
  <1> QED BY <1>2, FS_Union DEF Players

LEMMA SumsOfLineups ==
  ASSUME skill \in [Players -> 0..MaxSkill], NEW l \in PossibleLineups
  PROVE  /\ Sum(skill, l[1]) \in Int /\ Sum(skill, l[2]) \in Int
         /\ Difference(skill, l) \in Nat
  <1>1. l[1] \subseteq Players /\ l[2] \subseteq Players
    BY LineupsAreEven DEF Even
  <1>2. IsFiniteSet(l[1]) /\ IsFiniteSet(l[2])
    BY <1>1, PlayersFinite, FS_Subset
  <1>3. \A p \in Players : skill[p] \in Int
    BY PickTeamsAssumption DEF PickTeamsAssumption
  <1>4. Sum(skill, l[1]) \in Int /\ Sum(skill, l[2]) \in Int
    BY <1>1, <1>2, <1>3, SumIsInteger
  <1> QED BY <1>4 DEF Difference, Distance

LEMMA MinIsLeast ==
  ASSUME NEW S, S \subseteq Nat, S # {}
  PROVE  Min(S) \in S /\ \A x \in S : Min(S) <= x
  BY LeastNatural DEF Min

\* The teams are the most even ones of the line-ups that keep friends together.
LeastInv ==
  /\ PickInv
  /\ skill \in [Players -> 0..MaxSkill]
  /\ teams # NotPicked =>
       \A l \in Candidates : Difference(skill, teams) <= Difference(skill, l)

LEMMA LeastInvNext == LeastInv /\ [PickTeams]_vars => LeastInv'
  <1> SUFFICES ASSUME LeastInv, [PickTeams]_vars PROVE LeastInv'
    OBVIOUS
  <1>1. PickInv'
    BY PickInvNext DEF LeastInv
  <1>2. CASE PickTeams
    <2> DEFINE D == {SkillDifference(l) : l \in Candidates}
    <2>1. /\ skill' = skill /\ friends' = friends
          /\ teams' \in {l \in Candidates : SkillDifference(l) = Min(D)}
      BY <1>2 DEF PickTeams
    <2>2. PICK t \in Candidates : teams' = t /\ SkillDifference(t) = Min(D)
      BY <2>1
    <2>3. \A l \in Candidates : SkillDifference(l) \in Nat
      BY SumsOfLineups, DifferenceIs DEF LeastInv, Candidates
    <2>4. D \subseteq Nat /\ D # {}
      BY <2>2, <2>3
    <2>5. \A l \in Candidates : SkillDifference(t) <= SkillDifference(l)
      BY <2>2, <2>4, MinIsLeast
    <2>6. \A l \in Candidates : Difference(skill, t) <= Difference(skill, l)
      BY <2>5, DifferenceIs
    <2>7. Candidates' = Candidates
      BY <2>1 DEF Candidates
    <2> QED BY <1>1, <2>1, <2>2, <2>6, <2>7 DEF LeastInv
  <1>3. CASE UNCHANGED vars
    <2>1. Candidates' = Candidates /\ skill' = skill /\ teams' = teams
      BY <1>3 DEF vars, Candidates
    <2> QED BY <1>1, <2>1 DEF LeastInv
  <1> QED BY <1>2, <1>3

\* Exchanging the two players of a class makes a line-up of a line-up.
LEMMA ExchangeIsLineup ==
  ASSUME NEW l \in PossibleLineups, NEW c \in TwoOf
  PROVE  [t \in 1..2 |-> (l[t] \ OfClass(Players, c)) \cup (l[3 - t] \cap OfClass(Players, c))]
           \in PossibleLineups
  <1> DEFINE pair == OfClass(Players, c)
             e1 == (l[1] \ pair) \cup (l[2] \cap pair)
             e2 == (l[2] \ pair) \cup (l[1] \cap pair)
  <1>1. c \in GameClasses /\ c \notin FourOf
    BY PickTeamsAssumption DEF PickTeamsAssumption, GameClasses
  <1>2. PICK f :
          /\ f \in [GameClasses -> UNION {GameClassLineups(d) : d \in GameClasses}]
          /\ \A d \in GameClasses : f[d] \in GameClassLineups(d)
          /\ l = <<UNION {f[d][1] : d \in GameClasses}, UNION {f[d][2] : d \in GameClasses}>>
    BY DEF PossibleLineups
  <1>3. \A d \in GameClasses : f[d][1] \cup f[d][2] = OfClass(Players, d)
    BY <1>2, LineupsSplit DEF Splits
  <1>4. \A d \in GameClasses : d # c => (f[d][1] \cup f[d][2]) \cap pair = {}
    BY <1>3 DEF OfClass
  <1> DEFINE h == [f EXCEPT ![c] = <<f[c][2], f[c][1]>>]
  <1>5. /\ h[c] = <<f[c][2], f[c][1]>>
        /\ \A d \in GameClasses : d # c => h[d] = f[d]
        /\ DOMAIN h = GameClasses
    BY <1>1, <1>2
  <1>6. h[c] \in GameClassLineups(c)
    <2>1. GameClassLineups(c) = SplitTwo(<<c, 1>>, <<c, 2>>)
      BY <1>1 DEF GameClassLineups
    <2> QED BY <1>1, <1>2, <1>5, <2>1 DEF SplitTwo
  <1>7. \A d \in GameClasses : h[d] \in GameClassLineups(d)
    BY <1>2, <1>5, <1>6
  <1>8. h \in [GameClasses -> UNION {GameClassLineups(d) : d \in GameClasses}]
    BY <1>1, <1>2, <1>7
  <1> HIDE DEF h
  <1>9. /\ l[1] = UNION {f[d][1] : d \in GameClasses}
        /\ l[2] = UNION {f[d][2] : d \in GameClasses}
    BY <1>2
  <1>10. l[1] \cap pair = f[c][1] /\ l[2] \cap pair = f[c][2]
    <2>1. f[c][1] \subseteq pair /\ f[c][2] \subseteq pair
      BY <1>1, <1>3
    <2> HIDE DEF pair
    <2> QED BY <1>1, <1>4, <1>9, <2>1
  <1>11. e1 = UNION {h[d][1] : d \in GameClasses}
    <2>1. h[c][1] = f[c][2]
      BY <1>5
    <2>2. l[1] \ pair = UNION {f[d][1] : d \in GameClasses \ {c}}
      <3>1. f[c][1] \subseteq pair
        BY <1>1, <1>3
      <3> HIDE DEF pair
      <3> QED BY <1>4, <1>9, <3>1
    <2> HIDE DEF pair
    <2>3. UNION {h[d][1] : d \in GameClasses} =
            (UNION {f[d][1] : d \in GameClasses \ {c}}) \cup f[c][2]
      BY <1>1, <1>5, <2>1
    <2> QED BY <1>10, <2>2, <2>3
  <1>12. e2 = UNION {h[d][2] : d \in GameClasses}
    <2>1. h[c][2] = f[c][1]
      BY <1>5
    <2>2. l[2] \ pair = UNION {f[d][2] : d \in GameClasses \ {c}}
      <3>1. f[c][2] \subseteq pair
        BY <1>1, <1>3
      <3> HIDE DEF pair
      <3> QED BY <1>4, <1>9, <3>1
    <2> HIDE DEF pair
    <2>3. UNION {h[d][2] : d \in GameClasses} =
            (UNION {f[d][2] : d \in GameClasses \ {c}}) \cup f[c][1]
      BY <1>1, <1>5, <2>1
    <2> QED BY <1>10, <2>2, <2>3
  <1>13. <<e1, e2>> \in PossibleLineups
    <2> HIDE DEF e1, e2
    <2> QED BY <1>7, <1>8, <1>11, <1>12 DEF PossibleLineups
  <1>14. [t \in 1..2 |-> (l[t] \ pair) \cup (l[3 - t] \cap pair)] = <<e1, e2>>
    <2> HIDE DEF pair
    <2> QED BY Numbers
  <1> QED BY <1>13, <1>14

LEMMA LeastInvInit == Init => LeastInv
  BY PickInvInit DEF Init, LeastInv

\* Sorting by the difference of the skills and taking the first line-up leaves nothing to
\* gain from exchanging the two players of a class, for any classes, skills and friends: the
\* line-ups the code lists have every exchange among them.
THEOREM ExchangesDoNotHelp == Spec => []NoExchangeHelps
  <1>1. LeastInv => NoExchangeHelps
    <2> SUFFICES ASSUME LeastInv, teams # NotPicked, NEW c \in TwoOf
                 PROVE  LET pair == {p \in Players : p[1] = c}
                            exchanged == [t \in 1..2 |->
                                            (teams[t] \ pair) \cup (teams[3 - t] \cap pair)]
                        IN  RespectsOverrides(exchanged, friends) => Gap(teams) <= Gap(exchanged)
      BY DEF NoExchangeHelps
    <2> DEFINE e == [t \in 1..2 |-> (teams[t] \ OfClass(Players, c))
                                      \cup (teams[3 - t] \cap OfClass(Players, c))]
    <2>1. teams \in PossibleLineups
      BY DEF LeastInv, PickInv, Candidates
    <2>2. e \in PossibleLineups
      BY <2>1, ExchangeIsLineup
    <2> HIDE DEF e
    <2>3. Gap(teams) = Difference(skill, teams) /\ Gap(e) = Difference(skill, e)
      BY <2>1, <2>2, SumsOfLineups, GapIs DEF LeastInv
    <2>4. RespectsOverrides(e, friends) => Gap(teams) <= Gap(e)
      BY <2>2, <2>3 DEF LeastInv, Candidates
    <2> QED BY <2>4 DEF e, OfClass
  <1> QED BY <1>1, LeastInvInit, LeastInvNext, PTL DEF Spec
=============================================================================
