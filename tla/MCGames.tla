------------------------------ MODULE MCGames ------------------------------
(* Instances of Games for TLC: two places, one of them a medic's, and one or two
   players more than places, so that somebody is left to substitute. *)
EXTENDS Games, TLC

CONSTANTS p1, p2, p3, p4, g1, g2, g3

Symmetry == Permutations(Players) \cup Permutations(GameIds)

=============================================================================
