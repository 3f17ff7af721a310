------------------------------ MODULE MCQueue ------------------------------
(* Instances of Queue for TLC: two slots, so that the last player to join or to
   ready up is not the first one, and two players to fill them or three, so that
   one of them is left out. *)
EXTENDS Queue, TLC

CONSTANTS p1, p2, p3, s1, s2, l1, l2

Symmetry == Permutations(Players)

=============================================================================
