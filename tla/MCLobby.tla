------------------------------ MODULE MCLobby ------------------------------
(* Instances of Lobby for TLC: two medics and another player, who can all be
   somebody's friend or move to another slot. *)
EXTENDS Lobby, TLC

CONSTANTS p1, p2, p3, m1, m2, m3, m4, s1, s2, s3

Symmetry == Permutations(Players) \cup Permutations(Maps)
              \cup Permutations(MedicSlots)

=============================================================================
