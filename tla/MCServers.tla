----------------------------- MODULE MCServers -----------------------------
(* Instances of Servers for TLC: as many servers as games, so that a game can have
   two and a server can have one game after the other. *)
EXTENDS Servers, TLC

CONSTANTS g1, g2, g3, s1, s2

Symmetry == Permutations(GameIds) \cup Permutations(ServerIds)
=============================================================================
