---------------------------- MODULE MCMatchmaking ----------------------------
(* Instances of Matchmaking for TLC.                                         *)
EXTENDS Matchmaking, TLC

CONSTANTS u1, u2, u3, k1, k2, h1, h2

Symmetry == Permutations(Users) \cup Permutations(Handlers)
=============================================================================
