---------------------------- MODULE MCGameServer ----------------------------
(* Small instances of the game server for TLC.                              *)
EXTENDS GameServer

Symmetry == Permutations(Clients) \cup Permutations(GameIds)
=============================================================================
