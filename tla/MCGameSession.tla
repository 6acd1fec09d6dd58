--------------------------- MODULE MCGameSession ---------------------------
(* Small instances of a client and the game server for TLC.                 *)
EXTENDS GameSession

Symmetry == Permutations(Clients)
=============================================================================
