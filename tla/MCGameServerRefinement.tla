----------------------- MODULE MCGameServerRefinement -----------------------
(* Small instance of the refinement of the server's tick for TLC.           *)
EXTENDS GameServerRefinement
=============================================================================
