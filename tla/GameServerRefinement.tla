------------------------ MODULE GameServerRefinement ------------------------
(***************************************************************************)
(* The tick of GameServer, taken apart at its loops, implements the tick   *)
(* of GameServerWhole.  A history variable keeps what the server was when  *)
(* the tick began; until the tick ends that is what the abstract server    *)
(* still is.                                                               *)
(***************************************************************************)
EXTENDS GameServer

VARIABLE before     \* history: connections and matches when the tick began

InTick == pc # "network"

RefInit ==
    /\ Init
    /\ before = [conn |-> conn, inst |-> inst, games |-> games,
                 refused |-> refused, displaced |-> displaced]

RefNext ==
    /\ Next
    /\ before' = IF InTick THEN before
                 ELSE [conn |-> conn, inst |-> inst, games |-> games,
                       refused |-> refused, displaced |-> displaced]

RefSpec == RefInit /\ [][RefNext]_<<vars, before>>

Whole == INSTANCE GameServerWhole WITH
    conn      <- IF InTick THEN before.conn ELSE conn,
    inst      <- IF InTick THEN before.inst ELSE inst,
    games     <- IF InTick THEN before.games ELSE games,
    refused   <- IF InTick THEN before.refused ELSE refused,
    displaced <- IF InTick THEN before.displaced ELSE displaced,
    pc        <- IF Spinning THEN "fill" ELSE "network",
    current   <- None,
    remaining <- {},
    dead      <- {},
    cursor    <- 0

\* A tick of the server, step by step through its loops, does to connections
\* and matches what one whole tick does: matches do not disturb each other,
\* kicking while walking the list kicks exactly those who have not loaded, the
\* rounds of FillWithBots leave what they should, and a hang is a hang.
TickIsWhole == Whole!WholeSpec
=============================================================================
