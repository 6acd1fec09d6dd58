-------------------------- MODULE GameServerWhole ---------------------------
(***************************************************************************)
(* The game server with a whole tick as one step: what a tick of           *)
(* GameServer comes to when nothing it meets is stale.  Messages and ticks *)
(* share a thread, so nobody sees a tick half done; GameServerRefinement   *)
(* checks that the tick taken apart at its loops has these results and no  *)
(* others.  Joins are by room and not by id, so that a kicked client is    *)
(* attached to the match that kicks it.                                    *)
(***************************************************************************)
EXTENDS GameServer

\* What FillWithBots may leave: after as many rounds as there are slots either
\* every team has a player or there is no slot left, and the loop hangs.
Filled(data) ==
    LET round[n \in Nat] ==
            IF n = 0 THEN {data}
            ELSE UNION {IF NeedsMorePlayersToStartGame(d)
                        THEN {AddAIPlayer(d, team) : team \in GetRandomTeam(d.players)}
                        ELSE {d} : d \in round[n - 1]}
    IN  round[MaxPlayers]

Expired(game) == game.state # "kPlaying" /\ game.loadTimer = 0

\* The clients RemovePlayersWhoHaventLoaded disconnects.
Kicked(game) ==
    IF Expired(game) /\ game.state = "kWaitingForLoad"
    THEN {e \in Range(game.entries) : ~e.loaded}
    ELSE {}

\* The entries that are not gone, in their order.
Staying(entries, gone) ==
    LET kept[n \in 0 .. Len(entries)] ==
            IF n = 0 THEN <<>>
            ELSE IF entries[n] \in gone THEN kept[n - 1]
            ELSE Append(kept[n - 1], entries[n])
    IN  kept[Len(entries)]

WithoutKicked(game) ==
    LET slots == {e.index : e \in Kicked(game)} IN
    [game EXCEPT
        !.entries = Staying(@, Kicked(game)),
        !.data.players = [s \in DOMAIN @ \ slots |-> @[s]]]

\* The match when it sends its snapshot, and whether its tick gets that far.
Advanced(game) ==
    LET counted == IF game.state = "kPlaying" THEN game ELSE CountDown(game)
        kept == WithoutKicked(game)
    IN  {ChangeState(g) :
            g \in IF Expired(game) THEN {[kept EXCEPT !.data = d] : d \in Filled(kept.data)}
                  ELSE {counted}}

MayHang(game) ==
    /\ Expired(game)
    /\ \E d \in Filled(WithoutKicked(game).data) : NeedsMorePlayersToStartGame(d)

TickChoices ==
    {f \in [DOMAIN games -> UNION {Advanced(games[g]) : g \in DOMAIN games}] :
        \A g \in DOMAIN games : f[g] \in Advanced(games[g])}

\* The tick in which match g sends the snapshot of f[g].
WholeTickWith(f) ==
    LET kicked == UNION {{e.client : e \in Kicked(games[g])} : g \in DOMAIN games}
        empty == {g \in DOMAIN games : GetNumPlayers(f[g]) = 0}
    IN  /\ InNetwork
        /\ \A g \in DOMAIN games : Expired(games[g]) => ~NeedsMorePlayersToStartGame(f[g].data)
        /\ games' = [g \in DOMAIN games \ empty |-> FinishUpdate(f[g])]
        /\ conn' = [c \in Clients |-> IF c \in kicked THEN "closing" ELSE conn[c]]
        /\ inst' = [c \in Clients |-> IF c \in kicked THEN None ELSE inst[c]]
        /\ UNCHANGED <<threadVars, broken, refused, displaced>>

WholeTick == \E f \in TickChoices : WholeTickWith(f)

\* A tick that never ends: FillWithBots has no slot left and a team to fill.
HangingTick ==
    /\ InNetwork
    /\ \E g \in DOMAIN games : MayHang(games[g])
    /\ pc' = "fill"
    /\ UNCHANGED <<connVars, matchVars, current, remaining, dead, cursor, broken>>

WholeNext == WholeTick \/ HangingTick \/ Network

WholeSpec == Init /\ [][WholeNext]_vars
=============================================================================
