--------------------------- MODULE GameController ---------------------------
(***************************************************************************)
(* The rules of one match, as operators on the replicated match data       *)
(* (GameInstanceData): who sits in which slot, whether the match has       *)
(* started, its two clocks and its result.  Translated from                *)
(* src/Game/GameController.refl.cpp and src/Game/GameNetworkData.refl.h    *)
(* for NET_MODE_SERVER_AUTH with NET_USE_COUNTDOWN and                     *)
(* NET_USE_ROUND_TIMER.                                                    *)
(*                                                                         *)
(* The slots are a NetSparseList: a partial function whose domain is the   *)
(* set of occupied slots.  Names, the random generator and the server      *)
(* objects of a match are left out: no rule below reads them.              *)
(***************************************************************************)
EXTENDS Integers, FiniteSets

CONSTANTS
    MaxPlayers,      \* kMaxPlayers: slots of a match
    MaxTeams,        \* kMaxTeams
    MaxCountdown,    \* kMaxCountdown: ticks between start and play
    MaxRoundTimer    \* kMaxRoundTimer: ticks of play

ASSUME PlayersAssumption == MaxPlayers \in Nat \ {0}
ASSUME TeamsAssumption == MaxTeams \in Nat \ {0}
ASSUME ClocksAssumption == MaxCountdown \in Nat /\ MaxRoundTimer \in Nat

Slots == 0 .. MaxPlayers - 1
Teams == 0 .. MaxTeams - 1

Undecided == -1          \* m_WiningTeam of a match still open
Player == [team : Teams, ai : BOOLEAN, ready : BOOLEAN]

-----------------------------------------------------------------------------
(* NetSparseList<GamePlayer, kMaxPlayers>, as the controller uses it.       *)

EmplaceAt(list, i, p) ==
    [j \in DOMAIN list \cup {i} |-> IF j = i THEN p ELSE list[j]]

RemoveSlot(list, i) == [j \in DOMAIN list \ {i} |-> list[j]]

-----------------------------------------------------------------------------
InitialData ==
    [players     |-> [i \in {} |-> 0],
     started     |-> FALSE,
     winningTeam |-> Undecided,
     countdown   |-> 0,
     roundTimer  |-> 0]

TeamCount(players, t) ==
    Cardinality({i \in DOMAIN players : players[i].team = t})

\* Mutant of GetRandomTeam: any team, however crowded.
AnyTeam(players) == Teams

\* The teams GetRandomTeam may return: the least populated ones.
GetRandomTeam(players) ==
    {t \in Teams : \A u \in Teams : TeamCount(players, t) <= TeamCount(players, u)}

DoAllTeamsHavePlayers(players) ==
    \A t \in Teams : \E i \in DOMAIN players : players[i].team = t

\* The team all present players belong to, as a set of at most one element.
GetOnlyTeamWithPlayers(players) ==
    {t \in Teams : /\ DOMAIN players # {}
                   /\ \A i \in DOMAIN players : players[i].team = t}

NeedsMorePlayersToStartGame(data) == ~DoAllTeamsHavePlayers(data.players)

IsReadyToStartGame(data) ==
    /\ ~NeedsMorePlayersToStartGame(data)
    /\ \A i \in DOMAIN data.players : data.players[i].ready

-----------------------------------------------------------------------------
\* EmplaceAt overwrites: a bot that sat in the slot is gone.
ConstructPlayer(data, slot, team) ==
    [data EXCEPT !.players = EmplaceAt(@, slot, [team |-> team, ai |-> FALSE, ready |-> FALSE])]

PlayerReady(data, slot) == [data EXCEPT !.players[slot].ready = TRUE]

EndGame(data, team) == [data EXCEPT !.winningTeam = team]

\* Mutant of PlayerLeft: a forfeit, the team that stays is given the match.
PlayerLeftForfeits(data) ==
    IF ~data.started /\ GetOnlyTeamWithPlayers(data.players) # {}
    THEN EndGame(data, CHOOSE t \in GetOnlyTeamWithPlayers(data.players) : TRUE)
    ELSE data

\* Mutant of PlayerLeft: the guard m_Started == false is missing.
PlayerLeftAnyTime(data) ==
    IF MaxTeams > 1 /\ GetOnlyTeamWithPlayers(data.players) # {}
    THEN EndGame(data, Undecided)
    ELSE data

\* Called while the player still has its slot, so the list is never empty here.
PlayerLeft(data) ==
    IF \/ DOMAIN data.players = {}
       \/ MaxTeams > 1 /\ ~data.started /\ GetOnlyTeamWithPlayers(data.players) # {}
    THEN EndGame(data, Undecided)
    ELSE data

FreeSlots(data) == Slots \ DOMAIN data.players

\* AddAIPlayer with the random team already drawn: the first free slot, or
\* nothing when every slot is taken (it then returns -1, which no one reads).
AddAIPlayer(data, team) ==
    IF FreeSlots(data) = {}
    THEN data
    ELSE LET slot == CHOOSE i \in FreeSlots(data) : \A j \in FreeSlots(data) : i <= j
         IN  [data EXCEPT !.players =
                 EmplaceAt(@, slot, [team |-> team, ai |-> TRUE, ready |-> TRUE])]

StartGame(data) ==
    [data EXCEPT !.started = TRUE, !.countdown = MaxCountdown, !.roundTimer = MaxRoundTimer]

\* Mutant of UpdateController: nobody ends the match when the round is over.
UpdateControllerNeverEnds(data) ==
    IF ~data.started \/ data.winningTeam # Undecided THEN data
    ELSE IF data.countdown > 0 THEN [data EXCEPT !.countdown = @ - 1]
    ELSE IF data.roundTimer > 0 THEN [data EXCEPT !.roundTimer = @ - 1]
    ELSE data

\* GameController::Update: the countdown runs out first, then the round.
\* GetDefaultWinningTeam is empty, so a finished round is won by kMaxTeams.
UpdateController(data) ==
    IF ~data.started \/ data.winningTeam # Undecided THEN data
    ELSE IF data.countdown > 0 THEN [data EXCEPT !.countdown = @ - 1]
    ELSE IF data.roundTimer > 0 THEN [data EXCEPT !.roundTimer = @ - 1]
    ELSE EndGame(data, MaxTeams)

-----------------------------------------------------------------------------
Data ==
    [players     : UNION {[D -> Player] : D \in SUBSET Slots},
     started     : BOOLEAN,
     winningTeam : Undecided .. MaxTeams,
     countdown   : 0 .. MaxCountdown,
     roundTimer  : 0 .. MaxRoundTimer]
=============================================================================
