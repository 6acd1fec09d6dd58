----------------------------- MODULE GameServer -----------------------------
(***************************************************************************)
(* The game server process: connections, the map of running matches and    *)
(* the main loop.  Translated from src/GameServer/GameClientConnection.cpp,*)
(* GameInstanceManager.cpp, GameServer.cpp and the parts of                *)
(* GameInstance.cpp that call back into the connections.                   *)
(*                                                                         *)
(* The process has one thread.  Between two ticks (pc = "network") it      *)
(* handles connections and messages in any order; a tick then updates      *)
(* every match and erases the empty ones.  A tick is split at its loops:   *)
(*                                                                         *)
(*   network -> next -> [kick ->] [fill ->] advance -> next -> ... -> next *)
(*                                                              -> network *)
(*                                                                         *)
(* Clients and matches refer to each other by raw pointers: m_GameInstance *)
(* of a connection (inst) and m_Client of an entry.  A client is its slot  *)
(* of the server's connection array and a match its key in m_Games, so a   *)
(* slot or a key used again is an address used again.  Using a pointer to  *)
(* something that no longer exists is undefined; the model stops there     *)
(* (broken).                                                               *)
(*                                                                         *)
(* StormNet (ServerBase) is external: DisconnectClient makes a connection  *)
(* deliver no more messages, and CleanupClient runs when it is gone.       *)
(***************************************************************************)
EXTENDS GameInstance

CONSTANTS
    GameIds,     \* keys of m_Games that may be drawn; bounds the live matches
    JoinIds,     \* m_GameId values that join messages carry
    AnyGame,     \* m_GameId = 0: any match with room
    None         \* the null pointer

ASSUME IdsAssumption ==
    /\ None \notin GameIds
    /\ AnyGame \notin GameIds
    /\ JoinIds \subseteq GameIds \cup {AnyGame}

VARIABLES
    conn,        \* conn[c]: "free", "open" or "closing"
    inst,        \* inst[c]: m_GameInstance of the connection in slot c
    games,       \* m_Games
    pc,          \* where the server thread is
    current,     \* the match being updated
    remaining,   \* matches this tick still has to update
    dead,        \* dead_games
    cursor,      \* loop index of RemovePlayersWhoHaventLoaded
    broken,      \* a stale pointer was used
    refused,     \* history: connections attached to a match that turned them away
    displaced    \* history: matches in which a join overwrote a bot

matchVars == <<games, refused, displaced>>
connVars == <<conn, inst>>
threadVars == <<pc, current, remaining, dead, cursor>>
vars == <<conn, inst, games, pc, current, remaining, dead, cursor, broken, refused, displaced>>

Live(g) == g \in DOMAIN games

Init ==
    /\ conn = [c \in Clients |-> "free"]
    /\ inst = [c \in Clients |-> None]
    /\ games = [g \in {} |-> NewInstance]
    /\ pc = "network"
    /\ current = None
    /\ remaining = {}
    /\ dead = {}
    /\ cursor = 0
    /\ broken = FALSE
    /\ refused = {}
    /\ displaced = {}

-----------------------------------------------------------------------------
(* Pointers.                                                                *)

UseStalePointer ==
    /\ broken' = TRUE
    /\ UNCHANGED <<conn, inst, games, pc, current, remaining, dead, cursor, refused, displaced>>

\* Mutant of RemoveFromGame: the pointer is cleared, the match is not told.
RemoveFromGameQuietly(c) ==
    /\ inst[c] # None => Live(inst[c])
    /\ inst' = [inst EXCEPT ![c] = None]
    /\ UNCHANGED games

\* Mutant of RemoveFromGame: the match is told, the pointer stays.
RemoveFromGameKeepsPointer(c) ==
    IF inst[c] = None
    THEN UNCHANGED <<inst, games>>
    ELSE /\ Live(inst[c])
         /\ games' = [games EXCEPT ![inst[c]] = RemovePlayer(@, c)]
         /\ UNCHANGED inst

\* GameClientConnection::RemoveFromGame, when its pointer can be followed.
RemoveFromGame(c) ==
    IF inst[c] = None
    THEN UNCHANGED <<inst, games>>
    ELSE /\ Live(inst[c])
         /\ games' = [games EXCEPT ![inst[c]] = RemovePlayer(@, c)]
         /\ inst' = [inst EXCEPT ![c] = None]

HasStaleInstance(c) == inst[c] # None /\ ~Live(inst[c])

-----------------------------------------------------------------------------
(* Connections.                                                             *)

InNetwork == pc = "network" /\ ~broken

\* ServerBase accepts a connection: ConstructClient.
Connect(c) ==
    /\ InNetwork
    /\ conn[c] = "free"
    /\ conn' = [conn EXCEPT ![c] = "open"]
    /\ inst' = [inst EXCEPT ![c] = None]
    /\ UNCHANGED <<games, threadVars, broken, refused, displaced>>

\* ServerBase reports the end of a connection: CleanupClient.
CleanupClient(c) ==
    /\ InNetwork
    /\ conn[c] # "free"
    /\ IF HasStaleInstance(c) THEN UseStalePointer
       ELSE /\ RemoveFromGame(c)
            /\ conn' = [conn EXCEPT ![c] = "free"]
            /\ refused' = refused \ {c}
            /\ UNCHANGED <<threadVars, broken, displaced>>

DisconnectClient(c) ==
    /\ conn' = [conn EXCEPT ![c] = "closing"]
    /\ UNCHANGED <<inst, games, threadVars, broken, refused, displaced>>

Receives(c) == InNetwork /\ conn[c] = "open"

-----------------------------------------------------------------------------
(* Joining.                                                                 *)

CanJoinGame(g) == GetNumPlayers(games[g]) < MaxPlayers

\* GameInstance::JoinPlayer on match g, and what the history records of it.
PutInGame(c, g, game, attached) ==
    /\ \E token \in Tokens, team \in GetRandomTeam(game.data.players) :
          games' = [h \in DOMAIN games \cup {g} |->
                       IF h = g THEN JoinPlayer(game, c, token, team) ELSE games[h]]
    /\ refused' = IF attached /\ ~AcceptsPlayer(game) THEN refused \cup {c} ELSE refused
    /\ displaced' =
          IF ~Live(g) THEN displaced \ {g}
          ELSE IF AcceptsPlayer(game) /\ game.nextId \in DOMAIN game.data.players
               THEN displaced \cup {g}
               ELSE displaced

\* The pointer is stored first, and the result of JoinPlayer is not looked at.
AttachAndPut(c, g, game) ==
    /\ inst' = [inst EXCEPT ![c] = g]
    /\ PutInGame(c, g, game, TRUE)
    /\ UNCHANGED <<conn, threadVars, broken>>

\* GameInstanceManager::JoinPlayer with m_GameId = 0: a match with room, else
\* a new one when the stage exists.
JoinAnyGame(c, knownStage) ==
    IF \E g \in DOMAIN games : CanJoinGame(g)
    THEN \E g \in DOMAIN games : CanJoinGame(g) /\ AttachAndPut(c, g, games[g])
    ELSE IF ~knownStage
    THEN DisconnectClient(c)
    ELSE \E g \in GameIds \ DOMAIN games : AttachAndPut(c, g, NewInstance)

\* With a game id the connection is not attached to the match it joins.
JoinGameById(c, g) ==
    IF Live(g) /\ CanJoinGame(g)
    THEN /\ PutInGame(c, g, games[g], FALSE)
         /\ UNCHANGED <<connVars, threadVars, broken>>
    ELSE DisconnectClient(c)

\* Mutant of HandleJoinGame: a bad name is ignored, the client is not told.
HandleJoinGameIgnoringBadName(c, id, validName, knownStage) ==
    /\ Receives(c)
    /\ IF inst[c] # None THEN DisconnectClient(c)
       ELSE IF ~validName THEN UNCHANGED vars
       ELSE IF id = AnyGame THEN JoinAnyGame(c, knownStage)
       ELSE JoinGameById(c, id)

HandleJoinGame(c, id, validName, knownStage) ==
    /\ Receives(c)
    /\ IF inst[c] # None \/ ~validName THEN DisconnectClient(c)
       ELSE IF id = AnyGame THEN JoinAnyGame(c, knownStage)
       ELSE JoinGameById(c, id)

-----------------------------------------------------------------------------
(* The other messages of a client.                                          *)

HandleFinishLoading(c, token) ==
    /\ Receives(c)
    /\ IF inst[c] = None THEN DisconnectClient(c)
       ELSE IF HasStaleInstance(c) THEN UseStalePointer
       ELSE /\ games' = [games EXCEPT ![inst[c]] = HandlePlayerLoaded(@, c, token)]
            /\ UNCHANGED <<connVars, threadVars, broken, refused, displaced>>

\* HandleClientEvent and HandleClientDataUpdate: what they pass on changes no
\* state of this model, so only their error paths remain.
HandleClientInput(c) ==
    /\ Receives(c)
    /\ \/ inst[c] = None /\ DisconnectClient(c)
       \/ HasStaleInstance(c) /\ UseStalePointer

-----------------------------------------------------------------------------
(* A tick: GameInstanceManager::Update.                                     *)

At(label) == pc = label /\ ~broken

StartTick ==
    /\ At("network")
    /\ pc' = "next"
    /\ remaining' = DOMAIN games
    /\ UNCHANGED <<connVars, matchVars, current, dead, cursor, broken>>

\* The next match of the map, up to the first loop of its Update.
UpdateNextGame ==
    /\ At("next")
    /\ \E g \in remaining :
          LET game == games[g]
              waiting == game.state # "kPlaying"
              expired == waiting /\ game.loadTimer = 0
          IN  /\ current' = g
              /\ remaining' = remaining \ {g}
              /\ games' = [games EXCEPT ![g] = IF waiting THEN CountDown(@) ELSE @]
              /\ pc' = IF ~expired THEN "advance"
                       ELSE IF game.state = "kWaitingForLoad" THEN "kick" ELSE "fill"
              /\ cursor' = IF expired THEN GetNumPlayers(game) ELSE 0
    /\ UNCHANGED <<connVars, dead, broken, refused, displaced>>

\* One round of RemovePlayersWhoHaventLoaded: ForceDisconnect removes the
\* client from its match and closes the connection.
KickIfNotLoaded ==
    /\ At("kick")
    /\ cursor > 0
    /\ LET e == games[current].entries[cursor] IN
       IF e.loaded
       THEN /\ cursor' = cursor - 1
            /\ UNCHANGED <<connVars, matchVars, pc, current, remaining, dead, broken>>
       ELSE IF conn[e.client] = "free" \/ HasStaleInstance(e.client)
       THEN UseStalePointer
       ELSE /\ RemoveFromGame(e.client)
            /\ conn' = [conn EXCEPT ![e.client] = "closing"]
            /\ cursor' = cursor - 1
            /\ UNCHANGED <<pc, current, remaining, dead, broken, refused, displaced>>

FinishKicking ==
    /\ At("kick")
    /\ cursor = 0
    /\ pc' = "fill"
    /\ UNCHANGED <<connVars, matchVars, current, remaining, dead, cursor, broken>>

\* FillWithBots: as long as a team is empty.  With no free slot left a round
\* changes nothing, and the loop has no other way out.
AddBot ==
    /\ At("fill")
    /\ NeedsMorePlayersToStartGame(games[current].data)
    /\ \E team \in GetRandomTeam(games[current].data.players) :
          games' = [games EXCEPT ![current] = FillWithOneBot(@, team)]
    /\ UNCHANGED <<connVars, threadVars, broken, refused, displaced>>

FinishFilling ==
    /\ At("fill")
    /\ ~NeedsMorePlayersToStartGame(games[current].data)
    /\ pc' = "advance"
    /\ UNCHANGED <<connVars, matchVars, current, remaining, dead, cursor, broken>>

\* The rest of GameInstance::Update.  A snapshot goes to every loaded entry.
AdvanceGame ==
    /\ At("advance")
    /\ LET game == ChangeState(games[current])
           receivers == {game.entries[i].client :
                            i \in {j \in DOMAIN game.entries : game.entries[j].loaded}}
       IN  IF SendsSnapshot(game) /\ \E c \in receivers : conn[c] = "free"
           THEN UseStalePointer
           ELSE /\ games' = [games EXCEPT ![current] = FinishUpdate(game)]
                /\ dead' = IF GetNumPlayers(game) = 0 THEN dead \cup {current} ELSE dead
                /\ pc' = "next"
                /\ UNCHANGED <<connVars, current, remaining, cursor, broken, refused, displaced>>

EraseDeadGames ==
    /\ At("next")
    /\ remaining = {}
    /\ games' = [g \in DOMAIN games \ dead |-> games[g]]
    /\ pc' = "network"
    /\ current' = None
    /\ dead' = {}
    /\ cursor' = 0
    /\ UNCHANGED <<connVars, remaining, broken, refused, displaced>>

Tick ==
    \/ StartTick \/ UpdateNextGame \/ KickIfNotLoaded \/ FinishKicking
    \/ AddBot \/ FinishFilling \/ AdvanceGame \/ EraseDeadGames

Network ==
    \E c \in Clients :
        \/ Connect(c)
        \/ CleanupClient(c)
        \/ \E id \in JoinIds, validName, knownStage \in BOOLEAN :
              HandleJoinGame(c, id, validName, knownStage)
        \/ \E token \in Tokens : HandleFinishLoading(c, token)
        \/ HandleClientInput(c)

Next == Tick \/ Network

\* main() calls the two updates in an endless loop, the tick at 60 Hz.
Spec == Init /\ [][Next]_vars /\ WF_vars(Tick)

-----------------------------------------------------------------------------
(* Properties.                                                              *)

TypeOK ==
    /\ conn \in [Clients -> {"free", "open", "closing"}]
    /\ inst \in [Clients -> GameIds \cup {None}]
    /\ DOMAIN games \subseteq GameIds
    /\ \A g \in DOMAIN games : games[g] \in Instance
    /\ pc \in {"network", "next", "kick", "fill", "advance"}
    /\ current \in GameIds \cup {None}
    /\ remaining \subseteq DOMAIN games
    /\ dead \subseteq DOMAIN games
    /\ cursor \in Nat
    /\ broken \in BOOLEAN
    /\ refused \subseteq Clients
    /\ displaced \subseteq GameIds

\* The list of connected players and the replicated slots describe the same
\* people: an entry owns the slot of its index, alone, the slot is ready when
\* the entry is loaded, and every slot without an owner is a bot.  The two are
\* written by different classes (GameInstance and GameController), and bots,
\* joins and leaves all move slots.
EntriesOwnSlots == \A g \in DOMAIN games : EntriesOwnTheirSlots(games[g])

Listed(c, g) == Live(g) /\ EntryOf(games[g], c) # 0

\* Every raw m_Client pointer in a list of players leads to a connection that
\* exists and that points back at the match, so a leaving client is found and
\* no snapshot goes to a dead one.  Joins by id break this (see JoinGameById).
EntriesPointBack ==
    \A g \in DOMAIN games :
        LET entries == games[g].entries IN
        /\ \A i \in DOMAIN entries :
              conn[entries[i].client] # "free" /\ inst[entries[i].client] = g
        /\ \A i, j \in DOMAIN entries :
              entries[i].client = entries[j].client => i = j

\* A connection attached to a match is in its list of players, unless the match
\* turned it away after the pointer was stored; only such a connection can be
\* left with a pointer to an erased match.
AttachedAreListed ==
    \A c \in Clients : inst[c] # None => Listed(c, inst[c]) \/ c \in refused

\* Nothing but a turned-away connection makes the server follow a stale pointer,
\* and the pointer is its own.
BrokenOnlyByRefusal == broken => \E c \in refused : HasStaleInstance(c)

\* A match that has started holds only players who finished loading, whatever
\* joins, loads and kicks were in flight when it started, and the state of the
\* instance agrees with the replicated flag.
StartedMatchIsLoaded == \A g \in DOMAIN games : StartedIsLoaded(games[g])

\* Once a match has started no event of a connected player is dropped by the
\* loop of HandleClientEvent, which gives up at the first unloaded entry.
EventsReachStartedMatch ==
    \A c \in Clients :
        inst[c] # None /\ c \notin refused /\ games[inst[c]].data.started
            => DeliversEventOf(games[inst[c]], c)

\* A match is decided by its clocks alone, never by players leaving it.
DecidedByTheClock == \A g \in DOMAIN games : DecidedByClock(games[g].data)

\* Kicking erases from the list the loop is walking: whoever else a kick
\* removes, the index stays inside the list and in a match that exists.
KickIndexInList ==
    pc = "kick" => Live(current) /\ cursor <= Len(games[current].entries)

EmptyTeams(players) == {t \in Teams : TeamCount(players, t) = 0}

\* As long as no join has overwritten a bot there is a free slot for every
\* team without players, so the loop of FillWithBots ends.  It relies on
\* GetRandomTeam always choosing an empty team first.
EveryTeamCanBeFilled ==
    \A g \in DOMAIN games \ displaced :
        Cardinality(EmptyTeams(games[g].data.players)) <= Cardinality(FreeSlots(games[g].data))

\* The result of a match is never changed or withdrawn while the match exists.
ResultIsFinal ==
    [][\A g \in DOMAIN games \cap DOMAIN games' :
          games[g].data.winningTeam # Undecided
              => games'[g].data.winningTeam = games[g].data.winningTeam]_vars

\* FillWithBots in its endless loop: every slot is taken, a team is empty.
Spinning ==
    /\ At("fill")
    /\ NeedsMorePlayersToStartGame(games[current].data)
    /\ FreeSlots(games[current].data) = {}

Stuck == broken \/ Spinning

\* A player who joined by id and is gone stays listed and can never load.
Haunted(g) == \E i \in DOMAIN games[g].entries : inst[games[g].entries[i].client] # g

\* A match does not wait for ever: it starts, or everybody leaves it.  A match
\* with a player who joined by id may wait for that player for ever.
WaitingEnds ==
    \A g \in GameIds :
        Live(g) /\ ~games[g].data.started
            ~> Stuck \/ ~Live(g) \/ games[g].data.started \/ Haunted(g)

\* A match that has started gets its result, or everybody leaves it.
StartedMatchIsDecided ==
    \A g \in GameIds :
        Live(g) /\ games[g].data.started
            ~> Stuck \/ ~Live(g) \/ games[g].data.winningTeam # Undecided
=============================================================================
