---------------------------- MODULE GameInstance ----------------------------
(***************************************************************************)
(* One running match on the server, as operators on its record: the state  *)
(* machine kWaitingForPlayers -> kWaitingForLoad -> kPlaying with its      *)
(* timers, the list of connected players (m_Players) and the player ids.   *)
(* Translated from src/GameServer/GameInstance.cpp, NET_MODE_SERVER_AUTH   *)
(* without NET_ALLOW_LATE_JOIN.                                            *)
(*                                                                         *)
(* m_PlayerIdAllocator never gets an id back (nothing calls Release), so   *)
(* its free list is always nextId, nextId + 1, ..., MaxPlayers - 1.        *)
(* m_Input is left out: ClientInput has no fields and ApplyInput is empty. *)
(***************************************************************************)
EXTENDS GameController, SequencesExt

CONSTANTS
    Clients,            \* connection slots of the server; a client is its slot
    Tokens,             \* load tokens (GetRandomNumber64)
    WaitForPlayers,     \* kTimeToWaitForPlayers, in ticks
    WaitForLoad,        \* kTimeToWaitForLoad, in ticks
    ServerUpdateRate    \* kServerUpdateRate: ticks between two snapshots

ASSUME TimersAssumption ==
    /\ WaitForPlayers \in Nat
    /\ WaitForLoad \in Nat
    /\ ServerUpdateRate \in Nat \ {0}

States == {"kWaitingForPlayers", "kWaitingForLoad", "kPlaying"}

\* GameInstance::GamePlayer
Entry == [client : Clients, index : Slots, token : Tokens, loaded : BOOLEAN]

Instance ==
    [state     : States,
     loadTimer : Nat,
     sendTimer : 0 .. ServerUpdateRate,
     data      : Data,
     entries   : Seq(Entry),
     nextId    : 0 .. MaxPlayers]

NewInstance ==
    [state     |-> "kWaitingForPlayers",
     loadTimer |-> WaitForPlayers,
     sendTimer |-> ServerUpdateRate,
     data      |-> InitialData,
     entries   |-> <<>>,
     nextId    |-> 0]

\* Mutant of GetNumPlayers: the occupied slots, bots included.
CountSlots(game) == Cardinality(DOMAIN game.data.players)

\* Mutant of GetNumPlayers: only the players who finished loading.
CountLoaded(game) == Cardinality({i \in DOMAIN game.entries : game.entries[i].loaded})

GetNumPlayers(game) == Len(game.entries)

\* Position of the first entry of a client in m_Players, 0 when it has none.
EntryOf(game, c) == SelectInSeq(game.entries, LAMBDA e : e.client = c)

-----------------------------------------------------------------------------
\* JoinPlayer returns FALSE when the ids are used up or the match has started;
\* in the second case the id it drew is lost.
AcceptsPlayer(game) == game.nextId < MaxPlayers /\ ~game.data.started

\* Mutant of JoinPlayer: the match has started and the player is let in.
JoinPlayerLate(game, c, token, team) ==
    IF game.nextId = MaxPlayers THEN game
    ELSE [game EXCEPT
             !.nextId  = @ + 1,
             !.data    = ConstructPlayer(@, game.nextId, team),
             !.entries = Append(@, [client |-> c, index |-> game.nextId,
                                    token |-> token, loaded |-> FALSE])]

JoinPlayer(game, c, token, team) ==
    IF game.nextId = MaxPlayers THEN game
    ELSE IF game.data.started THEN [game EXCEPT !.nextId = @ + 1]
    ELSE [game EXCEPT
             !.nextId  = @ + 1,
             !.data    = ConstructPlayer(@, game.nextId, team),
             !.entries = Append(@, [client |-> c, index |-> game.nextId,
                                    token |-> token, loaded |-> FALSE])]

\* Mutant of RemovePlayer: the slot stays behind.
RemovePlayerKeepingSlot(game, c) ==
    LET i == EntryOf(game, c) IN
    IF i = 0 THEN game
    ELSE [game EXCEPT
             !.data    = IF game.entries[i].loaded THEN PlayerLeft(@) ELSE @,
             !.entries = RemoveAt(@, i)]

\* PlayerLeft runs before the slot is emptied and the entry erased.
RemovePlayer(game, c) ==
    LET i == EntryOf(game, c) IN
    IF i = 0 THEN game
    ELSE LET e == game.entries[i]
             data == IF e.loaded THEN PlayerLeft(game.data) ELSE game.data
         IN  [game EXCEPT
                 !.data    = [data EXCEPT !.players = RemoveSlot(@, e.index)],
                 !.entries = RemoveAt(@, i)]

\* Mutant of HandlePlayerLoaded: the slot is ready, the entry is not marked.
HandlePlayerLoadedSlotOnly(game, c, token) ==
    LET i == EntryOf(game, c) IN
    IF i = 0 \/ (i # 0 /\ (game.entries[i].loaded \/ game.entries[i].token # token))
    THEN game
    ELSE [game EXCEPT !.data = PlayerReady(@, game.entries[i].index)]

HandlePlayerLoaded(game, c, token) ==
    LET i == EntryOf(game, c) IN
    IF i = 0 \/ (i # 0 /\ (game.entries[i].loaded \/ game.entries[i].token # token))
    THEN game
    ELSE [game EXCEPT
             !.entries[i].loaded = TRUE,
             !.data = PlayerReady(@, game.entries[i].index)]

\* HandleClientEvent walks m_Players and gives up at the first entry that is
\* not loaded, even when that entry is another player's.
DeliversEventOf(game, c) ==
    /\ EntryOf(game, c) # 0
    /\ \A i \in 1 .. EntryOf(game, c) : game.entries[i].loaded

-----------------------------------------------------------------------------
(* The pieces of GameInstance::Update, in the order they run.               *)

\* Mutant of CountDown: the timer of the waiting states stands still.
CountDownStandsStill(game) == game

CountDown(game) == [game EXCEPT !.loadTimer = IF @ > 0 THEN @ - 1 ELSE @]

FillWithOneBot(game, team) == [game EXCEPT !.data = AddAIPlayer(@, team)]

\* After the bots: close the lobby, or start the match (which asks for an
\* immediate snapshot).  The lobby and the start are never in one tick.
StartWaitForLoad(game) ==
    IF NeedsMorePlayersToStartGame(game.data) THEN game
    ELSE [game EXCEPT !.state = "kWaitingForLoad", !.loadTimer = WaitForLoad]

StartWhenReady(game) ==
    IF ~IsReadyToStartGame(game.data) THEN game
    ELSE [game EXCEPT !.state = "kPlaying", !.sendTimer = 0, !.data = StartGame(@)]

ChangeState(game) ==
    CASE game.state = "kWaitingForPlayers" -> StartWaitForLoad(game)
      [] game.state = "kWaitingForLoad" -> StartWhenReady(game)
      [] OTHER -> game

SendsSnapshot(game) == game.sendTimer <= 1

FinishUpdate(game) ==
    [game EXCEPT
        !.sendTimer = IF SendsSnapshot(game) THEN ServerUpdateRate ELSE @ - 1,
        !.data = UpdateController(@)]

-----------------------------------------------------------------------------
(* What holds of every match by itself.                                     *)

EntriesOwnTheirSlots(game) ==
    LET players == game.data.players
        entries == game.entries
    IN  /\ \A i \in DOMAIN entries :
              /\ entries[i].index \in DOMAIN players
              /\ ~players[entries[i].index].ai
              /\ players[entries[i].index].ready = entries[i].loaded
        /\ \A i, j \in DOMAIN entries : entries[i].index = entries[j].index => i = j
        /\ \A s \in DOMAIN players :
              players[s].ai \/ \E i \in DOMAIN entries : entries[i].index = s

StartedIsLoaded(game) ==
    /\ game.data.started <=> game.state = "kPlaying"
    /\ game.data.started =>
          /\ \A i \in DOMAIN game.entries : game.entries[i].loaded
          /\ \A s \in DOMAIN game.data.players : game.data.players[s].ready

DecidedByClock(data) ==
    data.winningTeam # Undecided => data.started /\ data.countdown = 0 /\ data.roundTimer = 0

\* The ids already drawn are below nextId, so a new one is nobody's.
IdsAreDrawnInOrder(game) == \A i \in DOMAIN game.entries : game.entries[i].index < game.nextId

MatchInv(game) ==
    /\ EntriesOwnTheirSlots(game)
    /\ StartedIsLoaded(game)
    /\ DecidedByClock(game.data)
    /\ IdsAreDrawnInOrder(game)
=============================================================================
