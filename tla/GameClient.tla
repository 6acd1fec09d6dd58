----------------------------- MODULE GameClient -----------------------------
(***************************************************************************)
(* The network client of a player, as operators on its record: the         *)
(* connection state machine kConnecting -> kJoining -> kLoading ->         *)
(* kWaitingForInitialSync -> kConnected, with the three things it waits    *)
(* for (pong, client data, first snapshot) and the local prediction of the *)
(* match.  Translated from src/GameClient/GameNetworkClient.cpp and        *)
(* GameClientInstanceContainer.cpp.                                        *)
(*                                                                         *)
(* Left out: m_Loading (written, never read), the ping and send timers     *)
(* (they only pace messages that change no state of the server), input     *)
(* and events, and the entity synchronisation that follows the snapshot.   *)
(***************************************************************************)
EXTENDS GameController

CONSTANT NoToken     \* m_LoadToken before the first LoadLevel

NoIndex == -1        \* m_PlayerIndex before the first client data

ConnectionStates ==
    {"kConnecting", "kJoining", "kLoading", "kWaitingForInitialSync",
     "kConnected", "kDisconnected"}

Client(tokens) ==
    [state       : ConnectionStates,
     loaded      : BOOLEAN,
     levelLoaded : BOOLEAN,
     gotSim      : BOOLEAN,
     gotData     : BOOLEAN,
     gotPing     : BOOLEAN,
     token       : tokens \cup {NoToken},
     playerIndex : Slots \cup {NoIndex},
     sim         : Data]

NewClient ==
    [state       |-> "kConnecting",
     loaded      |-> FALSE,
     levelLoaded |-> FALSE,          \* the container's m_Loaded
     gotSim      |-> FALSE,
     gotData     |-> FALSE,
     gotPing     |-> FALSE,
     token       |-> NoToken,
     playerIndex |-> NoIndex,
     sim         |-> InitialData]

-----------------------------------------------------------------------------
\* Mutant of CheckFinalizeConnect: the client data is not waited for.
CheckFinalizeWithoutData(client) ==
    IF client.gotSim /\ client.gotPing /\ client.state = "kWaitingForInitialSync"
    THEN [client EXCEPT !.state = "kConnected"]
    ELSE client

CheckFinalizeConnect(client) ==
    IF /\ client.gotData /\ client.gotSim /\ client.gotPing
       /\ client.state = "kWaitingForInitialSync"
    THEN [client EXCEPT !.state = "kConnected"]
    ELSE client

InitConnection(client) == [client EXCEPT !.state = "kJoining"]

HandlePong(client) ==
    IF client.gotPing THEN client
    ELSE CheckFinalizeConnect([client EXCEPT !.gotPing = TRUE])

\* The container starts to load; its m_Loaded is not taken back.
HandleLoadLevel(client, token) ==
    [client EXCEPT !.state = "kLoading", !.loaded = FALSE,
                   !.gotSim = FALSE, !.gotData = FALSE, !.token = token]

\* The callback of GameClientInstanceContainer::Load, with its resources.
LevelReady(client) == [client EXCEPT !.levelLoaded = TRUE, !.sim = InitialData]

\* Mutant of HandleSimUpdate: the first snapshot completes nothing.
HandleSimUpdateUnnoticed(client, data) ==
    IF client.loaded THEN [client EXCEPT !.sim = data, !.gotSim = TRUE] ELSE client

HandleSimUpdate(client, data) ==
    IF ~client.loaded THEN client
    ELSE LET updated == [client EXCEPT !.sim = data, !.gotSim = TRUE] IN
         IF client.gotSim THEN updated ELSE CheckFinalizeConnect(updated)

HandleClientDataUpdate(client, index) ==
    IF ~client.loaded THEN client
    ELSE LET updated == [client EXCEPT !.playerIndex = index, !.gotData = TRUE] IN
         IF client.gotData THEN updated ELSE CheckFinalizeConnect(updated)

\* Both ConnectionFailed and Disconnected.
Disconnected(client) == [client EXCEPT !.state = "kDisconnected"]

\* The loaded container is handed to the end of game mode; a new one, empty,
\* takes its place.
ConvertToOffline(client) ==
    [NewClient EXCEPT !.state = "kDisconnected", !.token = client.token]

-----------------------------------------------------------------------------
(* GameNetworkClient::Update, before and after the messages it receives.    *)

Predict(client) ==
    IF client.gotSim THEN [client EXCEPT !.sim = UpdateController(@)] ELSE client

HasFinishedLoading(client) == client.state = "kLoading" /\ client.levelLoaded

\* Mutant of FinishLoading: the state is advanced, m_Loaded is not set.
FinishLoadingNotLoaded(client) ==
    IF HasFinishedLoading(client)
    THEN [client EXCEPT !.state = "kWaitingForInitialSync"]
    ELSE client

FinishLoading(client) ==
    IF HasFinishedLoading(client)
    THEN CheckFinalizeConnect([client EXCEPT !.state = "kWaitingForInitialSync",
                                             !.loaded = TRUE])
    ELSE client
=============================================================================
