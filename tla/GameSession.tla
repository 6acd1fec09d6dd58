---------------------------- MODULE GameSession -----------------------------
(***************************************************************************)
(* A player's client and the game server together: the handshake that      *)
(* brings a client into a match, the snapshots it plays on and the game    *)
(* modes it goes through.  Composes GameServerWhole with the client of     *)
(* GameClient and translates src/GameClient/GameModeConnecting.cpp,        *)
(* GameModeOnlineGameplay.cpp and GameModeEndGame.cpp.                     *)
(*                                                                         *)
(* One client is modelled in full; slot is its connection on the server.   *)
(* Every other connection sends whatever it likes, so it stands for any    *)
(* other client, and for an old connection of this one.                    *)
(*                                                                         *)
(* The pipes are those of src/Game/GameProtocol.h: messages and client     *)
(* data are reliable and in order, each in a pipe of its own, snapshots    *)
(* are unreliable and sequenced: any of them may be lost, none arrives     *)
(* after a later one.                                                      *)
(***************************************************************************)
EXTENDS GameServerWhole, GameClient

CONSTANT SnapsInFlight      \* bound: snapshots on their way at one time

ASSUME SnapsAssumption == SnapsInFlight \in Nat \ {0}

VARIABLES
    client,      \* m_Client: the network client
    mode,        \* m_Mode: "connecting", "gameplay" or "endgame"
    frame,       \* "idle", or "update" inside GameNetworkClient::Update
    slot,        \* the client's connection on the server, None without one
    toServer,    \* pipe 0 of ServerProtocolDef
    toClient,    \* pipe 0 of ClientProtocolDef
    snaps,       \* pipe 3 of ClientProtocolDef: GameFullState
    locals       \* pipe 4 of ClientProtocolDef: ClientLocalData

pipes == <<toServer, toClient, snaps, locals>>
clientVars == <<client, mode, frame>>
sessionVars == <<client, mode, frame, slot, toServer, toClient, snaps, locals>>
serverVars == vars
allVars == <<vars, sessionVars>>

Ping == [type |-> "Ping"]
Pong == [type |-> "Pong"]
JoinGame == [type |-> "JoinGame"]
LoadLevel(token) == [type |-> "LoadLevel", token |-> token]
FinishLoadingMessage(token) == [type |-> "FinishLoading", token |-> token]

SessionInit ==
    /\ Init
    /\ client = NewClient
    /\ mode = "connecting"
    /\ frame = "idle"
    /\ slot = None
    /\ toServer = <<>>
    /\ toClient = <<>>
    /\ snaps = <<>>
    /\ locals = <<>>

ClearPipes == toServer' = <<>> /\ toClient' = <<>> /\ snaps' = <<>> /\ locals' = <<>>

\* Mutant of Deliverable: the snapshot that is delivered overtakes none.
DeliverableInAnyOrder(k) == [data |-> snaps[k], rest |-> RemoveAt(snaps, k)]

\* An unreliable sequenced pipe delivers one and forgets those before it.
Deliverable(k) == [data |-> snaps[k], rest |-> SubSeq(snaps, k + 1, Len(snaps))]

\* One more snapshot on the way; beyond the bound one of them is lost.
WithSnapshot(data) ==
    LET sent == Append(snaps, data) IN
    IF Len(sent) <= SnapsInFlight THEN {sent}
    ELSE {RemoveAt(sent, k) : k \in DOMAIN sent}

-----------------------------------------------------------------------------
(* The connection.                                                          *)

Accept ==
    /\ slot = None
    /\ client.state = "kConnecting" /\ mode = "connecting"
    /\ \E c \in Clients : Connect(c) /\ slot' = c
    /\ UNCHANGED <<clientVars, pipes>>

\* The server's end is gone; what it sent before may still arrive.
CleanupMine ==
    /\ slot # None
    /\ CleanupClient(slot)
    /\ slot' = None
    /\ toServer' = <<>>
    /\ UNCHANGED <<clientVars, toClient, snaps, locals>>

Updating == mode # "endgame" /\ frame = "update"

StartConnection ==
    /\ Updating
    /\ client.state = "kConnecting"
    /\ slot # None
    /\ client' = InitConnection(client)
    /\ toServer' = <<Ping, JoinGame>>
    /\ UNCHANGED <<serverVars, mode, frame, slot, toClient, snaps, locals>>

Listening == Updating /\ client.state \notin {"kConnecting", "kDisconnected"}

\* The client's end is gone, for whatever reason; the server has yet to see it.
LoseConnection ==
    /\ Updating
    /\ client.state # "kDisconnected"
    /\ client' = Disconnected(client)
    /\ slot' = None
    /\ ClearPipes
    /\ UNCHANGED <<serverVars, mode, frame>>

-----------------------------------------------------------------------------
(* Messages to the server and what it answers.                              *)

MyEntry(g) == games[g].entries[EntryOf(games[g], slot)]

ReceivePing ==
    /\ Receives(slot)
    /\ toClient' = Append(toClient, Pong)
    /\ UNCHANGED <<serverVars, snaps, locals>>

\* GameInstance::JoinPlayer sends LoadLevel to a client it lets in.
ReceiveJoinGame ==
    /\ \E validName \in BOOLEAN : HandleJoinGame(slot, AnyGame, validName, TRUE)
    /\ toClient' = IF inst'[slot] # None /\ EntryOf(games'[inst'[slot]], slot) # 0
                   THEN Append(toClient, LoadLevel(MyEntry(inst[slot])'.token))
                   ELSE toClient
    /\ UNCHANGED <<snaps, locals>>

IsLoaded(g) == Live(g) /\ EntryOf(games[g], slot) # 0 /\ MyEntry(g).loaded

\* GameInstance::HandlePlayerLoaded sends the client data and a snapshot.
ReceiveFinishLoading(token) ==
    /\ HandleFinishLoading(slot, token)
    /\ LET g == inst[slot] IN
       IF g # None /\ ~IsLoaded(g) /\ IsLoaded(g)'
       THEN /\ locals' = Append(locals, MyEntry(g).index)
            /\ snaps' \in WithSnapshot(games'[g].data)
       ELSE UNCHANGED <<locals, snaps>>
    /\ UNCHANGED toClient

ServerReceives ==
    /\ slot # None
    /\ toServer # <<>>
    /\ UNCHANGED <<clientVars, slot>>
    /\ \/ Head(toServer) = Ping /\ ReceivePing
       \/ Head(toServer) = JoinGame /\ ReceiveJoinGame
       \/ \E token \in Tokens :
             Head(toServer) = FinishLoadingMessage(token) /\ ReceiveFinishLoading(token)
    /\ toServer' = Tail(toServer)

\* A snapshot leaves after the match changed its state and before its update.
TickSendsToMe(f) ==
    /\ slot # None
    /\ inst[slot] # None
    /\ IsLoaded(inst[slot])
    /\ SendsSnapshot(f[inst[slot]])

ServerTick ==
    /\ \/ \E f \in TickChoices :
             /\ WholeTickWith(f)
             /\ IF TickSendsToMe(f)
                THEN snaps' \in WithSnapshot(f[inst[slot]].data)
                ELSE UNCHANGED snaps
       \/ HangingTick /\ UNCHANGED snaps
    /\ UNCHANGED <<clientVars, slot, toServer, toClient, locals>>

OtherConnections ==
    /\ \E c \in Clients \ {slot} :
        \/ Connect(c)
        \/ CleanupClient(c)
        \/ HandleJoinGame(c, AnyGame, TRUE, TRUE)
        \/ \E token \in Tokens : HandleFinishLoading(c, token)
        \/ HandleClientInput(c)
    /\ UNCHANGED sessionVars

-----------------------------------------------------------------------------
(* Messages to the client.                                                  *)

ReceiveMessage ==
    /\ Listening
    /\ toClient # <<>>
    /\ client' = IF Head(toClient) = Pong
                 THEN HandlePong(client)
                 ELSE HandleLoadLevel(client, Head(toClient).token)
    /\ toClient' = Tail(toClient)
    /\ UNCHANGED <<serverVars, mode, frame, slot, toServer, snaps, locals>>

ReceiveClientData ==
    /\ Listening
    /\ locals # <<>>
    /\ client' = HandleClientDataUpdate(client, Head(locals))
    /\ locals' = Tail(locals)
    /\ UNCHANGED <<serverVars, mode, frame, slot, toServer, toClient, snaps>>

ReceiveSnapshot ==
    /\ Listening
    /\ \E k \in DOMAIN snaps :
          /\ client' = HandleSimUpdate(client, Deliverable(k).data)
          /\ snaps' = Deliverable(k).rest
    /\ UNCHANGED <<serverVars, mode, frame, slot, toServer, toClient, locals>>

-----------------------------------------------------------------------------
(* Frames of the client.                                                    *)

FinishLoadingLevel ==
    /\ mode # "endgame"
    /\ client.token # NoToken
    /\ ~client.levelLoaded
    /\ client' = LevelReady(client)
    /\ UNCHANGED <<serverVars, mode, frame, slot, pipes>>

BeginUpdate ==
    /\ client' = Predict(client)
    /\ frame' = "update"
    /\ UNCHANGED <<mode, slot, pipes>>

SwitchMode(to) ==
    /\ mode' = to
    /\ UNCHANGED <<frame, client, slot, pipes>>

\* GameModeConnecting::Update up to the messages.
ConnectingFrame ==
    /\ mode = "connecting"
    /\ frame = "idle"
    /\ BeginUpdate
    /\ UNCHANGED serverVars

\* GameModeOnlineGameplay::Update up to the messages.
GameplayFrame ==
    /\ mode = "gameplay"
    /\ frame = "idle"
    /\ IF client.state # "kConnected" \/ ~client.sim.started
       THEN SwitchMode("connecting")
       ELSE IF client.sim.winningTeam # Undecided
       THEN /\ mode' = "endgame"
            /\ client' = ConvertToOffline(client)
            /\ slot' = None
            /\ ClearPipes
            /\ UNCHANGED frame
       ELSE BeginUpdate
    /\ UNCHANGED serverVars

\* The end of GameNetworkClient::Update, and what GameModeConnecting does next.
EndUpdate ==
    /\ Updating
    /\ frame' = "idle"
    /\ client' = FinishLoading(client)
    /\ toServer' = IF HasFinishedLoading(client)
                   THEN Append(toServer, FinishLoadingMessage(client.token))
                   ELSE toServer
    /\ mode' = IF client'.state = "kConnected" /\ client'.sim.started
               THEN "gameplay" ELSE mode
    /\ UNCHANGED <<serverVars, slot, toClient, snaps, locals>>

\* The button of the end of game mode: StartNetworkClient, GameModeConnecting.
PlayOnline ==
    /\ mode = "endgame"
    /\ client' = NewClient
    /\ mode' = "connecting"
    /\ UNCHANGED <<serverVars, frame, slot, pipes>>

Frame == ConnectingFrame \/ GameplayFrame \/ EndUpdate

SessionNext ==
    \/ Accept \/ CleanupMine \/ StartConnection \/ LoseConnection
    \/ ServerReceives \/ ServerTick \/ OtherConnections
    \/ ReceiveMessage \/ ReceiveClientData \/ ReceiveSnapshot
    \/ FinishLoadingLevel \/ Frame \/ PlayOnline

ServerHasGone == slot \notin {c \in Clients : conn[c] = "open"}

\* main() of the server updates the matches and reads the network in turn, so
\* neither is ever left out; the frames of the client and the loading of its
\* level go on; the pipes deliver, a snapshot when enough of them are sent.
Fairness ==
    /\ WF_allVars(ServerTick)
    /\ WF_allVars(ServerReceives)
    /\ WF_allVars(Frame)
    /\ WF_allVars(FinishLoadingLevel)
    /\ SF_allVars(StartConnection)
    /\ SF_allVars(ReceiveMessage)
    /\ SF_allVars(ReceiveClientData)
    /\ SF_allVars(ReceiveSnapshot)
    /\ SF_allVars(ServerHasGone /\ LoseConnection)

SessionSpec == SessionInit /\ [][SessionNext]_allVars /\ Fairness

-----------------------------------------------------------------------------
(* Properties.                                                              *)

Occurs(message, pipe) == \E i \in DOMAIN pipe : pipe[i] = message

\* The server has the client's connection and has not given it up.
Open == slot # None /\ conn[slot] = "open"

\* The handshake never loses its turn: as long as the connection is open, the
\* question the client waits on is under way, its answer is, or the server has
\* already done what the client waits for.  A client that was turned away is
\* the exception: nobody answers it.
HandshakeIsNeverLost ==
    Open =>
      /\ client.state = "kJoining" =>
            \/ Occurs(JoinGame, toServer)
            \/ \E t \in Tokens : Occurs(LoadLevel(t), toClient)
            \/ slot \in refused
      /\ client.state = "kLoading" =>
            /\ Listed(slot, inst[slot])
            /\ MyEntry(inst[slot]).token = client.token
            /\ ~IsLoaded(inst[slot])
      /\ client.state = "kWaitingForInitialSync" =>
            \/ Occurs(FinishLoadingMessage(client.token), toServer)
            \/ IsLoaded(inst[slot]) /\ (client.gotData \/ locals # <<>>)

\* A connected client knows its own slot: the player its index names is in the
\* match it shows, is not a bot and is ready, whichever snapshots were lost and
\* however far it has predicted; and on the server it is that player's entry.
\* GameModeEndGame looks up that player without a check.
ConnectedClientOwnsItsSlot ==
    client.state = "kConnected" =>
      /\ client.playerIndex \in DOMAIN client.sim.players
      /\ ~client.sim.players[client.playerIndex].ai
      /\ client.sim.players[client.playerIndex].ready
      /\ Open => IsLoaded(inst[slot]) /\ MyEntry(inst[slot]).index = client.playerIndex

\* No late snapshot takes the start of a match back while it is being played:
\* the fall back of GameModeOnlineGameplay to GameModeConnecting is left to
\* lost connections.
GameplayKeepsItsMatch ==
    mode = "gameplay" /\ client.state = "kConnected" => client.sim.started

\* A match that has started on a client has started on the server, with the
\* same people: who sits in which slot differs only by those who have left.
ClientShowsMatchOfServer ==
    client.state = "kConnected" /\ Open /\ client.sim.started =>
      LET data == games[inst[slot]].data IN
      /\ data.started
      /\ \A i \in DOMAIN data.players :
            i \in DOMAIN client.sim.players /\ client.sim.players[i] = data.players[i]

\* The server follows a stale pointer, or fills a match for ever.
ServerStuck == broken \/ pc = "fill"

\* A client that asked to join gets an answer, is disconnected, or is one of
\* those the server turned away without a word.
JoiningEnds ==
    client.state = "kJoining"
        ~> client.state # "kJoining" \/ (slot # None /\ slot \in refused) \/ ServerStuck

\* A client that loads a level comes to play, or loses its connection.
LoadingLeadsToPlay ==
    client.state = "kLoading"
        ~> mode = "gameplay" \/ client.state = "kDisconnected" \/ ServerStuck

\* A match ends on the client by its own prediction, even when the server has
\* stopped sending.
PlayEnds == mode = "gameplay" ~> mode # "gameplay"
=============================================================================
