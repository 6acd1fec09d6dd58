# StormBrewerEngine: verification project

StormBrewerEngine is a C++ engine for online games: a game server and a game
client that share one set of rules, a network layer, an asset pipeline with a
document server, an expression language, and the editor that ties them
together.  This directory holds the TLA+ models of its core logic, the TLC
runs that check them on small instances and the TLAPS proofs of what they
promise for every instance.

Paths below are relative to the repository.

## 1. The system

| Part | State it keeps | Operations | Talks to | What makes it correct | Modelled by |
|---|---|---|---|---|---|
| Game rules, `Game/GameController.refl.cpp` | the replicated `GameInstanceData`: slots, started flag, countdown, round timer, winning team | add player or bot, player ready, player left, start, update, end | called by `GameInstance` | every team filled, result final and given by the clock | `GameController` |
| Game server, `GameServer/`, `GameServerExe/` | connections with a raw `m_GameInstance`, map of matches, per match its state, timers, list of players and id allocator | accept, clean up, join (any or by id), finish loading, events, input, the tick | StormNet (`ServerBase`), game rules | list and slots agree, pointers agree, nobody unloaded in a started match, matches end | `GameInstance`, `GameServer`, `GameServerWhole` |
| Game client, `GameClient/` | connection state machine, load token, initial-sync flags, interpolation buffer | connect, join, load, finish loading, updates, disconnect, offline mode | game server over five channels, asset loading | reaches the match once, drops what it cannot apply | `GameClient`, `GameSession` |
| WebRTC server, `StormWebrtcServerAPI/` (a second copy in `StormWebrtc/`) | slots with generations, the map from addresses to slots, SCTP associations and data channels, an event queue | handshake, open channel, send, receive, disconnect, timers | back end, mbedtls, usrsctp | map and slots agree, events of a connection are paired, a slot is reused only when clean | `StormWebrtcServer` |
| StormNet bindings, `StormNetCustomBindings/` | a transmitter per connection, numbers of sequenced pipes, serializers | poll events, disconnect, write and poll packets | StormNet, WebRTC server | a transmitter reaches the peer it was made for, a sequenced pipe never goes back | `NetServerBackendWebrtc`, `SequencedPipe` |
| Foundation threads, `Foundation/Thread` | lock-free queue of slots, semaphore count | enqueue, try dequeue, wait, release | asset loader | no message lost or doubled, no wake-up lost | `MessageQueue` and its instances, `Semaphore` |
| Engine assets, `Engine/Asset` | request and response queues, reference counts, loader threads | request, load, post-process, release, shut down | Foundation threads | each request is answered once, reference counts balance | `AssetLoader` |
| Foundation documents, `Foundation/Document`, `DocumentServer/` | content, load state, undo and redo lists, links; who has which document open | open, close, change, undo, redo, save, reload, link | editor over WebSocket, file system | every client sees every change once and in order, undo leads back | `Document`, `DocumentServer` |
| Editor, `Editor/`, QTUtil | tabs with two copies of a document each, hot spots; Qt widgets | open, edit, undo, redo, save, close, reconnect | document server | what a tab shows is the document, but for what is on its way | `DocumentEditor` (its documents; not its widgets) |
| Server objects, `Server/ServerObject/` | slots with generations, reserved and dynamic objects, handles | create, destroy, resolve handle, serialize, copy for rollback | game rules, snapshots | a handle never resolves to another object | - |
| Foundation containers, `Foundation/{SparseList,SkipField,Handle,CircularBuffer,Allocator}` | slots with links, skip counts, generations, free list | emplace, remove, iterate, resolve, allocate, release | everything | no slot handed out twice, iteration sees each element once | - |
| Foundation network, `Foundation/Network/WebSocket.cpp` | handshake and frame state | connect, send, receive, close | document client | frames are reassembled in order | - |
| Delegates and event lists, `Foundation/Delegate`, `Foundation/CallList`, `Foundation/Update`, `Runtime/Event` | linked lists of callbacks with removal while calling | add, remove, call, relocate | entities, UI, assets | a removed callback is not called | - |
| Engine entities and components, `Engine/{Entity,Component}` | entity handles, component lists, activation | create, destroy, activate, update | delegates, maps | no dangling component, deferred destruction | - |
| Engine audio, input, rendering, text, maps, UI | buffers, bindings, draw lists, the UI element tree | mix, bind, draw, lay out | SDL, OpenGL | mostly data transformation and I/O | - |
| Expression language, `StormExpr/` | expression blocks, value stack | parse, bind, evaluate | UI documents | evaluation computes what the expression means | - |
| WebRTC client, `StormWebrtcClientAPI/` | session, association, channels | connect, send, receive | StormNet back end | one session, channels in order | - (the peer in `StormWebrtcServer`) |

Section 6 says why the parts without a module have none.

StormNet, StormRefl and StormSockets are git submodules and External holds
vendored libraries; where the code above uses them they are modelled from that
use and marked external.

### The hard behaviours

* The game server is single-threaded but event-driven: joins, load messages,
  leaves, the load timeout and the tick come in any order, and connections and
  matches point at each other with raw pointers that neither owns.
* The same records are kept twice, by different classes: the list of
  connected players (`GameInstance`) and the replicated slots
  (`GameController`).
* The client applies unreliable snapshots while it is loading, connected or
  already gone.
* The message queue and the asset loader really are concurrent.
* WebRTC slots are freed on five paths, one of them inside a callback of
  usrsctp, while events of their connections still wait in a queue and the game
  still holds handles; generations and packet numbers wrap.
* Several editors change one document at a time, each from a copy of its own
  that runs ahead of the server's, over connections that are lost.

## 2. Modules

`GameController` (rules) and `GameInstance` (one match) are operators on
records; `GameServer` is the state machine that owns the matches, and
`MCGameServer` gives it to TLC.

| TLA+ | Code |
|---|---|
| `data.players` | `GameInstanceData::m_Players`, a sparse list: a function whose domain is the occupied slots |
| `data.started`, `.winningTeam`, `.countdown`, `.roundTimer` | the fields of the same name; `Undecided` is -1 |
| `game.entries` | `GameInstance::m_Players`, a vector of connected players |
| `game.nextId` | `m_PlayerIdAllocator`: no id is ever released, so its free list is always the ids from `nextId` on |
| `game.state`, `.loadTimer`, `.sendTimer` | `m_State`, `m_LoadTimer`, `m_SendTimer` |
| `games` | `GameInstanceManager::m_Games`; the key is chosen freely among the unused ones (`GetRandomNumber64`) |
| `inst[c]` | `GameClientConnection::m_GameInstance` of the connection in slot `c` |
| `conn[c]` | what StormNet knows of the slot: free, open, or told to disconnect |
| `pc`, `current`, `remaining`, `dead`, `cursor` | where the thread stands in `GameInstanceManager::Update`, its iterator, `dead_games` and the index of `RemovePlayersWhoHaventLoaded` |
| `broken` | a pointer to a match or connection that no longer exists was used; undefined in C++, so the model stops |
| `refused`, `displaced` | history only: connections attached to a match that turned them away; matches in which a join overwrote a bot |

The thread handles messages only between two ticks (`pc = "network"`), as
`main` does.  A tick is cut at its loops so that the loops themselves can be
studied: one step per match, per kick and per bot.  `GetRandomTeam` is a choice
among the least populated teams.  A load token is drawn from `Tokens`, a
message carries any of them.

Left out of these modules: names and their validation (a Boolean says whether
the name was valid), the stage list (a Boolean), the objects of a match, the
contents of snapshots and events, `ClientInput` (it has no fields) and the
network modes that `GameNetworkSettings.h` compiles out.

What the models show of the code, beyond the properties:

* **A refused connection can outlive its match.** `GameInstanceManager::JoinPlayer`
  stores `m_GameInstance` before it calls `GameInstance::JoinPlayer` and ignores
  the answer.  A match that has started, or has used up its ids, answers no; the
  connection keeps the pointer, and the match is erased when its last listed
  player leaves.  `BrokenOnlyByRefusal` says that this is the *only* way to a
  stale pointer as long as nobody joins by id: when one is used, a connection that
  was turned away points at a match that is gone.
* **A join by id attaches nothing** (`GameInstanceManager.cpp:82`), so such a
  player can never finish loading and stays listed when it is gone.  The
  repository's client always asks for game 0, so the main run has no joins by
  id; `game_server_by_id` has them and shows what still holds.  `WaitingEnds`
  excuses the match that such a player haunts (`Haunted`).
* **A join during the load wait can overwrite a bot.** The id allocator does
  not know about bots.  The overwritten bot's team may now be empty with no slot
  free, and `FillWithBots` then loops for ever.  `EveryTeamCanBeFilled` leaves out
  the matches in which that has happened (`displaced`) and shows that every other
  match has a slot for each empty team, so the hang needs such a join; `WaitingEnds`
  excuses exactly that loop (`Spinning`).  No property excludes the hang itself,
  which the code has.

### Client and session

`GameClient` holds the operators of the network client's record and
`GameSession` composes it with the server.

| TLA+ | Code |
|---|---|
| `client.state`, `.loaded`, `.gotSim`, `.gotData`, `.gotPing`, `.token` | `m_State`, `m_Loaded`, `m_GotInitialSim`, `m_GotInitialClientData`, `m_GotInitialPing`, `m_LoadToken` of `GameNetworkClient` |
| `client.levelLoaded`, `.sim`, `.playerIndex` | `m_Loaded`, `m_Sim` and `m_ClientData.m_PlayerIndex` of its `GameClientInstanceContainer` |
| `mode`, `frame` | the current game mode, and whether `GameNetworkClient::Update` is between its prediction and its last part, where messages come in |
| `slot` | which connection of the server is this client's; `None` once either end is gone |
| `toServer`, `toClient`, `locals`, `snaps` | pipes 0 (both ways), 4 and 3 of `GameProtocol.h` |

The client is one process, the server another: they share only the pipes.
Message pipes are reliable and ordered, each by itself; a snapshot may be lost
or delayed but never follows a later one.  Either end may lose the connection
at any time, and the two ends notice separately.  The other connections of the
server send any message at any time, so they stand for any other client and for
an old connection of this one.

A session needs no tick taken apart, since a tick shares its thread with the
messages.  `GameServerWhole` therefore has the tick as one step, and
`GameServerRefinement` shows that `GameServer` implements it: a history variable
keeps connections and matches as they were when the tick began, and until the
tick is over the abstract server is still that.  A hang in `FillWithBots` maps
to a step of its own (`HangingTick`), so that the session does not wait for a
tick that never ends without saying so.

What it shows beyond the properties: a client that a match turns away stays at
"Joining..." for ever, because nobody looks at the answer of `JoinPlayer`
(`JoiningEnds` names it as the one exception); a client that loses its
connection stays in `GameModeConnecting`, whose branch for it is empty; and the
match ends on a client by its own prediction, so the last client may leave, and
the match be erased, before the server has decided it.

### Message queue

`MessageQueue` has one action per access to shared memory of
`Foundation/Thread/MessageQueue.h`, in program order, over a sequentially
consistent memory (the atomics use the default order; `m_Tail`, `m_Head` and
`m_Queue` are volatile or plain and are read and written whole).

| TLA+ | Code |
|---|---|
| `tail`, `head`, `queue` | `m_Tail`, `m_Head`, `m_Queue` |
| `hasData[s]`, `storage[s]` | `m_Array[s].m_HasData`, the message last put into `m_Array[s].m_Data` |
| `prod[p]` | where a producer stands in `Enqueue`, with `message`, `message_index`, `idx` |
| `cons[c]` | where a consumer stands in `TryDequeue`, with `idx`, `val` |
| `Dirty` | messages whose first three bytes are not all zero |
| `broken` | a consumer indexed `m_Array` with -1; undefined in C++, so the model stops |

`AbstractQueue` says what callers rely on: a bounded first-in first-out queue.
The code keeps that promise only while its threads are *punctual*: nothing stops
a thread between its read of `m_Head` (or of `m_Queue`) and its compare-exchange,
and if the others meanwhile take the ring once round, the compare-exchange
succeeds on an old view.  `PunctualNext` says exactly what must not happen.

The asset loader uses the queue in two ways, and its default of two loader threads
makes both shared at one end: `m_LoadRequests` has one producer (the main thread)
and two consumers, `m_LoadResponses` two producers and one consumer.  In both a
thread can be late.  `MessageQueueShared` is about this use; its variable `threads`
chooses between the two and `late` remembers whether a thread has been late: until
then the queue implements `AbstractQueue` (`ImplementsQueue`), and afterwards late
producers still never share a slot (`SlotsHaveOneOwner`).  What else a late thread
breaks, an empty place that is published or a message taken out of order, is what
the code does and no property excludes it.  `MessageQueueAttempts` is the special
case of one thread at each end (one loader thread): there nobody is ever late
(`AlwaysPunctual`, proved for every length), and it adds what the two answers of
`Enqueue` mean.

`m_HasData` is one byte and the allocation compares four, so a slot is free
only if the first three bytes of its last message are zero too
(`Allocatable`).  Requests and responses begin with an asset pointer, which is
still there after the message was destroyed, so in practice their slots are
used once.  After `m_Length` messages `Enqueue` answers false for ever.

### Semaphore

`Semaphore` takes one step per critical section of
`Foundation/Thread/Semaphore.cpp`.  A sleeping thread is woken by a
notification, a timeout or by itself, and then competes for the mutex again.
`WaitOne(ms)` goes back to sleep after a timeout, so both forms are one action.
The module is also used as a part: the asset loader extends it, takes `Threads`
as its loader threads and its steps as part of its own.

### Asset loader

`AssetLoader` is the native build of `Engine/Asset`: the main thread creates
assets and finalizes responses, the loader threads read files, the two queues
are those of `AbstractQueue`, that is, the model is of runs in which no thread is late,
and the semaphore is `Semaphore`.

| TLA+ | Code |
|---|---|
| `assets` | `m_Assets` and `m_AssetLookup` of the managers; per asset `m_RefCount`, `m_State`, `m_LoadError` (whether it is 0) |
| `users` | how many `AssetReferenceBase` objects of others refer to an asset |
| `main`, `call` | where the main thread stands: its frame, `ProcessResponses`, a callback, `ShutDown`; and its call of `RequestFileLoad` |
| `requests`, `responses` | `m_LoadRequests`, `m_LoadResponses`; `fresh` counts the slots never used |
| `count`, `sleeping`, `woken` | `m_LoadSemaphore`: its count, the threads asleep on it, the threads on their way back to the mutex |
| `thread`, `running` | where each thread stands in `LoadThread`, `m_Running` |

Two things of the code are simpler than they look.  `WebSocket::IsConnecting` is always false in
the native build, so `delay_requests` is cleared at the first wake-up; and
`ReloadThread` starts a connection only if it is already connected, so nothing
is ever reloaded.  Hence `m_ModifiedFiles` stays empty.

What the model shows beyond its properties: a file that cannot be read ends the
loader thread that found it (`return` after the answer), so two bad files stop
all loading with the default of two threads; and the wear of the queues makes
`RequestFileLoad` spin for ever after `m_Length` assets.  `EveryLoadEnds` names
both as its only exceptions, and `ShutDownEnds` the second.

### WebRTC server and back end

`StormWebrtcServer` holds the operations of the server object as operators on
one record (`host`) and the steps of `Update` as actions; `NetServerBackendWebrtc`
extends it by the StormNet back end, which polls the server's events.  One
thread does both, `pc` says where it is: at the one datagram that `Update`
reads, at the timers, or at the events.  The repository ships with ENet
(`GameNetworkSettings.h:20` comments `NET_USE_WEBRTC` out), which is external;
these modules are of the build that enables WebRTC.

| TLA+ | Code |
|---|---|
| `host.connections[s]` | `m_Connections[s]`; `offered` says whether the peer was sent `DATA_CHANNEL_OPEN` for the server's channels |
| `host.connectionMap`, `.nextConnection`, `.inputQueue` | `m_ConnectionMap`, `m_NextConnection`, the queue that `PollEvent` reads |
| `transmitters[s]` | `m_Transmitters`: the handle and the address a transmitter was made for |
| `GetRaw`, `FromRaw` | `StormWebrtcConnectionHandle::GetRaw` and its constructor |
| `created`, `abandoned` of a slot | `m_IncStreamCreated` with `m_OutStreamCreated`; whether usrsctp still has an association whose `m_SctpSocket` was overwritten |
| `pc` = "allocated twice", "freed nothing", "data for nobody" | the back end allocates a transmitter over another (an exception), frees or follows a null one: the process is over |
| `shared`, `forced` | history only: slots in which a session was set up over a live one; slots whose connection the game has ended |

mbedtls and usrsctp are external.  A handshake step goes on, ends or fails; a
packet of an association calls back with nothing, one or two of the things it
may have to say (`Callbacks`).  When a slot is freed a second time, its socket is
closed a second time too; what usrsctp does with that is not modelled.  The peer is this repository's client.

What the models show of the code, beyond the properties:

* **The search for a free slot tests one slot and takes another**
  (`StormWebrtcServerImpl.cpp:771`).  With three slots the third connection can
  be set up in a slot in use, and the code goes on.  Two addresses then lead to the
  slot; its `m_Connected` is reset without a word to the game; the association of
  the session before is never closed, and when usrsctp gives it up, or a new peer
  restarts it, whoever has the slot now is ended.  When the slot is freed, only one
  address loses its entry.  The other leads to a free slot, later perhaps to
  somebody else's, and a datagram from it can end that connection, or delete the
  entry of another, or queue a second `kDisconnected`, for which the back end frees
  a transmitter that is not there.  The model follows all of this; `shared` holds
  the slots to which it has happened, and the properties say what is left: a
  transmitter is still never allocated over another and never reaches a wrong peer,
  and slots to which it has not happened keep their promises.
* **A slot connects once.**  `m_CreatedDataChannels` is never reset, so the next
  peer of the slot is not offered the server's channels and never becomes
  connected.  That is a defect and no property: the proofs use that it is so, and
  would have to compare generations if the flag were reset.
* **A handle does not survive its conversion.**  `GetRaw` puts the slot into the
  high half, the constructor takes it from the low half, so the back end's
  `ForceDisconnect` names slot = generation and generation = slot.  Together with
  the last point this means that a forced disconnection rarely finds anybody;
  when it does, nothing tells the back end, and the transmitter stays
  (`GameKnowsItsPeers` names it, by `forced`, as one of two ways to such a
  transmitter).
* **Early data.**  Data that overtakes the acknowledgement that completes its
  connection is polled before there is a transmitter, and the back end follows a
  null pointer.  `OnlyEarlyDataIsLost` says that this is the only way there.

### Sequenced pipes

`SequencedPipe` is a pipe of mode `kUnreliableSequenced` over WebRTC: an eight
bit number before each packet, compared by the reader with the last one.  The
reader subtracts as `int`, so a packet with a smaller number gives a negative
difference and is handed over although it was overtaken; only what is more than
128 numbers ahead is dropped.  `NeverGoesBack` is violated (run `sequenced_pipe`,
listed as a finding); what the comparison does achieve is proved: it never drops
a packet that is newer by 128 at most (`NewerIsKept`).  The session's snapshots
(`GameSession`) come through the default ENet build, whose pipes are sequenced;
over WebRTC `GameplayKeepsItsMatch` would not be protected.

### Documents

`Document` holds the operators of one document, `DocumentServer` the handlers of
the server, one action per message and one for the watcher of the file system,
and `DocumentEditor` composes them with editor processes.

| TLA+ | Code |
|---|---|
| `doc` | the entry of `m_OpenDocuments` for the file: its `Document` with `m_State`, content, `m_Undo`, `m_Redo`; `None` while it is not open |
| `connections`, `documentList[c]` | `m_Connections` of the entry, `m_DocumentList` of each client, in their order |
| `disk`, `lastModified`, `watcher` | the file, `m_LastModifiedTime`, writes that the watcher has seen |
| `toServer[c]`, `toClient[c]`, `connected` | the WebSocket connection of each editor process |
| `tabs[c][id]` | a `DocumentEditor`: its state, its own copy, the server's copy, its hot spots; `None` when closed |
| `incidents`, `base`, `doubled` | a bound and two histories |

The content gives every path a value; StormRefl and StormData, which hold the
documents' data and are not in the tree, are taken to do that.  The document has
no links, so it is compiled to what is in its file, and every handler sends its
changes before it returns.  The server runs in its root directory, where
`last_write_time` finds the file it just wrote.

What the models show beyond the properties: `m_UnacknowledgedChanges` is counted
down and never up, so a tab is set back to the server's copy at its hot spots by
every change that comes in, also while its own change is on its way (the change
then shows up again when it returns); a process with two tabs of one document
(`newFile` does not look for an open tab) has the first entries of the server's
lists removed when it closes either, which may leave a tab open that nobody
serves (`OnlyDoubledTabsAreMute` shows that it takes two tabs); the last close
writes the file even if it could not be parsed; the redo list survives new
changes, and reloading keeps both lists.

## 3. Runs

| Run | Instance | Question |
|---|---|---|
| `game_server` | 3 clients, 2 matches, 3 slots, 2 teams, all timers 1, no joins by id | pointers, kicks, teams, results |
| `game_server_by_id` | 2 clients, 1 match, 3 slots, 2 teams, 2 load tokens, joins by id | lists, slots and loaded players with joins by id and wrong tokens; waiting ends, started matches are decided |
| `server_tick_refinement` | 2 clients, 2 matches, 3 slots, 2 teams, all timers 1 | the tick cut at its loops implements the tick as one step |
| `game_session` | 2 connections, 1 match, 2 slots, 2 teams, timers 0, 1 snapshot on its way | view of a client among others |
| `game_session_clocks` | 1 connection, clocks and timers 1, 2 load tokens, 2 snapshots on their way, snapshot every second tick | handshake, late snapshots, tokens, match after match |
| `game_session_liveness` | 1 connection, timers 0, 1 snapshot on its way | joining, loading and playing come to an end |
| `queue_attempts` | 1 producer that insists, 1 consumer, length 3, dirty and clean messages | no thread is late; what the answer false means; messages arrive |
| `queue_shared` | 2 producers and 1 consumer, or 1 and 2, length 3 | punctual threads implement the bounded queue; what late producers leave |
| `asset_loader` | 2 assets, 2 threads, queues of 4 and 3 slots, 2 users per asset | references, requests, permits; loads end, shut-down ends |
| `webrtc_server` | 3 slots, 2 addresses, 4 generations, 1 channel each way, 5 accepts | map and slots, pairs of events, transmitters, early data, whom the game knows, also after a session was set up over a live one |
| `sequenced_pipe` | 300 packets, at most 3 behind | expected to be violated: an overtaken packet is handed over |
| `documents` | 2 editors, 2 tabs, 2 paths, 2 values, 3 incidents | messages lead tabs to the server's data, hot spots go, undo leads back, who is served |

Type invariants are not run again where a theorem proves them
(`ServerTypeCorrect`, `QueueTypeCorrect`, `PipeTypeCorrect`, and as parts of the
invariants of the other proofs).

Bounds.  `Clients` bounds simultaneous connections, not connections over time: a
slot is reused.  Three clients are needed for the cases that matter: one player
to keep a match alive, one to be kicked, one to join between.  Two matches let a
connection outlive one match while another takes over its key.  Three slots and
two teams leave a slot that is neither filled by the first bot nor needed for
it, so a join can meet a bot; two slots and two teams (the sessions) is the shape
of the shipped constants (four and four), where bots fill every slot.  Timers of
one tick make every order of timeout and message possible, since any number of
messages fits between two ticks; longer timers only repeat the same choices.
In the sessions a timer of zero loses no order either: the client and the ticks
run at any relative speed.  `SnapsInFlight` bounds the snapshots on their way;
when one more is sent any of them is lost, and two are enough for one to come
late.  No other action is guarded by an artificial bound; `GameIds` limits the number of
live matches.

A ring of three places holds at most two messages: empty, partly filled, full
and wrapped around all occur, and a thread can be late by a whole round.  Two
messages tell order, loss and doubling apart, and one of them may be dirty.
Where `Spurious` is true compare_exchange_weak may fail without reason; it is
off where that only repeats a loop.  In `queue_shared` messages, producers and
consumers are symmetric, which its safety properties allow.  In the asset loader
the queues themselves are the bound, since a slot serves once: four slots carry four
requests, more than there are assets, so assets are unloaded and loaded again.
One slot less for responses lets a loader thread meet a queue that takes nothing
any more.
`MaxUsers` bounds the references to one asset.

With three WebRTC slots the third accept may or may not find its slot taken, after
any history of the slots; `MaxAccepts` leaves two more, in which what is left of the
overwritten session meets new ones.  TLC reaches the slot with two addresses, the
deleted entry of another slot, the abandoned association that ends a new session,
and the second `kDisconnected`.  Four generations instead of 2^16 let them wrap
within these connections and let a slot and a generation be confused by the
handle conversion, which needs them to be of one range.  Two addresses let one peer
leave and another take its slot.  In `documents`, `MaxIncidents` bounds
edits, undos, redos, saves, lost connections and outside writes together, since
undo lists and pipes would otherwise grow; opening, closing and the delivery of
messages are free.  A transaction sets one path, or sets it and sets it back, so
that undo has an order to get wrong.  Clients and paths are symmetric.  300
packets take the number of the pipe across its wrap.

`CHECK_DEADLOCK FALSE` is set because the model stops on purpose when a stale
pointer is used (`broken`) and FillWithBots' endless loop is a stuttering step;
in `queue_shared` because a thread has used the index -1 or consumers have been
late; in the asset loader because the program ends; in `webrtc_server` where the back
end loses the process in one of the ways `pc` names; and in `documents` and `sequenced_pipe` where
the bounds are used up.

Fairness.  `main` calls the network update and, at 60 Hz, the tick in an endless
loop, so `Spec` has `WF_vars(Tick)`: the thread never stops in the middle of a
tick and ticks keep coming.  Nothing is assumed of clients or the network there.  The session adds what its
liveness needs: the client's frames and the loading of its level go on (weak
fairness), the server reads what has arrived (weak fairness, `main` again), the
pipes deliver (strong fairness, since a client only listens inside a frame; for
snapshots it says that not all of an endless stream are lost), and a client
whose connection the server has given up notices it in the end.  The queue and
the asset loader assume of every thread that it goes on running (weak fairness
per thread) and of the main thread that frames keep coming; who calls LoadAsset,
drops references or shuts down is free.  A loader thread that was woken gets the
mutex in the end; that it is woken at all is not assumed.

## 4. Proofs

`CollectionLemmas` holds facts about sequences, minima, counting and folds that
the library does not state.  `GameServer_proofs` proves, for every value of the constants
allowed by the ASSUMEs of the modules:

* `ServerTypeCorrect`, `EntriesAlwaysOwnSlots`, `StartedMatchesAreLoaded`,
  `MatchesAreDecidedByTheClock`, `KickingStaysInList`, `ResultsAreFinal` for
  every set of join ids, and `TeamsCanAlwaysBeFilled` if `MaxTeams <= MaxPlayers`;
* `EntriesAlwaysPointBack`, `AttachedAreAlwaysListed`, `OnlyRefusalBreaks`,
  `EventsAlwaysReachStartedMatch` under `JoinIds \subseteq {AnyGame}`.

The argument.  `ServerInv` adds to the type invariant that every match satisfies
`MatchInv` and that the thread stands at a match that exists with its index
inside the list.  `MatchInv` joins what the properties say of one match with
`IdsAreDrawnInOrder`: the ids in use are below `nextId`, without which a new
player could be given a slot another player owns, and `EntriesOwnTheirSlots`
would not be inductive.  Starting a match is the step where its parts need each
other: the rules only look at the slots' ready flags, and it is
`EntriesOwnTheirSlots` that turns them into loaded entries.  Each operation on a
match has a lemma (`JoinPlayerOK`, `RemovePlayerOK`, ...), each action one case.
`ResultsAreFinal` follows from the same invariant: the only operation that could
withdraw a result is `PlayerLeft`, and a decided match has started and the
player who leaves it still has its slot.

`TeamsCanAlwaysBeFilled` needs more of a waiting match than the property says
(`HasRoom`): its empty teams never outnumber its free slots as long as no join has
overwritten a bot in it.  To seat somebody in the team that `GetRandomTeam` gives
takes one slot and, while there is an empty team, one empty team; who leaves frees
one slot and empties one team at most; a join over a bot puts the match among the
`displaced`, which the property excuses.

`PointerInv` states both directions of the pointers, that only matches without
players are on the list of dead ones, and that nothing was broken without a
refusal; a client is in at most one list because a list it is in is the one it
points to.

`MessageQueue_proofs`: `QueueTypeCorrect` for any threads; `OneOfEachIsPunctual`
for at most one producer and one consumer.  `AloneInv` says that what the
producer has read of `m_Head` is still true and that the room it found is still
there, and the same of the consumer with `m_Tail` and the place behind it; each
end only makes the other's condition easier, because `Next1` is injective.

The refinement, `QueueIsImplemented`, rests on `QueueInv`, which holds of any
number of punctual threads: `head` and `tail` bound a stretch of the ring
(`RingInv`), the slots some thread has claimed lie outside what the others may
claim (`Apart`), every slot between the two holds data unless a thread is still
busy with it (`Kept`), and the data is the message the abstract queue holds at
that place (`MessagesInPlace`).  The mapping alone is not inductive: that a
consumer takes the abstract queue's head needs the place of every message, and
that needs the slots apart.  Each step is then the abstract enqueue, the abstract
dequeue or a stutter (`ProducerImplements`, `ConsumerImplements`, `CallImplements`).
`AloneIsAQueue` joins this with `OneOfEachIsPunctual`: with one thread at each end the
queue implements the abstract queue with nothing else assumed.  That is the
special case of one loader thread; for the two that the code starts by default,
`QueueIsImplemented` and its condition that no thread is late are what is known.
`SlotsStayApart` is about the queue as `MessageQueueShared` runs it, with late
threads among them: the slots of a late producer stay apart as long as what it
saw is followed by only one consumer.  It assumes that no thread is at both ends
(`SharedAssumption`), as the callers in the code are.  `RefusedForAReason` counts: a
producer that was refused found every slot spoken for when it looked, and if fewer
than all places held messages or were in somebody's hands, one slot would be free
(`SomeSlotIsFree`).

`AssetLoader_proofs` begins with the semaphore alone: `NobodyIsForgotten`, from the
types and disjointness of the sets of sleeping and woken threads, by counting the
woken ones.  The lemma `SemaphoreNextInv` serves the asset loader as well: every step
of the loader is a step of its semaphore or leaves it alone
(`StepsOfTheSemaphore`), so `NoWakeUpIsLost` holds there too.  Of the loader:
`NoRequestIsForgotten`, `ReferencesAlwaysBalance`, `OneRequestAtATime`.  For the first, `CoverInv` is the property with the types of
the pipeline and `SleepersNotForgotten`; a thread about to dequeue stands for one
request, and it stops either by taking one or by finding none.  The other two
are one invariant, `RefInv`: for every asset, `m_RefCount` is the number of its
users, of the places where its request or answer is (`Flight`) and of the
callbacks that run for it, and `Flight` is one while it is loading and none
otherwise.  The two halves need each other: that an answer is taken only while the
asset is there and loading follows from the count of places, and that the
count of references stays right when callbacks drop references follows from
the request's own.  A request that moves on keeps `Flight`
(`KeptBalanced`); `CollectionLemmas` counts what a queue holds before and after
`Append` and `Tail`.  Nothing is assumed of the queues' length, of how many
threads have ended, or of which files fail.

`NetServerBackendWebrtc_proofs`: `MapAlwaysMatchesSlots`, `EventsAreAlwaysPaired`,
`TransmittersReachTheirPeers`, `GameAlwaysKnowsItsPeers`, `OnlyEarlyDataIsEverLost`,
for any number of slots, addresses, channels, connections and generations, in runs
in which sessions are set up over live ones among others.  `BackendInv` joins the
server object and the transmitters (`HostInv`); every operation on the server keeps
it, and actions only compose operations.  At its heart is that a slot connects at
most once: it becomes connected when the peer has acknowledged the server's
channels, which are offered only while `m_CreatedDataChannels` is false.  So at most
one event ever connects a slot, which is all that the pairing of `kConnected` needs,
and generations need not be compared.  That at most one event, after it,
disconnects the slot holds only of slots never `shared`, and so does that its
address leads to it; of a `shared` slot the invariant keeps that its transmitter, if
the server still sends for it, is for the peer that is in the slot (`SlotInv`).  An
entry that a shared slot has left behind may delete the entry of any other slot,
which is why the second half of `MapMatchesSlots`, from slots to addresses, ends with
the first such slot anywhere.

`SequencedPipe` holds its own theorems: `PipeTypeCorrect`, and `NewerIsKept` from
the lemma `NumbersAreOrdered` about numbers modulo 256.

`GameSession_proofs`: `HandshakeGoesOn`, `ConnectedClientAlwaysOwnsItsSlot`,
`GameplayAlwaysKeepsItsMatch`, `ClientAlwaysShowsMatchOfServer`, for any number of
other connections, matches, slots, teams and tokens, any timers and any number of
snapshots on their way (without joins by id, as the client never sends one).
None of the four is inductive; `SessionInv`, which TLC had found to hold on the
instances of `game_session` and `game_session_clocks`, has three parts.
`SessionServer` is the server's own invariant between two ticks: `ServerInv` and
`PointerInv` again, now kept by the tick as one step.  `ClientInv` says what can be
in the pipes in each state of the handshake (`Pipes`) and that nothing of a match
reaches a client before the server has read that it loaded (`Received`).
`PlaceInv` ties the two ends together:

* `OnServer`: once the join is read the client has one entry in the match it
  is attached to, and the entry stands where the handshake does (`Promised`):
  its token is the one in the pipe or at the client, it is loaded exactly when
  the server has read so, and from then on the client has its data or the data is in
  pipe 4; or the match turned the client away and no level is on its way.
* `SeatedAt`: one slot is the entry's index, the index in everything in pipe 4,
  the client's own, and a ready player in every snapshot and in what the client
  shows.  `FinishLoading` before the answer to it is what makes the slot ready.
* `Chain`: what the client shows, the snapshots in their order, and what the
  server has follow one another (`Follows`): a match that has started has started
  in all that comes later, and a player who is still there later was there,
  unchanged, before.  This is where it matters that a match which has started
  lets nobody in, and that pipe 3 never reorders.

The tick needs the most: a match is advanced, filled and sent while other
matches lose their players, and everybody's entries but those of the kicked
stay (`TickKeeps`).  `Filled` and `Staying` are recursive functions; that
FillWithBots only adds bots (`FilledIsGrown`) and that what stays of a list is
what was not kicked (`StayingIs`) is shown by ordinary induction over the naturals,
spelled out in `CollectionLemmas` as a least counterexample (`Induction`,
`RecursionOnNat`), since the library's induction theorem cannot be used here.
Each action of the other connections keeps this client's entry unless it takes
the whole match (`NetworkKeeps`); each action of the client has one lemma.

`DocumentEditor_proofs`: `MessagesAlwaysLeadToServer`, `HotSpotsAreAlwaysTransient`,
`UndoAlwaysLeadsBack`, `OnlyDoubledTabsAreEverMute`, for any editors, paths, values,
transactions and outside files, and any number of tabs, messages and incidents:
`MaxTabs` and `MaxIncidents` only guard, and nothing is assumed of them.  The
assumptions are that transactions and files are what their names say
(`EditorAssumption`, `DocumentAssumption`).

The model folds over sequences where the code loops, and the library says nothing
of the community modules' folds.  `CollectionLemmas` shows that a fold is the last
of a list of values of which each comes from the one before (`Accumulates`), so that
`FoldLeft` over `Append` and over a head and a tail can be rewritten; everything
below rests on that.

* `ConnectionsAgree` is what the others need of the two lists that the server
  keeps and that `HandleClose` updates by two separate searches (`ConnInv`).  An
  entry may go that is not the one of the tab that closes; that as many entries stay
  as the client has left in its list is what keeps the document open exactly while
  somebody has it open, and so every message of an open tab has a document to go to.
* `UndoLeadsBack` needs one fact of `Document`: what `CommitUndo` keeps of changes
  takes them back, also when they write one path twice (`TakenBack`, by induction
  over the changes).  Then undo, redo and change each leave what undoing everything
  leads to.
* `MessagesLeadToServer` is inductive together with `ConnInv`.  To send a message to
  `connections` lengthens each pipe by exactly that message for each entry of the
  client, which reaches each tab once because no entry is there twice; a tab that
  opens gets its state last, and reading it makes what came before indifferent.
* `OnlyDoubledTabsAreMute` says little of a state with messages on their way.  The
  invariant (`SingleTabs`) does: the commands on their way to the server lead, one
  after the other, from the tab that the server has listed for the process to the tab
  that the process has.  With no commands left the two are the same.
* `HotSpotsAreTransient` names only quiet tabs too.  `AllSettle` adds why a tab with
  hot spots is never quiet: its change is on the way to the server or something for
  it is on the way back.  What the server does with the change has an answer for
  the tab because the document is loaded, and that it is follows from
  `MessagesLeadToServer`: a loaded tab with nothing on its way is that of a loaded
  document.

Only model-checked, because it is out of the prover's reach: all liveness
(`WaitingEnds`, `StartedMatchIsDecided` and those of the session, the queue and the
asset loader).  Only model-checked so far: that the tick taken apart at its loops
implements the tick as one step (`TickIsWhole`).  `NeverGoesBack` is refuted.

## 5. Plan

The order of the work was: game rules, match and server with their proofs; client
and session, and the tick as one step; message queue, semaphore, asset loader;
the WebRTC server with its back end and the sequenced pipes; documents with
server and editors; the proofs of the asset references, of the filling of
teams and of the WebRTC back end; those of the session, of the queue as an abstract
queue and of the documents.  What would come next:

1. Links between documents, the compiler and reload front ends of the document
   server, and document assets in the asset loader.
2. Server objects, skip field, handle list and id allocator, against an abstract
   set of live objects with handles that are never used twice.
3. Proofs: `TickIsWhole`, which needs that FillWithBots ends within as many rounds
   as there are slots.

## 6. Not modelled

Most of the tree is not the project's own code: `src/External` (SDL, mbedtls,
usrsctp, freetype, vorbis, clang and others) is 1.82 of its 1.95 million lines,
and of the rest a good part is generated (`*.meta.h`, `src/Editor/GeneratedFiles`).
Vendored and generated code has no place here; where the project's code calls it,
it is modelled from that use and marked external.
Of the project's own code these are left out:

* **Server objects.**  Slots, generations, copies and (de)serialization are
  sequential code whose objects are described by StormRefl and StormData, which
  are not in the tree.  The rules at this commit create no object
  (`GameController.refl.cpp:89` is commented out).  Two of their hazards are
  listed without a property.
* **Foundation containers and utilities, delegates, the expression language.**
  Sequential data structures and functions of their input, which the modelled parts
  use through what they promise.
* **WebSocket and the WebRTC client.**  Framing of bytes and socket I/O; the
  models see a connection that delivers in order and may be lost, and a peer that
  may send, stay silent or go at any point.
* **Parts of modelled components.**  Of the documents: links, deleted files, the
  asset, reload and compiler front ends, and `kChangeOk`, `kChangeLinks` and
  `kDocumentClosed`, which need links or change nothing.  An editor connects again
  only after the server has seen it go.  Of the assets: document assets with
  dependencies, the web build, bundles.  Of the network: STUN, the threaded build
  of the WebRTC server, the WebSocket back ends (they rest on StormSockets, not in
  the tree), the connection states of the client back end.  Of the client: the
  offline modes' use of the match (`ConvertToOffline`), interpolation, the input
  of a player.  Of the rules: bots' play and what happens in a round.
* **Engine, runtime data, editor widgets, QTUtil.**  Rendering, text, audio mixing,
  windows, layout and Qt: I/O and arithmetic on pixels, samples and glyphs on one
  thread.  The engine's entities are the client's drawn copy of the match;
  nothing flows back.
* Unit tests, and the PHP and shell tooling.
