------------------------- MODULE StormWebrtcServer -------------------------
(***************************************************************************)
(* The WebRTC server: connection slots with generations, the map from a    *)
(* remote address to its slot, and the queue of events for the back end.   *)
(* Translated from src/StormWebrtcServerAPI/StormWebrtcServerImpl.cpp, the *)
(* build without STORMWEBRTC_USE_THREADS.                                  *)
(*                                                                         *)
(* mbedtls and usrsctp are external: a handshake step goes on, ends or     *)
(* fails, and does not ask from which address its datagram came; a packet  *)
(* for an association calls back with nothing, one or two of the things    *)
(* the association may have to say.  The peer is a browser                 *)
(* that runs this repository's client: it opens each of its channels once, *)
(* acknowledges a channel it was offered and sends data when all channels  *)
(* are there on its side.  Packets of different streams may overtake each  *)
(* other, those of one stream may not.                                     *)
(*                                                                         *)
(* Not modelled: STUN requests, which are answered and change nothing.     *)
(***************************************************************************)
EXTENDS Integers, Sequences, Functions

CONSTANTS
    NumConnections,  \* m_NumConnections
    NumGenerations,  \* values of m_Generation, and of a slot in a handle (2^16)
    Remotes,         \* address and port pairs
    NoRemote,        \* the address of a slot that was never used
    InStreams,       \* m_InStreams: channels the client opens
    OutStreams,      \* m_OutStreams: channels the server opens
    MaxAccepts       \* bound: InitConnection calls

ASSUME WebrtcAssumption ==
    /\ NumConnections \in Nat \ {0}
    /\ NumGenerations \in Nat
    /\ NumConnections <= NumGenerations
    /\ NoRemote \notin Remotes
    /\ InStreams \cap OutStreams = {}
    /\ OutStreams # {}
    /\ MaxAccepts \in Nat

VARIABLES
    host,   \* the server object: slots, address map, counter, event queue
    shared, \* history: slots in which a session was set up over a live one
    pc      \* where the thread is in the Update of the back end

Slots == 0 .. NumConnections - 1
Streams == InStreams \cup OutStreams
Generations == 0 .. NumGenerations - 1

Connection ==
    [allocated : BOOLEAN, connected : BOOLEAN, createdDataChannels : BOOLEAN,
     hasAssoc : BOOLEAN, generation : Generations, handshakeOver : BOOLEAN,
     remote : Remotes \cup {NoRemote}, hasSocket : BOOLEAN,
     created : SUBSET Streams, offered : BOOLEAN, abandoned : BOOLEAN]

\* created stands for both m_IncStreamCreated and m_OutStreamCreated; offered
\* says that the peer was sent the server's channels; abandoned that usrsctp
\* still has an association of the slot whose socket was overwritten.
UnusedConnection ==
    [allocated |-> FALSE, connected |-> FALSE, createdDataChannels |-> FALSE,
     hasAssoc |-> FALSE, generation |-> 0, handshakeOver |-> FALSE,
     remote |-> NoRemote, hasSocket |-> FALSE, created |-> {}, offered |-> FALSE,
     abandoned |-> FALSE]

NewHost ==
    [connections    |-> [s \in Slots |-> UnusedConnection],
     connectionMap  |-> [r \in {} |-> 0],
     nextConnection |-> 0,
     inputQueue     |-> <<>>]

NextGeneration(g) == (g + 1) % NumGenerations

-----------------------------------------------------------------------------
(* Slots.                                                                   *)

WithConnection(h, s, c) == [h EXCEPT !.connections = [@ EXCEPT ![s] = c]]

\* The slot a new connection finds, in use or not: m_CreatedDataChannels keeps
\* its value, and m_SctpSocket is overwritten without being closed.
Opened(c, r) ==
    [UnusedConnection EXCEPT !.allocated = TRUE,
                             !.generation = NextGeneration(c.generation),
                             !.createdDataChannels = c.createdDataChannels,
                             !.remote = r,
                             !.abandoned = c.abandoned \/ (c.allocated /\ c.hasAssoc)]

\* With the step of m_NextConnection that follows.
InitConnection(h, s, r) ==
    [WithConnection(h, s, Opened(h.connections[s], r))
     EXCEPT !.connectionMap = [q \in DOMAIN @ \cup {r} |-> IF q = r THEN s ELSE @[q]],
            !.nextConnection = @ + 1]

Freed(c) ==
    [c EXCEPT !.allocated = FALSE, !.handshakeOver = FALSE,
              !.generation = NextGeneration(@)]

\* Mutant of CleanupConnection: the address keeps its entry in the map.
CleanupConnectionKeepsAddress(h, s) ==
    WithConnection(h, s, Freed(h.connections[s]))

\* m_Connected, m_HasAssoc and m_SctpSocket keep their values.
CleanupConnection(h, s) ==
    [WithConnection(h, s, Freed(h.connections[s]))
     EXCEPT !.connectionMap = Restrict(@, DOMAIN @ \ {h.connections[s].remote})]

\* The event as it is queued: the handle of the connection and its address.
Event(h, s, type) ==
    [type |-> type, slot |-> s, generation |-> h.connections[s].generation,
     remote |-> h.connections[s].remote]

Push(h, s, type) == [h EXCEPT !.inputQueue = Append(@, Event(h, s, type))]

\* Mutant of NotifySocketConnected: it marks the connection and queues nothing.
MarkSocketConnected(h, s) ==
    WithConnection(h, s, [h.connections[s] EXCEPT !.connected = TRUE])

NotifySocketConnected(h, s) ==
    WithConnection(Push(h, s, "kConnected"), s,
                   [h.connections[s] EXCEPT !.connected = TRUE])

\* Mutant of NotifySocketDisconnected: it does not ask whether the back end
\* was ever told of the connection.
NotifyAnySocketDisconnected(h, s) ==
    CleanupConnection(Push(h, s, "kDisconnected"), s)

\* Mutant of NotifySocketDisconnected: it cleans up and queues nothing.
CloseSocketSilently(h, s) == CleanupConnection(h, s)

NotifySocketDisconnected(h, s) ==
    CleanupConnection(IF h.connections[s].connected THEN Push(h, s, "kDisconnected") ELSE h, s)

-----------------------------------------------------------------------------
(* Callbacks of an association.                                             *)

\* SendInitialDataChannels: only the first time for this slot.
BootstrapConnection(h, s) ==
    LET c == h.connections[s] IN
    IF c.hasAssoc /\ ~c.hasSocket
    THEN WithConnection(h, s, [c EXCEPT !.hasSocket = TRUE,
                                        !.createdDataChannels = TRUE,
                                        !.offered = @ \/ ~c.createdDataChannels])
    ELSE h

CheckConnectedState(h, s) ==
    IF ~h.connections[s].connected /\ h.connections[s].created = Streams
    THEN NotifySocketConnected(h, s) ELSE h

\* SCTP_COMM_UP.
AssociationUp(h, s) ==
    CheckConnectedState(WithConnection(h, s, [h.connections[s] EXCEPT !.hasAssoc = TRUE]), s)

\* A channel the client opens needs DATA_CHANNEL_OPEN, one the server opens
\* DATA_CHANNEL_ACK; whatever comes on a created channel is data.
HandleSctpPacket(h0, s, type, stream) ==
    LET h == BootstrapConnection(h0, s)
        c == h.connections[s] IN
    IF stream \in c.created
    THEN Push(h, s, "kData")
    ELSE IF type = (IF stream \in InStreams THEN "open" ELSE "ack")
    THEN CheckConnectedState(WithConnection(h, s, [c EXCEPT !.created = @ \cup {stream}]), s)
    ELSE h

\* What the peer of slot s may make the association call back with.  A new peer
\* whose slot has an abandoned association restarts it, which is no COMM_UP.
Callbacks(h, s) ==
    LET c == h.connections[s]
        missing == Streams \ c.created
        restart == IF c.abandoned THEN {NotifySocketDisconnected(h, s)} ELSE {} IN
    IF ~c.handshakeOver THEN restart
    ELSE IF ~c.hasAssoc THEN {AssociationUp(h, s)} \cup restart
    ELSE {NotifySocketDisconnected(h, s)}
         \cup {HandleSctpPacket(h, s, "open", i) : i \in InStreams \cap missing}
         \cup {HandleSctpPacket(h, s, "ack", o) : o \in {o \in OutStreams \cap missing : c.offered}}
         \cup {HandleSctpPacket(h, s, "data", i) : i \in {i \in c.created : c.offered}}

\* usrsctp_conninput for one packet.
ConnInput(h, s) ==
    LET once == {h} \cup Callbacks(h, s) IN
    once \cup UNION {Callbacks(k, s) : k \in once}

-----------------------------------------------------------------------------
(* StormWebrtcServerImpl::Update.                                           *)

\* A context that was freed refuses, and the slot is cleaned up once more.
UpdateHandshake(h, s) ==
    {CleanupConnection(h, s)} \cup
    IF h.connections[s].allocated
    THEN {h, WithConnection(h, s, [h.connections[s] EXCEPT !.handshakeOver = TRUE])}
    ELSE {}

FreeSlots == {i \in Slots : ~host.connections[i].allocated}
FirstFree == CHOOSE i \in FreeSlots : \A j \in FreeSlots : i <= j

\* The search tests slot index, and takes the one m_NextConnection further on,
\* which may be in use.
SlotTaken == (host.nextConnection + FirstFree) % NumConnections

\* The first datagram of an unknown address.
AcceptDatagram(r) ==
    /\ r \notin DOMAIN host.connectionMap
    /\ FreeSlots # {}
    /\ host.nextConnection < MaxAccepts
    /\ host' \in UpdateHandshake(InitConnection(host, SlotTaken, r), SlotTaken)
    /\ shared' = IF host.connections[SlotTaken].allocated THEN shared \cup {SlotTaken} ELSE shared
    /\ pc' = "timers"

\* A datagram of a known address, whoever has the slot it leads to now; an empty
\* one ends the connection, as does an error of mbedtls_ssl_read.
KnownDatagram(r) ==
    /\ r \in DOMAIN host.connectionMap
    /\ LET s == host.connectionMap[r] IN
       \/ host' = NotifySocketDisconnected(host, s)
       \/ /\ host.connections[s].handshakeOver
          /\ \E h \in ConnInput(host, s) : host' = BootstrapConnection(h, s)
       \/ ~host.connections[s].handshakeOver /\ host' \in UpdateHandshake(host, s)
    /\ pc' = "timers"
    /\ UNCHANGED shared

\* Update runs at most one receive handler, and re-arms it for the next call.
Receive ==
    /\ pc = "receive"
    /\ \E r \in Remotes : AcceptDatagram(r) \/ KnownDatagram(r)

ReceiveNothing ==
    /\ pc = "receive"
    /\ pc' = "timers"
    /\ UNCHANGED <<host, shared>>

\* usrsctp_fire_timer gives up an association, one that the slot has or one
\* that it had.
AssociationTimesOut(s) ==
    /\ pc = "timers"
    /\ \/ host.connections[s].allocated /\ host.connections[s].hasAssoc
       \/ host.connections[s].abandoned
    /\ host' = NotifySocketDisconnected(host, s)
    /\ UNCHANGED <<shared, pc>>

\* The loop over the slots whose handshake is under way.
HandshakeTimesOut(s) ==
    /\ pc = "timers"
    /\ host.connections[s].allocated /\ ~host.connections[s].handshakeOver
    /\ host' = CleanupConnection(host, s)
    /\ UNCHANGED <<shared, pc>>

HostUpdated ==
    /\ pc = "timers"
    /\ pc' = "events"
    /\ UNCHANGED <<host, shared>>

HostInit ==
    /\ host = NewHost
    /\ shared = {}
    /\ pc = "receive"

HostUpdate ==
    \/ Receive \/ ReceiveNothing \/ HostUpdated
    \/ \E s \in Slots : AssociationTimesOut(s) \/ HandshakeTimesOut(s)

-----------------------------------------------------------------------------
(* Calls with a handle.                                                     *)

\* Mutant of Names: the slot is in use, whoever has it now.
NamesSlotInUse(h, handle) ==
    handle.slot \in Slots /\ h.connections[handle.slot].allocated

\* What SendPacket and ForceDisconnect ask before they do anything.
Names(h, handle) ==
    /\ handle.slot \in Slots
    /\ h.connections[handle.slot].allocated
    /\ h.connections[handle.slot].connected
    /\ h.connections[handle.slot].generation = handle.generation

ForceDisconnect(handle) ==
    /\ host' = IF Names(host, handle) THEN CleanupConnection(host, handle.slot) ELSE host
    /\ UNCHANGED shared

-----------------------------------------------------------------------------
(* An address that is known leads to a slot that is in use for it, unless   *)
(* two sessions were set up in that slot, one over the other; and as long   *)
(* as that has not happened anywhere, every slot in use is found under its  *)
(* address.  Map and slots are written in different places, a slot is       *)
(* released on five paths, one of them inside a callback; an entry that is  *)
(* left behind may delete that of another slot, hence the stronger          *)
(* condition of the second part.                                            *)
MapMatchesSlots ==
    /\ \A r \in DOMAIN host.connectionMap :
          LET s == host.connectionMap[r] IN
          s \notin shared => host.connections[s].allocated /\ host.connections[s].remote = r
    /\ shared = {} =>
          \A s \in Slots : host.connections[s].allocated =>
              /\ host.connections[s].remote \in DOMAIN host.connectionMap
              /\ host.connectionMap[host.connections[s].remote] = s
=============================================================================
