----------------------- MODULE NetServerBackendWebrtc -----------------------
(***************************************************************************)
(* The StormNet back end over the WebRTC server: it turns the events of    *)
(* the server into connections with a transmitter each, and the game's     *)
(* connection ids into handles.  Translated from                           *)
(* src/StormNetCustomBindings/NetServerBackendWebrtc.cpp,                  *)
(* NetTransmitterServerWebrtc.cpp and the handle conversions of            *)
(* src/StormWebrtcServerAPI/StormWebrtcServer.h.                           *)
(*                                                                         *)
(* A transmitter is the slot of a fixed array, allocated by kConnected and *)
(* freed by kDisconnected.  Allocating one that is in use throws; freeing  *)
(* or reading one that is not there follows a null pointer.  The process   *)
(* ends in each case, pc says how.                                         *)
(***************************************************************************)
EXTENDS StormWebrtcServer

CONSTANT None      \* no transmitter

VARIABLES
    transmitters,  \* m_Transmitters
    forced         \* history: slots whose connection the game has ended

backendVars == <<host, shared, pc, transmitters, forced>>

\* Handle and address of the connection a transmitter was made for.
Transmitter == [slot : Slots, generation : Generations, remote : Remotes]

ASSUME BackendAssumption == None \notin Transmitter

GetRaw(handle) == handle.slot * NumGenerations + handle.generation
FromRaw(raw) == [slot |-> raw % NumGenerations, generation |-> raw \div NumGenerations]

Init ==
    /\ HostInit
    /\ transmitters = [s \in Slots |-> None]
    /\ forced = {}

HandleEvent(e) ==
    LET known == transmitters[e.slot] # None IN
    CASE e.type = "kConnected" ->
            IF known THEN pc' = "allocated twice" /\ UNCHANGED transmitters
            ELSE /\ transmitters' = [transmitters EXCEPT ![e.slot] =
                       [slot |-> e.slot, generation |-> e.generation, remote |-> e.remote]]
                 /\ UNCHANGED pc
      [] e.type = "kData" ->
            /\ pc' = IF known THEN pc ELSE "data for nobody"
            /\ UNCHANGED transmitters
      [] e.type = "kDisconnected" ->
            IF known THEN transmitters' = [transmitters EXCEPT ![e.slot] = None] /\ UNCHANGED pc
            ELSE pc' = "freed nothing" /\ UNCHANGED transmitters

PollEvent ==
    /\ pc = "events"
    /\ host.inputQueue # <<>>
    /\ HandleEvent(Head(host.inputQueue))
    /\ host' = [host EXCEPT !.inputQueue = Tail(@)]
    /\ UNCHANGED <<shared, forced>>

EventsPolled ==
    /\ pc = "events"
    /\ host.inputQueue = <<>>
    /\ pc' = "receive"
    /\ UNCHANGED <<host, shared, transmitters, forced>>

\* The game drops a connection it has, in its own tick or while it handles an
\* event.  The id goes through FromRaw, which is not the inverse of GetRaw.
DisconnectClient(s) ==
    /\ pc \in {"receive", "events"}
    /\ transmitters[s] # None
    /\ LET handle == FromRaw(GetRaw(transmitters[s])) IN
       /\ ForceDisconnect(handle)
       /\ forced' = IF Names(host, handle) THEN forced \cup {handle.slot} ELSE forced
    /\ UNCHANGED <<pc, transmitters>>

Next ==
    \/ HostUpdate /\ UNCHANGED <<transmitters, forced>>
    \/ PollEvent \/ EventsPolled
    \/ \E s \in Slots : DisconnectClient(s)

Spec == Init /\ [][Next]_backendVars

-----------------------------------------------------------------------------
(* Properties.                                                              *)

\* Events of a slot are paired over any number of connections: a transmitter is
\* never allocated over one in use, and a disconnection finds the one that was
\* made for the connection, except in a slot where one session was set up over
\* another: there, the address left behind can end the connection once more.
EventsArePaired ==
    [][/\ pc' # "allocated twice"
       /\ pc' = "freed nothing" => Head(host.inputQueue).slot \in shared]_backendVars

\* Data finds no transmitter only when it overtook, on a channel of its own, the
\* last acknowledgement of its connection: that one is not established yet, or
\* the event that says so is still behind the data in the queue.
OnlyEarlyDataIsLost ==
    [][pc' = "data for nobody" =>
          LET s == Head(host.inputQueue).slot
              c == host.connections[s]
          IN  \/ c.offered /\ ~c.connected /\ c.created # Streams
              \/ \E i \in 2 .. Len(host.inputQueue) :
                    host.inputQueue[i].slot = s /\ host.inputQueue[i].type = "kConnected"
      ]_backendVars

\* A transmitter that the server still sends for belongs to the address that
\* is in its slot now: what the game sends to a player who has left never goes
\* to the next one in the slot.
TransmitterReachesItsPeer ==
    \A s \in Slots :
        transmitters[s] # None /\ Names(host, transmitters[s])
            => host.connections[s].remote = transmitters[s].remote

\* When the events are read, the game has a transmitter for exactly the peers
\* that are connected: each connected peer has its own, and one whose connection
\* is gone is left only where the game itself ended the connection, which tells
\* it nothing, or where a session was set up over a live one, which forgets that
\* it was connected.
GameKnowsItsPeers ==
    pc = "receive" =>
        \A s \in Slots :
            LET c == host.connections[s] IN
            /\ c.allocated /\ c.connected =>
                  transmitters[s] = [slot |-> s, generation |-> c.generation, remote |-> c.remote]
            /\ transmitters[s] # None => Names(host, transmitters[s]) \/ s \in shared \cup forced
=============================================================================
