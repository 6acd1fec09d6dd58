-------------------- MODULE NetServerBackendWebrtc_proofs --------------------
(***************************************************************************)
(* What the back end may rely on, for any number of slots, addresses,      *)
(* channels and connections.  The argument is one invariant of the server  *)
(* object and the transmitters together, HostInv: every operation on the   *)
(* server keeps it, so every action, which only composes operations, does. *)
(* It says less of a slot in which a session was set up over a live one    *)
(* (sh), and of one whose connection the game has ended (fo).              *)
(*                                                                         *)
(* At its heart is that a slot connects at most once.  It is connected     *)
(* only when the peer has acknowledged the server's channels, which it is  *)
(* offered only while m_CreatedDataChannels is still false.                *)
(***************************************************************************)
EXTENDS NetServerBackendWebrtc, CollectionLemmas, TLAPS

HostEvent ==
    [type : {"kConnected", "kData", "kDisconnected"}, slot : Slots,
     generation : Generations, remote : Remotes]

Maps == UNION {[R -> Slots] : R \in SUBSET Remotes}

Hosts ==
    [connections : [Slots -> Connection], connectionMap : Maps,
     nextConnection : Nat, inputQueue : Seq(HostEvent)]

MapOK(h, sh) ==
    /\ \A r \in DOMAIN h.connectionMap : h.connectionMap[r] \notin sh =>
          /\ h.connections[h.connectionMap[r]].allocated
          /\ h.connections[h.connectionMap[r]].remote = r
    /\ sh = {} => \A s \in Slots :
          h.connections[s].allocated =>
              /\ h.connections[s].remote \in DOMAIN h.connectionMap
              /\ h.connectionMap[h.connections[s].remote] = s

\* The peer was offered what it acknowledged, a slot is connected exactly when
\* all its channels are there, and only a session that is up is in use.
Tidy(c) ==
    /\ c.created \cap OutStreams # {} => c.offered
    /\ c.offered => c.createdDataChannels
    /\ c.connected <=> c.created = Streams
    /\ c.handshakeOver => c.allocated
    /\ c.allocated /\ c.connected => c.handshakeOver
    /\ c.allocated \/ c.connected => c.remote \in Remotes

\* The slot has been connected, or has missed its chance.
Done(c) == c.createdDataChannels /\ (c.connected \/ ~c.offered)

At(q, i, type, s) == q[i].type = type /\ q[i].slot = s

\* A slot's connection c, its events in the queue and its transmitter t: at most
\* one event connects, and comes first; unless the slot was shared, at most one
\* disconnects, and finds the transmitter; one of the transmitter, the event
\* that makes it and the connection without the others needs a reason.
SlotInv(c, q, t, s, sh, fo) ==
    /\ Tidy(c)
    /\ c.abandoned => s \in sh
    /\ \A i \in 1 .. Len(q) : At(q, i, "kConnected", s) =>
          /\ t = None /\ Done(c)
          /\ \A j \in 1 .. Len(q) : At(q, j, "kConnected", s) => i = j
          /\ \A j \in 1 .. Len(q) : At(q, j, "kDisconnected", s) => i < j
          /\ c.allocated /\ c.connected => q[i].remote = c.remote /\ q[i].generation = c.generation
    /\ \A i \in 1 .. Len(q) : At(q, i, "kDisconnected", s) =>
          /\ Done(c) /\ ~c.allocated
          /\ \A j \in 1 .. Len(q) : At(q, j, "kData", s) => j < i
          /\ s \notin sh =>
                /\ t = None => \E j \in 1 .. Len(q) : At(q, j, "kConnected", s)
                /\ \A j \in 1 .. Len(q) : At(q, j, "kDisconnected", s) => i = j
    /\ \A i \in 1 .. Len(q) : At(q, i, "kData", s) /\ t = None =>
          \/ \E j \in 1 .. Len(q) : At(q, j, "kConnected", s)
          \/ c.offered /\ ~c.connected
    /\ c.allocated /\ c.connected /\ t = None =>
          \E j \in 1 .. Len(q) : At(q, j, "kConnected", s)
    /\ t # None =>
          /\ Done(c) /\ t.slot = s
          /\ c.allocated /\ c.connected => t.remote = c.remote /\ t.generation = c.generation
    /\ t # None \/ (\E i \in 1 .. Len(q) : At(q, i, "kConnected", s)) =>
          \/ s \in sh \cup fo
          \/ c.allocated /\ c.connected
          \/ \E i \in 1 .. Len(q) : At(q, i, "kDisconnected", s)

HostInv(h, tr, sh, fo) ==
    /\ h \in Hosts
    /\ MapOK(h, sh)
    /\ \A s \in Slots : SlotInv(h.connections[s], h.inputQueue, tr[s], s, sh, fo)

BackendInv ==
    /\ HostInv(host, transmitters, shared, forced)
    /\ transmitters \in [Slots -> Transmitter \cup {None}]
    /\ pc \in {"receive", "timers", "events", "data for nobody", "freed nothing"}
    /\ pc = "receive" => host.inputQueue = <<>>

-----------------------------------------------------------------------------
(* One slot.                                                                *)

\* Its connection changes in fields its events do not depend on.
LEMMA SetSlot ==
    ASSUME NEW sh, NEW fo, NEW c \in Connection, NEW d \in Connection, NEW q \in Seq(HostEvent), NEW t, NEW s \in Slots,
           SlotInv(c, q, t, s, sh, fo), Tidy(d),
           d.allocated => c.allocated, d.connected = c.connected, d.remote = c.remote,
           d.allocated => d.generation = c.generation, d.abandoned => c.abandoned,
           Done(c) => Done(d), c.offered => d.offered,
           c.allocated /\ c.connected => d.allocated \/ s \in sh \cup fo
    PROVE  SlotInv(d, q, t, s, sh, fo)
  BY DEF SlotInv, Connection

LEMMA PushShape ==
    ASSUME NEW q \in Seq(HostEvent), NEW e \in HostEvent
    PROVE  /\ Append(q, e) \in Seq(HostEvent)
           /\ Len(q) \in Nat
           /\ Len(Append(q, e)) = Len(q) + 1
           /\ \A i \in 1 .. Len(q) : Append(q, e)[i] = q[i]
           /\ Append(q, e)[Len(q) + 1] = e
  OBVIOUS

\* An event of another slot is queued.
LEMMA PushOther ==
    ASSUME NEW sh, NEW fo, NEW c, NEW q \in Seq(HostEvent), NEW t, NEW s \in Slots, NEW e \in HostEvent,
           e.slot # s, SlotInv(c, q, t, s, sh, fo)
    PROVE  SlotInv(c, Append(q, e), t, s, sh, fo)
<1>1. \A i \in 1 .. Len(q) + 1 : \A type : At(Append(q, e), i, type, s) <=> i \in 1 .. Len(q) /\ At(q, i, type, s)
  BY PushShape DEF At
<1>2. \A i \in 1 .. Len(q) : Append(q, e)[i] = q[i]
  BY PushShape
<1> QED
  BY <1>1, <1>2, PushShape DEF SlotInv

LEMMA PushOwn ==
    ASSUME NEW q \in Seq(HostEvent), NEW s \in Slots, NEW e \in HostEvent, e.slot = s
    PROVE  /\ \A i \in 1 .. Len(q) + 1 : \A type :
                  At(Append(q, e), i, type, s) <=>
                      \/ i \in 1 .. Len(q) /\ At(q, i, type, s)
                      \/ i = Len(q) + 1 /\ e.type = type
  BY PushShape DEF At

LEMMA PushData ==
    ASSUME NEW sh, NEW fo, NEW c \in Connection, NEW q \in Seq(HostEvent), NEW t, NEW s \in Slots, NEW e \in HostEvent,
           e.type = "kData", e.slot = s, c.allocated, c.offered, SlotInv(c, q, t, s, sh, fo)
    PROVE  SlotInv(c, Append(q, e), t, s, sh, fo)
<1>1. \A i \in 1 .. Len(q) + 1 :
        /\ At(Append(q, e), i, "kConnected", s) <=> i \in 1 .. Len(q) /\ At(q, i, "kConnected", s)
        /\ ~At(Append(q, e), i, "kDisconnected", s)
        /\ At(Append(q, e), i, "kData", s) <=> i = Len(q) + 1 \/ (i \in 1 .. Len(q) /\ At(q, i, "kData", s))
  BY PushOwn, PushShape DEF SlotInv, At
<1>2. \A i \in 1 .. Len(q) : Append(q, e)[i] = q[i]
  BY PushShape
<1> QED
  BY <1>1, <1>2, PushShape DEF SlotInv, Connection

LEMMA PushConnected ==
    ASSUME NEW sh, NEW fo, NEW c \in Connection, NEW d \in Connection, NEW q \in Seq(HostEvent), NEW t,
           NEW s \in Slots, NEW e \in HostEvent,
           e.type = "kConnected", e.slot = s, e.remote = d.remote, e.generation = d.generation, SlotInv(c, q, t, s, sh, fo),
           ~c.connected, c.offered, d.connected, Tidy(d), d.offered,
           d.allocated, d.abandoned => c.abandoned
    PROVE  SlotInv(d, Append(q, e), t, s, sh, fo)
<1>1. ~Done(c)
  BY DEF Done, Connection
<1>2. t = None
  BY <1>1 DEF SlotInv
<1>3. \A i \in 1 .. Len(q) : ~At(q, i, "kConnected", s) /\ ~At(q, i, "kDisconnected", s)
  BY <1>1 DEF SlotInv
<1>4. \A i \in 1 .. Len(q) + 1 :
        /\ At(Append(q, e), i, "kConnected", s) <=> i = Len(q) + 1
        /\ ~At(Append(q, e), i, "kDisconnected", s)
  BY <1>3, PushOwn, PushShape DEF At
<1>5. Done(d)
  BY DEF Done, Tidy, Connection
<1>6. Append(q, e)[Len(q) + 1] = e /\ Len(Append(q, e)) = Len(q) + 1 /\ Len(q) \in Nat
  BY PushShape
<1> QED
  BY <1>2, <1>4, <1>5, <1>6 DEF SlotInv

LEMMA PushDisconnected ==
    ASSUME NEW sh, NEW fo, NEW c \in Connection, NEW d \in Connection, NEW q \in Seq(HostEvent), NEW t,
           NEW s \in Slots, NEW e \in HostEvent,
           e.type = "kDisconnected", e.slot = s, SlotInv(c, q, t, s, sh, fo),
           c.allocated \/ s \in sh, c.connected, Done(d), Tidy(d), ~d.allocated, d.abandoned => c.abandoned
    PROVE  SlotInv(d, Append(q, e), t, s, sh, fo)
<1> DEFINE p == Append(q, e)
<1>1. s \notin sh => \A i \in 1 .. Len(q) : ~At(q, i, "kDisconnected", s)
  BY DEF SlotInv
<1>2. /\ \A i \in 1 .. Len(q) : p[i] = q[i]
      /\ Len(p) = Len(q) + 1 /\ Len(q) \in Nat
  BY PushShape
<1>3. \A i \in 1 .. Len(p) :
        /\ At(p, i, "kConnected", s) <=> i \in 1 .. Len(q) /\ At(q, i, "kConnected", s)
        /\ At(p, i, "kDisconnected", s) <=> i = Len(p) \/ (i \in 1 .. Len(q) /\ At(q, i, "kDisconnected", s))
        /\ At(p, i, "kData", s) <=> i \in 1 .. Len(q) /\ At(q, i, "kData", s)
  BY <1>2, PushOwn
<1> HIDE DEF p
<1>4. ASSUME NEW i \in 1 .. Len(p), At(p, i, "kConnected", s)
      PROVE  /\ t = None /\ Done(d)
             /\ \A j \in 1 .. Len(p) : At(p, j, "kConnected", s) => i = j
             /\ \A j \in 1 .. Len(p) : At(p, j, "kDisconnected", s) => i < j
  BY <1>2, <1>3, <1>4 DEF SlotInv
<1>5. ASSUME NEW i \in 1 .. Len(p), At(p, i, "kDisconnected", s)
      PROVE  /\ \A j \in 1 .. Len(p) : At(p, j, "kData", s) => j < i
             /\ s \notin sh =>
                   /\ t = None => \E j \in 1 .. Len(p) : At(p, j, "kConnected", s)
                   /\ \A j \in 1 .. Len(p) : At(p, j, "kDisconnected", s) => i = j
  <2>1. \A j \in 1 .. Len(p) : At(p, j, "kData", s) => j < i
    BY <1>2, <1>3, <1>5 DEF SlotInv
  <2>2. ASSUME s \notin sh
        PROVE  /\ t = None => \E j \in 1 .. Len(p) : At(p, j, "kConnected", s)
               /\ \A j \in 1 .. Len(p) : At(p, j, "kDisconnected", s) => i = j
    <3>1. t = None => \E j \in 1 .. Len(q) : At(q, j, "kConnected", s)
      BY <2>2 DEF SlotInv
    <3>2. t = None => \E j \in 1 .. Len(p) : At(p, j, "kConnected", s)
      BY <1>2, <1>3, <3>1
    <3> QED
      BY <1>1, <1>3, <1>5, <2>2, <3>2
  <2> QED
    BY <2>1, <2>2
<1>6. ASSUME NEW i \in 1 .. Len(p), At(p, i, "kData", s), t = None
      PROVE  \E j \in 1 .. Len(p) : At(p, j, "kConnected", s)
  <2>1. \E j \in 1 .. Len(q) : At(q, j, "kConnected", s)
    BY <1>3, <1>6 DEF SlotInv
  <2> QED
    BY <1>2, <1>3, <2>1
<1>7. \E i \in 1 .. Len(p) : At(p, i, "kDisconnected", s)
  <2>1. Len(p) \in 1 .. Len(p)
    BY <1>2
  <2> QED
    BY <1>3, <2>1
<1>8. t # None => t.slot = s
  BY DEF SlotInv
<1>9. d.abandoned => s \in sh
  BY DEF SlotInv
<1>10. SlotInv(d, p, t, s, sh, fo)
  BY <1>4, <1>5, <1>6, <1>7, <1>8, <1>9 DEF SlotInv
<1> QED
  BY <1>10 DEF p

\* The first event is taken from the queue.
LEMMA PopShape ==
    ASSUME NEW q \in Seq(HostEvent), q # <<>>
    PROVE  /\ Tail(q) \in Seq(HostEvent)
           /\ Head(q) = q[1] /\ Head(q) \in HostEvent
           /\ Len(q) \in Nat \ {0}
           /\ Len(Tail(q)) = Len(q) - 1
           /\ \A i \in 1 .. Len(q) - 1 : Tail(q)[i] = q[i + 1]
  OBVIOUS

LEMMA PopAt ==
    ASSUME NEW q \in Seq(HostEvent), q # <<>>, NEW s, NEW type, NEW i \in 1 .. Len(q) - 1
    PROVE  At(Tail(q), i, type, s) <=> At(q, i + 1, type, s)
  BY PopShape DEF At

LEMMA PopOther ==
    ASSUME NEW sh, NEW fo, NEW c, NEW q \in Seq(HostEvent), q # <<>>, NEW t, NEW s \in Slots,
           ~At(q, 1, "kConnected", s), ~At(q, 1, "kDisconnected", s), SlotInv(c, q, t, s, sh, fo)
    PROVE  SlotInv(c, Tail(q), t, s, sh, fo)
<1> DEFINE p == Tail(q)
<1>1. /\ Len(p) = Len(q) - 1 /\ Len(q) \in Nat \ {0}
      /\ \A i \in 1 .. Len(p) : p[i] = q[i + 1] /\ i + 1 \in 1 .. Len(q)
      /\ \A i \in 1 .. Len(p) : \A type : At(p, i, type, s) <=> At(q, i + 1, type, s)
  BY PopShape, PopAt
<1>2. \A j \in 1 .. Len(q) : \A type \in {"kConnected", "kDisconnected"} :
          At(q, j, type, s) => \E i \in 1 .. Len(p) : At(p, i, type, s)
  <2> SUFFICES ASSUME NEW j \in 1 .. Len(q), NEW type \in {"kConnected", "kDisconnected"}, At(q, j, type, s)
               PROVE  \E i \in 1 .. Len(p) : At(p, i, type, s)
    OBVIOUS
  <2>1. j - 1 \in 1 .. Len(p) /\ (j - 1) + 1 = j
    BY <1>1
  <2> QED
    BY <1>1, <2>1
<1> HIDE DEF p
<1>3. SlotInv(c, p, t, s, sh, fo)
  <2>1. ASSUME NEW i \in 1 .. Len(p), At(p, i, "kConnected", s)
        PROVE  /\ t = None /\ Done(c)
               /\ \A j \in 1 .. Len(p) : At(p, j, "kConnected", s) => i = j
               /\ \A j \in 1 .. Len(p) : At(p, j, "kDisconnected", s) => i < j
               /\ c.allocated /\ c.connected => p[i].remote = c.remote /\ p[i].generation = c.generation
    BY <1>1, <2>1 DEF SlotInv
  <2>2. ASSUME NEW i \in 1 .. Len(p), At(p, i, "kDisconnected", s)
        PROVE  /\ Done(c) /\ ~c.allocated
               /\ \A j \in 1 .. Len(p) : At(p, j, "kData", s) => j < i
               /\ s \notin sh =>
                     /\ t = None => \E j \in 1 .. Len(p) : At(p, j, "kConnected", s)
                     /\ \A j \in 1 .. Len(p) : At(p, j, "kDisconnected", s) => i = j
    BY <1>1, <1>2, <2>2 DEF SlotInv
  <2>3. ASSUME NEW i \in 1 .. Len(p), At(p, i, "kData", s), t = None
        PROVE  \/ \E j \in 1 .. Len(p) : At(p, j, "kConnected", s)
               \/ c.offered /\ ~c.connected
    BY <1>1, <1>2, <2>3 DEF SlotInv
  <2>4. c.allocated /\ c.connected /\ t = None => \E j \in 1 .. Len(p) : At(p, j, "kConnected", s)
    BY <1>2 DEF SlotInv
  <2>5. /\ Tidy(c) /\ (c.abandoned => s \in sh)
        /\ t # None => /\ Done(c) /\ t.slot = s
                       /\ c.allocated /\ c.connected => t.remote = c.remote /\ t.generation = c.generation
    BY DEF SlotInv
  <2>6. ASSUME t # None \/ (\E i \in 1 .. Len(p) : At(p, i, "kConnected", s))
        PROVE  \/ s \in sh \cup fo
               \/ c.allocated /\ c.connected
               \/ \E i \in 1 .. Len(p) : At(p, i, "kDisconnected", s)
    <3>1. t # None \/ (\E i \in 1 .. Len(q) : At(q, i, "kConnected", s))
      BY <1>1, <2>6
    <3> QED
      BY <1>2, <3>1 DEF SlotInv
  <2> QED
    BY <2>1, <2>2, <2>3, <2>4, <2>5, <2>6 DEF SlotInv
<1> QED
  BY <1>3 DEF p

\* It made a transmitter.
LEMMA PopConnected ==
    ASSUME NEW sh, NEW fo, NEW c, NEW q \in Seq(HostEvent), q # <<>>, NEW t, NEW u, NEW s \in Slots,
           At(q, 1, "kConnected", s), SlotInv(c, q, t, s, sh, fo), u # None, u.slot = s,
           u.remote = q[1].remote, u.generation = q[1].generation
    PROVE  SlotInv(c, Tail(q), u, s, sh, fo)
<1>1. /\ Len(Tail(q)) = Len(q) - 1 /\ Len(q) \in Nat \ {0}
      /\ \A i \in 1 .. Len(Tail(q)) : \A type : At(Tail(q), i, type, s) <=> At(q, i + 1, type, s)
      /\ \A i \in 1 .. Len(Tail(q)) : i + 1 \in 1 .. Len(q) /\ 1 # i + 1
  BY PopShape, PopAt
<1>2. \A i \in 1 .. Len(Tail(q)) : ~At(Tail(q), i, "kConnected", s)
  BY <1>1 DEF SlotInv
<1>3. 1 \in 1 .. Len(q)
  BY <1>1
<1>4. \/ s \in sh \cup fo
      \/ c.allocated /\ c.connected
      \/ \E i \in 1 .. Len(Tail(q)) : At(Tail(q), i, "kDisconnected", s)
  <2>1. ASSUME NEW j \in 1 .. Len(q), At(q, j, "kDisconnected", s)
        PROVE  \E i \in 1 .. Len(Tail(q)) : At(Tail(q), i, "kDisconnected", s)
    <3>1. j - 1 \in 1 .. Len(Tail(q)) /\ (j - 1) + 1 = j
      BY <1>1, <1>3, <2>1 DEF SlotInv
    <3> QED
      BY <1>1, <2>1, <3>1
  <2> QED
    BY <1>3, <2>1 DEF SlotInv
<1> QED
  BY <1>1, <1>2, <1>3, <1>4 DEF SlotInv

\* It freed one.
LEMMA PopDisconnected ==
    ASSUME NEW sh, NEW fo, NEW c, NEW q \in Seq(HostEvent), q # <<>>, NEW t, NEW s \in Slots,
           At(q, 1, "kDisconnected", s), SlotInv(c, q, t, s, sh, fo)
    PROVE  SlotInv(c, Tail(q), None, s, sh, fo)
<1>1. /\ Len(Tail(q)) = Len(q) - 1 /\ Len(q) \in Nat \ {0}
      /\ \A i \in 1 .. Len(Tail(q)) : \A type : At(Tail(q), i, type, s) <=> At(q, i + 1, type, s)
      /\ \A i \in 1 .. Len(Tail(q)) : i + 1 \in 1 .. Len(q) /\ 1 # i + 1
      /\ 1 \in 1 .. Len(q)
  BY PopShape, PopAt
<1>2. \A i \in 1 .. Len(Tail(q)) :
          /\ ~At(Tail(q), i, "kData", s) /\ ~At(Tail(q), i, "kConnected", s)
          /\ s \notin sh => ~At(Tail(q), i, "kDisconnected", s)
  BY <1>1 DEF SlotInv
<1>3. Tidy(c) /\ Done(c) /\ ~c.allocated /\ (c.abandoned => s \in sh)
  BY <1>1 DEF SlotInv
<1> QED
  BY <1>2, <1>3 DEF SlotInv

-----------------------------------------------------------------------------
(* The operations of the server.                                            *)

LEMMA EventShape ==
    ASSUME NEW h \in Hosts, NEW s \in Slots, Tidy(h.connections[s]),
           h.connections[s].allocated \/ h.connections[s].connected,
           NEW type \in {"kConnected", "kData", "kDisconnected"}
    PROVE  /\ Event(h, s, type) \in HostEvent
           /\ Event(h, s, type).type = type /\ Event(h, s, type).slot = s
           /\ Event(h, s, type).remote = h.connections[s].remote
           /\ Event(h, s, type).generation = h.connections[s].generation
<1>1. h.connections[s] \in Connection
  BY DEF Hosts
<1>2. h.connections[s].remote \in Remotes
  BY DEF Tidy
<1> QED
  BY <1>1, <1>2 DEF Event, HostEvent, Connection

LEMMA WithShape ==
    ASSUME NEW h \in Hosts, NEW s \in Slots, NEW c \in Connection
    PROVE  /\ WithConnection(h, s, c) \in Hosts
           /\ WithConnection(h, s, c).connections[s] = c
           /\ \A i \in Slots \ {s} : WithConnection(h, s, c).connections[i] = h.connections[i]
           /\ WithConnection(h, s, c).connectionMap = h.connectionMap
           /\ WithConnection(h, s, c).inputQueue = h.inputQueue
           /\ WithConnection(h, s, c).nextConnection = h.nextConnection
  BY DEF WithConnection, Hosts

LEMMA PushHostShape ==
    ASSUME NEW h \in Hosts, NEW s \in Slots, Tidy(h.connections[s]),
           h.connections[s].allocated \/ h.connections[s].connected,
           NEW type \in {"kConnected", "kData", "kDisconnected"}
    PROVE  /\ Push(h, s, type) \in Hosts
           /\ Push(h, s, type).connections = h.connections
           /\ Push(h, s, type).connectionMap = h.connectionMap
           /\ Push(h, s, type).inputQueue = Append(h.inputQueue, Event(h, s, type))
<1>1. Event(h, s, type) \in HostEvent
  BY EventShape
<1> QED
  BY <1>1, PushShape DEF Push, Hosts

LEMMA MapsShape ==
    ASSUME NEW f
    PROVE  f \in Maps <=> DOMAIN f \subseteq Remotes /\ f \in [DOMAIN f -> Slots]
  BY DEF Maps

LEMMA MapSame ==
    ASSUME NEW sh, NEW h \in Hosts, NEW k, MapOK(h, sh), k.connectionMap = h.connectionMap,
           \A i \in Slots : /\ k.connections[i].allocated = h.connections[i].allocated
                            /\ k.connections[i].remote = h.connections[i].remote
    PROVE  MapOK(k, sh)
<1>1. \A r \in DOMAIN h.connectionMap : h.connectionMap[r] \in Slots
  BY MapsShape DEF Hosts
<1>2. \A r \in DOMAIN k.connectionMap : k.connectionMap[r] \notin sh =>
          /\ k.connections[k.connectionMap[r]].allocated
          /\ k.connections[k.connectionMap[r]].remote = r
  BY <1>1 DEF MapOK
<1>3. sh = {} => \A s \in Slots :
          k.connections[s].allocated =>
              /\ k.connections[s].remote \in DOMAIN k.connectionMap
              /\ k.connectionMap[k.connections[s].remote] = s
  BY DEF MapOK
<1> QED
  BY <1>2, <1>3 DEF MapOK

\* The connection of a slot changes in fields the rest does not depend on.
LEMMA SetConnection ==
    ASSUME NEW tr, NEW sh, NEW fo, NEW h, HostInv(h, tr, sh, fo), NEW s \in Slots, NEW d \in Connection,
           Tidy(d), d.allocated = h.connections[s].allocated,
           d.connected = h.connections[s].connected, d.remote = h.connections[s].remote,
           d.generation = h.connections[s].generation, d.abandoned = h.connections[s].abandoned,
           Done(h.connections[s]) => Done(d), h.connections[s].offered => d.offered
    PROVE  HostInv(WithConnection(h, s, d), tr, sh, fo)
<1> DEFINE k == WithConnection(h, s, d)
<1>1. /\ h \in Hosts /\ MapOK(h, sh) /\ h.connections[s] \in Connection /\ h.inputQueue \in Seq(HostEvent)
      /\ \A i \in Slots : SlotInv(h.connections[i], h.inputQueue, tr[i], i, sh, fo)
  BY DEF HostInv, Hosts
<1>2. /\ k \in Hosts /\ k.connections[s] = d /\ k.connectionMap = h.connectionMap
      /\ \A i \in Slots \ {s} : k.connections[i] = h.connections[i]
      /\ k.inputQueue = h.inputQueue
  BY <1>1, WithShape
<1> HIDE DEF k
<1>3. MapOK(k, sh)
  <2>1. \A i \in Slots : /\ k.connections[i].allocated = h.connections[i].allocated
                         /\ k.connections[i].remote = h.connections[i].remote
    BY <1>2
  <2> QED
    BY <1>1, <1>2, <2>1, MapSame
<1>4. SlotInv(d, h.inputQueue, tr[s], s, sh, fo)
  BY <1>1, SetSlot
<1>5. \A i \in Slots : SlotInv(k.connections[i], k.inputQueue, tr[i], i, sh, fo)
  BY <1>1, <1>2, <1>4
<1>6. HostInv(k, tr, sh, fo)
  BY <1>2, <1>3, <1>5 DEF HostInv
<1> QED
  BY <1>6 DEF k

LEMMA FreedShape ==
    ASSUME NEW c \in Connection, Tidy(c)
    PROVE  /\ Freed(c) \in Connection /\ ~Freed(c).allocated
           /\ Freed(c).connected = c.connected /\ Freed(c).remote = c.remote
           /\ Freed(c).createdDataChannels = c.createdDataChannels
           /\ Freed(c).offered = c.offered /\ Freed(c).created = c.created
           /\ Freed(c).abandoned = c.abandoned
           /\ Tidy(Freed(c)) /\ (Done(c) => Done(Freed(c)))
<1>1. NextGeneration(c.generation) \in Generations
  <2>1. c.generation \in Generations
    BY DEF Connection
  <2> QED
    BY <2>1, WebrtcAssumption DEF NextGeneration, Generations
<1>2. /\ Freed(c) \in Connection /\ ~Freed(c).allocated
      /\ Freed(c).connected = c.connected /\ Freed(c).remote = c.remote
      /\ Freed(c).createdDataChannels = c.createdDataChannels
      /\ Freed(c).offered = c.offered /\ Freed(c).created = c.created
      /\ Freed(c).abandoned = c.abandoned /\ ~Freed(c).handshakeOver
  BY <1>1 DEF Freed, Connection
<1> QED
  BY <1>2 DEF Tidy, Done

LEMMA CleanupShape ==
    ASSUME NEW h \in Hosts, NEW s \in Slots, Tidy(h.connections[s])
    PROVE  /\ CleanupConnection(h, s) \in Hosts
           /\ CleanupConnection(h, s).connections[s] = Freed(h.connections[s])
           /\ \A i \in Slots \ {s} : CleanupConnection(h, s).connections[i] = h.connections[i]
           /\ CleanupConnection(h, s).connectionMap =
                  Restrict(h.connectionMap, DOMAIN h.connectionMap \ {h.connections[s].remote})
           /\ CleanupConnection(h, s).inputQueue = h.inputQueue
<1> DEFINE k == WithConnection(h, s, Freed(h.connections[s]))
<1> DEFINE m == Restrict(h.connectionMap, DOMAIN h.connectionMap \ {h.connections[s].remote})
<1>1. h.connections[s] \in Connection /\ h.connectionMap \in Maps
  BY DEF Hosts
<1>2. /\ k \in Hosts /\ k.connections[s] = Freed(h.connections[s]) /\ k.connectionMap = h.connectionMap
      /\ \A i \in Slots \ {s} : k.connections[i] = h.connections[i]
      /\ k.inputQueue = h.inputQueue
  BY <1>1, FreedShape, WithShape
<1>3. m \in Maps
  BY <1>1, MapsShape DEF Restrict
<1>4. CleanupConnection(h, s) = [k EXCEPT !.connectionMap = m]
  BY <1>2 DEF CleanupConnection
<1> HIDE DEF k, m
<1>5. [k EXCEPT !.connectionMap = m] \in Hosts /\ [k EXCEPT !.connectionMap = m].connectionMap = m
      /\ [k EXCEPT !.connectionMap = m].connections = k.connections
      /\ [k EXCEPT !.connectionMap = m].inputQueue = k.inputQueue
  BY <1>2, <1>3 DEF Hosts
<1> QED
  BY <1>2, <1>4, <1>5 DEF m

\* Of the slots that were never shared, no two have an address in common, so
\* that the entry that goes is of this slot alone.
LEMMA CleanupMap ==
    ASSUME NEW sh, NEW h \in Hosts, NEW s \in Slots, Tidy(h.connections[s]), MapOK(h, sh),
           h.connections[s].allocated \/ s \in sh
    PROVE  MapOK(CleanupConnection(h, s), sh)
<1> DEFINE k == CleanupConnection(h, s)
<1> DEFINE r0 == h.connections[s].remote
<1>1. /\ k.connections[s] = Freed(h.connections[s]) /\ h.connections[s] \in Connection
      /\ \A i \in Slots \ {s} : k.connections[i] = h.connections[i]
      /\ k.connectionMap = Restrict(h.connectionMap, DOMAIN h.connectionMap \ {r0})
      /\ h.connectionMap \in Maps
  BY CleanupShape DEF Hosts
<1>2. ~k.connections[s].allocated
  BY <1>1, FreedShape
<1>3. /\ DOMAIN k.connectionMap = DOMAIN h.connectionMap \ {r0}
      /\ \A r \in DOMAIN h.connectionMap \ {r0} : k.connectionMap[r] = h.connectionMap[r]
      /\ \A r \in DOMAIN h.connectionMap : h.connectionMap[r] \in Slots
  BY <1>1, MapsShape DEF Restrict
<1> HIDE DEF k
<1>4. ASSUME NEW r \in DOMAIN k.connectionMap, k.connectionMap[r] \notin sh
      PROVE  /\ k.connections[k.connectionMap[r]].allocated
             /\ k.connections[k.connectionMap[r]].remote = r
  <2>1. /\ r \in DOMAIN h.connectionMap \ {r0} /\ k.connectionMap[r] = h.connectionMap[r]
        /\ h.connectionMap[r] \in Slots \ sh
    BY <1>3, <1>4
  <2>2. /\ h.connections[h.connectionMap[r]].allocated
        /\ h.connections[h.connectionMap[r]].remote = r
    BY <2>1 DEF MapOK
  <2>3. h.connectionMap[r] # s
    BY <2>1, <2>2
  <2> QED
    BY <1>1, <2>1, <2>2, <2>3
<1>5. ASSUME sh = {}, NEW i \in Slots, k.connections[i].allocated
      PROVE  /\ k.connections[i].remote \in DOMAIN k.connectionMap
             /\ k.connectionMap[k.connections[i].remote] = i
  <2>1. i # s /\ k.connections[i] = h.connections[i] /\ h.connections[s].allocated
    BY <1>1, <1>2, <1>5
  <2>2. /\ h.connections[i].remote \in DOMAIN h.connectionMap
        /\ h.connectionMap[h.connections[i].remote] = i /\ h.connectionMap[r0] = s
    BY <1>5, <2>1 DEF MapOK
  <2>3. h.connections[i].remote # r0
    BY <2>1, <2>2
  <2> QED
    BY <1>3, <2>1, <2>2, <2>3
<1>6. MapOK(k, sh)
  BY <1>4, <1>5 DEF MapOK
<1> QED
  BY <1>6 DEF k

LEMMA CleanupOK ==
    ASSUME NEW tr, NEW sh, NEW fo, NEW h, HostInv(h, tr, sh, fo), NEW s \in Slots,
           h.connections[s].allocated \/ s \in sh,
           h.connections[s].allocated /\ h.connections[s].connected => s \in sh \cup fo
    PROVE  /\ HostInv(CleanupConnection(h, s), tr, sh, fo)
           /\ CleanupConnection(h, s).inputQueue = h.inputQueue
<1> DEFINE k == CleanupConnection(h, s)
<1> DEFINE d == Freed(h.connections[s])
<1>1. /\ h \in Hosts /\ MapOK(h, sh) /\ h.connections[s] \in Connection /\ h.inputQueue \in Seq(HostEvent)
      /\ \A i \in Slots : SlotInv(h.connections[i], h.inputQueue, tr[i], i, sh, fo)
      /\ Tidy(h.connections[s])
  BY DEF HostInv, Hosts, SlotInv
<1>2. /\ k \in Hosts /\ k.connections[s] = d /\ k.inputQueue = h.inputQueue
      /\ \A i \in Slots \ {s} : k.connections[i] = h.connections[i]
      /\ MapOK(k, sh)
  BY <1>1, CleanupShape, CleanupMap
<1>3. /\ d \in Connection /\ ~d.allocated /\ d.connected = h.connections[s].connected
      /\ d.remote = h.connections[s].remote /\ d.offered = h.connections[s].offered
      /\ Tidy(d) /\ (Done(h.connections[s]) => Done(d)) /\ d.abandoned = h.connections[s].abandoned
  BY <1>1, FreedShape
<1> HIDE DEF k, d
<1>4. SlotInv(d, h.inputQueue, tr[s], s, sh, fo)
  BY <1>1, <1>3, SetSlot
<1>5. \A i \in Slots : SlotInv(k.connections[i], k.inputQueue, tr[i], i, sh, fo)
  BY <1>1, <1>2, <1>4
<1>6. HostInv(k, tr, sh, fo)
  BY <1>2, <1>5 DEF HostInv
<1> QED
  BY <1>2, <1>6 DEF k

LEMMA NotifyDisconnectedOK ==
    ASSUME NEW tr, NEW sh, NEW fo, NEW h, HostInv(h, tr, sh, fo), NEW s \in Slots, h.connections[s].allocated \/ s \in sh
    PROVE  HostInv(NotifySocketDisconnected(h, s), tr, sh, fo)
<1>1. CASE ~h.connections[s].connected
  BY <1>1, CleanupOK DEF NotifySocketDisconnected
<1>2. CASE h.connections[s].connected
  <2> DEFINE g == Push(h, s, "kDisconnected")
  <2> DEFINE e == Event(h, s, "kDisconnected")
  <2> DEFINE k == CleanupConnection(g, s)
  <2> DEFINE c == h.connections[s]
  <2> DEFINE d == Freed(c)
  <2>1. /\ h \in Hosts /\ MapOK(h, sh) /\ c \in Connection /\ h.inputQueue \in Seq(HostEvent)
        /\ \A i \in Slots : SlotInv(h.connections[i], h.inputQueue, tr[i], i, sh, fo)
        /\ Tidy(c)
    BY DEF HostInv, Hosts, SlotInv
  <2>2. /\ g \in Hosts /\ g.connections = h.connections /\ g.connectionMap = h.connectionMap
        /\ g.inputQueue = Append(h.inputQueue, e)
    BY <1>2, <2>1, PushHostShape
  <2>3. e \in HostEvent /\ e.type = "kDisconnected" /\ e.slot = s
    BY <1>2, <2>1, EventShape
  <2> HIDE DEF g, e
  <2>4. MapOK(g, sh)
    BY <2>1, <2>2 DEF MapOK
  <2>5. /\ k \in Hosts /\ k.connections[s] = d /\ k.inputQueue = g.inputQueue
        /\ \A i \in Slots \ {s} : k.connections[i] = g.connections[i]
        /\ MapOK(k, sh)
    <3>1. Tidy(g.connections[s]) /\ g.connections[s] = c /\ (g.connections[s].allocated \/ s \in sh)
      BY <2>1, <2>2
    <3> QED
      BY <2>2, <2>4, <3>1, CleanupShape, CleanupMap
  <2>6. /\ d \in Connection /\ ~d.allocated
        /\ Tidy(d) /\ (Done(c) => Done(d)) /\ d.abandoned = c.abandoned
    BY <2>1, FreedShape
  <2>7. c.createdDataChannels
    BY <2>1, <1>2, WebrtcAssumption DEF Tidy, Streams
  <2> HIDE DEF k, d
  <2>8. SlotInv(d, k.inputQueue, tr[s], s, sh, fo)
    <3>1. Done(c)
      BY <1>2, <2>7 DEF Done
    <3> QED
      BY <1>2, <2>1, <2>2, <2>3, <2>5, <2>6, <3>1, PushDisconnected
  <2>9. \A i \in Slots \ {s} : SlotInv(h.connections[i], k.inputQueue, tr[i], i, sh, fo)
    BY <2>1, <2>2, <2>3, <2>5, PushOther
  <2>10. HostInv(k, tr, sh, fo)
    BY <2>2, <2>5, <2>8, <2>9 DEF HostInv
  <2> QED
    BY <1>2, <2>10 DEF NotifySocketDisconnected, k, g
<1> QED
  BY <1>1, <1>2

LEMMA HostFacts ==
    ASSUME NEW tr, NEW sh, NEW fo, NEW h, HostInv(h, tr, sh, fo)
    PROVE  /\ h \in Hosts /\ MapOK(h, sh) /\ h.inputQueue \in Seq(HostEvent)
           /\ \A s \in Slots : /\ h.connections[s] \in Connection /\ Tidy(h.connections[s])
                               /\ SlotInv(h.connections[s], h.inputQueue, tr[s], s, sh, fo)
  BY DEF HostInv, Hosts, SlotInv

LEMMA PushDataOK ==
    ASSUME NEW tr, NEW sh, NEW fo, NEW h, HostInv(h, tr, sh, fo), NEW s \in Slots,
           h.connections[s].allocated, h.connections[s].offered
    PROVE  HostInv(Push(h, s, "kData"), tr, sh, fo)
<1> DEFINE g == Push(h, s, "kData")
<1> DEFINE e == Event(h, s, "kData")
<1>1. /\ h \in Hosts /\ MapOK(h, sh) /\ h.inputQueue \in Seq(HostEvent)
      /\ \A i \in Slots : /\ h.connections[i] \in Connection /\ Tidy(h.connections[i])
                          /\ SlotInv(h.connections[i], h.inputQueue, tr[i], i, sh, fo)
  BY HostFacts
<1>2. /\ g \in Hosts /\ g.connections = h.connections /\ g.connectionMap = h.connectionMap
      /\ g.inputQueue = Append(h.inputQueue, e)
  BY <1>1, PushHostShape
<1>3. e \in HostEvent /\ e.type = "kData" /\ e.slot = s
  BY <1>1, EventShape
<1> HIDE DEF g, e
<1>4. MapOK(g, sh)
  BY <1>1, <1>2 DEF MapOK
<1>5. SlotInv(h.connections[s], g.inputQueue, tr[s], s, sh, fo)
  BY <1>1, <1>2, <1>3, PushData
<1>6. \A i \in Slots \ {s} : SlotInv(h.connections[i], g.inputQueue, tr[i], i, sh, fo)
  BY <1>1, <1>2, <1>3, PushOther
<1>7. HostInv(g, tr, sh, fo)
  BY <1>2, <1>4, <1>5, <1>6 DEF HostInv
<1> QED
  BY <1>7 DEF g

\* A connection that got a channel, or its association, and is connected if that
\* was the last it waited for.
LEMMA CheckConnectedOK ==
    ASSUME NEW tr, NEW sh, NEW fo, NEW h, HostInv(h, tr, sh, fo), NEW s \in Slots, NEW d \in Connection,
           h.connections[s].allocated,
           d.allocated, d.handshakeOver, d.connected = h.connections[s].connected,
           d.generation = h.connections[s].generation, d.abandoned = h.connections[s].abandoned,
           d.remote = h.connections[s].remote, d.offered = h.connections[s].offered,
           d.createdDataChannels = h.connections[s].createdDataChannels,
           h.connections[s].created \subseteq d.created,
           d.created \cap OutStreams # {} => d.offered
    PROVE  HostInv(CheckConnectedState(WithConnection(h, s, d), s), tr, sh, fo)
<1> DEFINE c == h.connections[s]
<1> DEFINE k == WithConnection(h, s, d)
<1>1. /\ h \in Hosts /\ MapOK(h, sh) /\ h.inputQueue \in Seq(HostEvent)
      /\ \A i \in Slots : /\ h.connections[i] \in Connection /\ Tidy(h.connections[i])
                          /\ SlotInv(h.connections[i], h.inputQueue, tr[i], i, sh, fo)
  BY HostFacts
<1>2. /\ k \in Hosts /\ k.connections[s] = d /\ k.connectionMap = h.connectionMap
      /\ \A i \in Slots \ {s} : k.connections[i] = h.connections[i]
      /\ k.inputQueue = h.inputQueue
  BY <1>1, WithShape
<1>3. Done(c) => Done(d)
  BY DEF Done
<1>4. CASE ~(~d.connected /\ d.created = Streams)
  <2>1. c.created \subseteq Streams /\ d.created \subseteq Streams
    BY <1>1 DEF Connection
  <2>2. Tidy(d)
    BY <1>1, <1>4, <2>1 DEF Tidy
  <2>3. HostInv(k, tr, sh, fo)
    BY <1>3, <2>2, SetConnection
  <2>4. CheckConnectedState(k, s) = k
    BY <1>2, <1>4 DEF CheckConnectedState
  <2> QED
    BY <2>3, <2>4
<1>5. CASE ~d.connected /\ d.created = Streams
  <2> DEFINE f == [d EXCEPT !.connected = TRUE]
  <2> DEFINE e == Event(k, s, "kConnected")
  <2> DEFINE g == Push(k, s, "kConnected")
  <2> DEFINE n == WithConnection(g, s, f)
  <2>1. d.offered /\ d.createdDataChannels /\ c.offered
    BY <1>1, <1>5, WebrtcAssumption DEF Tidy, Streams
  <2>2. /\ f \in Connection /\ f.connected /\ f.allocated /\ f.offered /\ f.createdDataChannels
        /\ f.remote = d.remote /\ f.created = Streams /\ f.handshakeOver
        /\ f.generation = d.generation /\ f.abandoned = d.abandoned /\ f.allocated = d.allocated
    BY <1>5, <2>1 DEF Connection
  <2>3. d.remote \in Remotes /\ Tidy(f)
    BY <1>1, <2>2 DEF Tidy
  <2>4. MapOK(k, sh)
    <3>1. ASSUME NEW i \in Slots
          PROVE  /\ k.connections[i].allocated = h.connections[i].allocated
                 /\ k.connections[i].remote = h.connections[i].remote
      <4>1. CASE i = s
        BY <1>2, <4>1
      <4>2. CASE i # s
        BY <1>2, <4>2
      <4> QED
        BY <4>1, <4>2
    <3> HIDE DEF k
    <3> QED
      BY <1>1, <1>2, <3>1, MapSame
  <2>5. /\ e \in HostEvent /\ e.type = "kConnected" /\ e.slot = s
        /\ e.remote = d.remote /\ e.generation = d.generation
    BY <1>2, <2>3 DEF Event, HostEvent, Connection
  <2>6. /\ g \in Hosts /\ g.connections = k.connections /\ g.connectionMap = k.connectionMap
        /\ g.inputQueue = Append(k.inputQueue, e)
    BY <1>2, <2>5, PushShape DEF Push, Hosts
  <2> HIDE DEF k, g, e, f
  <2>7. /\ n \in Hosts /\ n.connections[s] = f /\ n.connectionMap = g.connectionMap
        /\ \A i \in Slots \ {s} : n.connections[i] = g.connections[i]
        /\ n.inputQueue = g.inputQueue
    BY <2>2, <2>6, WithShape
  <2> HIDE DEF n
  <2>8. MapOK(n, sh)
    <3>1. ASSUME NEW i \in Slots
          PROVE  /\ n.connections[i].allocated = k.connections[i].allocated
                 /\ n.connections[i].remote = k.connections[i].remote
      <4>1. CASE i = s
        BY <1>2, <2>2, <2>7, <4>1
      <4>2. CASE i # s
        BY <2>6, <2>7, <4>2
      <4> QED
        BY <4>1, <4>2
    <3> QED
      BY <1>2, <2>4, <2>6, <2>7, <3>1, MapSame
  <2>9. SlotInv(f, n.inputQueue, tr[s], s, sh, fo)
    <3>1. SlotInv(c, h.inputQueue, tr[s], s, sh, fo) /\ c \in Connection /\ ~c.connected
      BY <1>1, <1>5
    <3>2. n.inputQueue = Append(h.inputQueue, e)
      BY <1>2, <2>6, <2>7
    <3>3. f.abandoned => c.abandoned
      BY <2>2
    <3>4. e.generation = f.generation /\ e.remote = f.remote
      BY <2>2, <2>5
    <3> HIDE DEF c
    <3> QED
      BY <1>1, <2>1, <2>2, <2>3, <2>5, <3>1, <3>2, <3>3, <3>4, PushConnected
  <2>10. \A i \in Slots \ {s} : SlotInv(h.connections[i], n.inputQueue, tr[i], i, sh, fo)
    BY <1>1, <1>2, <2>5, <2>6, <2>7, PushOther
  <2>11. HostInv(n, tr, sh, fo)
    BY <1>2, <2>6, <2>7, <2>8, <2>9, <2>10 DEF HostInv
  <2>12. CheckConnectedState(k, s) = n
    BY <1>2, <1>5, <2>6 DEF CheckConnectedState, NotifySocketConnected, n, g, f
  <2> QED
    BY <2>11, <2>12 DEF k
<1> QED
  BY <1>4, <1>5

\* A slot is taken only when the queue is empty: its events are gone.
LEMMA OpenedOK ==
    ASSUME NEW tr, NEW sh, NEW fo, NEW h, HostInv(h, tr, sh, fo), h.inputQueue = <<>>,
           NEW s \in Slots, NEW r \in Remotes,
           h.connections[s].allocated => s \in sh, r \notin DOMAIN h.connectionMap
    PROVE  /\ HostInv(InitConnection(h, s, r), tr, sh, fo)
           /\ InitConnection(h, s, r).connections[s].allocated
           /\ ~InitConnection(h, s, r).connections[s].handshakeOver
<1> DEFINE c == h.connections[s]
<1> DEFINE d == Opened(c, r)
<1> DEFINE m == [q \in DOMAIN h.connectionMap \cup {r} |-> IF q = r THEN s ELSE h.connectionMap[q]]
<1> DEFINE next == h.nextConnection + 1
<1> DEFINE k == WithConnection(h, s, d)
<1> DEFINE n == InitConnection(h, s, r)
<1>1. /\ h \in Hosts /\ MapOK(h, sh) /\ h.inputQueue \in Seq(HostEvent)
      /\ \A i \in Slots : /\ h.connections[i] \in Connection /\ Tidy(h.connections[i])
                          /\ SlotInv(h.connections[i], h.inputQueue, tr[i], i, sh, fo)
  BY HostFacts
<1>2. /\ d \in Connection /\ d.allocated /\ ~d.connected /\ d.remote = r /\ d.created = {}
      /\ ~d.offered /\ d.createdDataChannels = c.createdDataChannels /\ ~d.handshakeOver
      /\ d.abandoned => c.abandoned \/ c.allocated
  <2>1. NextGeneration(c.generation) \in Generations
    <3>1. c.generation \in Generations
      BY <1>1 DEF Connection
    <3> QED
      BY <3>1, WebrtcAssumption DEF NextGeneration, Generations
  <2>2. c \in Connection
    BY <1>1
  <2>3. PICK b \in BOOLEAN : b = (c.abandoned \/ (c.allocated /\ c.hasAssoc))
    OBVIOUS
  <2>4. d = [UnusedConnection EXCEPT !.allocated = TRUE,
                                     !.generation = NextGeneration(c.generation),
                                     !.createdDataChannels = c.createdDataChannels,
                                     !.remote = r,
                                     !.abandoned = b]
    BY <2>3 DEF Opened
  <2>5. c.createdDataChannels \in BOOLEAN /\ (b => c.abandoned \/ c.allocated)
    BY <2>2, <2>3 DEF Connection
  <2> HIDE DEF d
  <2> QED
    BY <2>1, <2>4, <2>5 DEF UnusedConnection, Connection
<1>3. h.connectionMap \in Maps /\ next \in Nat
  BY <1>1 DEF Hosts
<1>4. /\ m \in Maps /\ DOMAIN m = DOMAIN h.connectionMap \cup {r} /\ m[r] = s
      /\ \A q \in DOMAIN h.connectionMap : m[q] = h.connectionMap[q]
  BY <1>3, MapsShape
<1> HIDE DEF d
<1>5. /\ k \in Hosts /\ k.connections[s] = d /\ k.connectionMap = h.connectionMap
      /\ \A i \in Slots \ {s} : k.connections[i] = h.connections[i]
      /\ k.inputQueue = h.inputQueue /\ k.nextConnection = h.nextConnection
  BY <1>1, <1>2, WithShape
<1>6. n = [k EXCEPT !.connectionMap = m, !.nextConnection = next]
  BY <1>5 DEF InitConnection, d
<1> HIDE DEF k, m, next
<1>7. /\ [k EXCEPT !.connectionMap = m, !.nextConnection = next] \in Hosts
      /\ [k EXCEPT !.connectionMap = m, !.nextConnection = next].connectionMap = m
      /\ [k EXCEPT !.connectionMap = m, !.nextConnection = next].connections = k.connections
      /\ [k EXCEPT !.connectionMap = m, !.nextConnection = next].inputQueue = k.inputQueue
  <2>1. k \in Hosts /\ m \in Maps /\ next \in Nat
    BY <1>3, <1>4, <1>5
  <2> QED
    BY <2>1 DEF Hosts
<1>8. /\ n \in Hosts /\ n.connectionMap = m /\ n.inputQueue = h.inputQueue /\ n.connections[s] = d
      /\ \A i \in Slots \ {s} : n.connections[i] = h.connections[i]
  BY <1>5, <1>6, <1>7
<1> HIDE DEF n, c
<1>9. MapOK(n, sh)
  <2>1. ASSUME NEW q \in DOMAIN m, m[q] \notin sh
        PROVE  n.connections[m[q]].allocated /\ n.connections[m[q]].remote = q
    <3>1. CASE q = r
      BY <1>2, <1>4, <1>8, <3>1
    <3>2. CASE q # r
      <4>1. q \in DOMAIN h.connectionMap /\ m[q] = h.connectionMap[q] /\ m[q] \in Slots
        BY <1>3, <1>4, <3>2, MapsShape
      <4>2. h.connections[m[q]].allocated /\ h.connections[m[q]].remote = q
        BY <1>1, <2>1, <4>1 DEF MapOK
      <4>3. m[q] # s
        BY <2>1, <4>2 DEF c
      <4> QED
        BY <1>8, <4>1, <4>2, <4>3
    <3> QED
      BY <3>1, <3>2
  <2>2. ASSUME sh = {}, NEW i \in Slots, n.connections[i].allocated
        PROVE  n.connections[i].remote \in DOMAIN m /\ m[n.connections[i].remote] = i
    <3>1. CASE i = s
      BY <1>2, <1>4, <1>8, <3>1
    <3>2. CASE i # s
      BY <1>1, <1>4, <1>8, <2>2, <3>2 DEF MapOK
    <3> QED
      BY <3>1, <3>2
  <2> QED
    BY <1>8, <2>1, <2>2 DEF MapOK
<1>10. Tidy(d) /\ (Done(c) => Done(d))
  BY <1>2, WebrtcAssumption DEF Tidy, Done, Streams
<1>11. SlotInv(d, n.inputQueue, tr[s], s, sh, fo)
  <2>1. n.inputQueue = <<>> /\ Len(<<>>) = 0 /\ \A i \in 1 .. 0 : FALSE
    BY <1>8
  <2>2. tr[s] # None => Done(c) /\ tr[s].slot = s
    BY <1>1 DEF SlotInv, c
  <2>3. tr[s] # None => s \in sh \cup fo \/ c.allocated
    BY <1>1, <1>8, <2>1 DEF SlotInv, c
  <2>4. c.abandoned => s \in sh
    BY <1>1 DEF SlotInv, c
  <2>5. d.abandoned => s \in sh
    BY <1>2, <2>4 DEF c
  <2>6. tr[s] # None => s \in sh \cup fo
    BY <2>3 DEF c
  <2> QED
    BY <1>2, <1>10, <2>1, <2>2, <2>5, <2>6 DEF SlotInv
<1>12. \A i \in Slots : SlotInv(n.connections[i], n.inputQueue, tr[i], i, sh, fo)
  BY <1>1, <1>8, <1>11
<1>13. HostInv(n, tr, sh, fo) /\ n.connections[s].allocated /\ ~n.connections[s].handshakeOver
  BY <1>2, <1>8, <1>9, <1>12 DEF HostInv
<1> QED
  BY <1>13 DEF n

-----------------------------------------------------------------------------
(* What packets, timers and handshakes make of them.                        *)

LEMMA BootstrapOK ==
    ASSUME NEW tr, NEW sh, NEW fo, NEW h, HostInv(h, tr, sh, fo), NEW s \in Slots
    PROVE  LET k == BootstrapConnection(h, s) IN
           /\ HostInv(k, tr, sh, fo)
           /\ k.connections[s].allocated <=> h.connections[s].allocated
           /\ k.connections[s].handshakeOver <=> h.connections[s].handshakeOver
           /\ h.connections[s].offered => k.connections[s].offered
           /\ k.connections[s].created = h.connections[s].created
<1> DEFINE c == h.connections[s]
<1> DEFINE d == [c EXCEPT !.hasSocket = TRUE, !.createdDataChannels = TRUE,
                          !.offered = @ \/ ~c.createdDataChannels]
<1>1. h \in Hosts /\ c \in Connection /\ Tidy(c)
  BY HostFacts
<1>2. CASE ~(c.hasAssoc /\ ~c.hasSocket)
  BY <1>2 DEF BootstrapConnection
<1>3. CASE c.hasAssoc /\ ~c.hasSocket
  <2>1. BootstrapConnection(h, s) = WithConnection(h, s, d)
    BY <1>3 DEF BootstrapConnection
  <2>2. /\ d \in Connection /\ d.createdDataChannels
        /\ d.offered <=> c.offered \/ ~c.createdDataChannels
        /\ d.allocated = c.allocated /\ d.connected = c.connected
        /\ d.remote = c.remote /\ d.created = c.created /\ d.handshakeOver = c.handshakeOver
        /\ d.generation = c.generation /\ d.abandoned = c.abandoned
    BY <1>1 DEF Connection
  <2> HIDE DEF d
  <2>3. Tidy(d) /\ (Done(c) => Done(d)) /\ (c.offered => d.offered)
    BY <1>1, <2>2 DEF Tidy, Done
  <2>4. HostInv(WithConnection(h, s, d), tr, sh, fo)
    BY <2>2, <2>3, SetConnection
  <2>5. WithConnection(h, s, d).connections[s] = d
    BY <1>1, <2>2, WithShape
  <2> QED
    BY <2>1, <2>2, <2>3, <2>4, <2>5
<1> QED
  BY <1>2, <1>3

LEMMA AssociationUpOK ==
    ASSUME NEW tr, NEW sh, NEW fo, NEW h, HostInv(h, tr, sh, fo), NEW s \in Slots, h.connections[s].handshakeOver
    PROVE  HostInv(AssociationUp(h, s), tr, sh, fo)
<1> DEFINE c == h.connections[s]
<1> DEFINE d == [c EXCEPT !.hasAssoc = TRUE]
<1>1. c \in Connection /\ Tidy(c) /\ c.allocated
  BY HostFacts DEF Tidy
<1>2. /\ d \in Connection /\ d.allocated /\ d.connected = c.connected /\ d.remote = c.remote
      /\ d.offered = c.offered /\ d.createdDataChannels = c.createdDataChannels /\ d.created = c.created
      /\ d.handshakeOver /\ d.generation = c.generation /\ d.abandoned = c.abandoned
  BY <1>1 DEF Connection
<1>3. d.created \cap OutStreams # {} => d.offered
  BY <1>1, <1>2 DEF Tidy
<1> HIDE DEF d
<1>4. HostInv(CheckConnectedState(WithConnection(h, s, d), s), tr, sh, fo)
  BY <1>1, <1>2, <1>3, CheckConnectedOK
<1> QED
  BY <1>4 DEF AssociationUp, d

\* The packets a peer sends: a channel it opens, a channel it was offered, data
\* on a channel that is there.
LEMMA HandleSctpPacketOK ==
    ASSUME NEW tr, NEW sh, NEW fo, NEW h, HostInv(h, tr, sh, fo), NEW s \in Slots, h.connections[s].handshakeOver,
           NEW type, NEW stream \in Streams,
           stream \in InStreams \/ h.connections[s].offered,
           stream \in h.connections[s].created => h.connections[s].offered
    PROVE  HostInv(HandleSctpPacket(h, s, type, stream), tr, sh, fo)
<1> DEFINE k == BootstrapConnection(h, s)
<1> DEFINE c == k.connections[s]
<1> DEFINE d == [c EXCEPT !.created = @ \cup {stream}]
<1>1. /\ HostInv(k, tr, sh, fo) /\ c.handshakeOver
      /\ h.connections[s].offered => c.offered
      /\ c.created = h.connections[s].created
  BY BootstrapOK
<1> HIDE DEF k
<1>2. c \in Connection /\ Tidy(c) /\ c.allocated
  BY <1>1, HostFacts DEF Tidy
<1>3. CASE stream \in c.created
  <2>1. HostInv(Push(k, s, "kData"), tr, sh, fo)
    BY <1>1, <1>2, <1>3, PushDataOK
  <2> QED
    BY <1>3, <2>1 DEF HandleSctpPacket, k
<1>4. CASE stream \notin c.created
  <2>1. /\ d \in Connection /\ d.allocated /\ d.connected = c.connected /\ d.remote = c.remote
        /\ d.offered = c.offered /\ d.createdDataChannels = c.createdDataChannels
        /\ d.created = c.created \cup {stream} /\ d.handshakeOver
        /\ d.generation = c.generation /\ d.abandoned = c.abandoned
    BY <1>1, <1>2 DEF Connection
  <2>2. d.created \cap OutStreams # {} => d.offered
    BY <1>1, <1>2, <2>1, WebrtcAssumption DEF Tidy
  <2> HIDE DEF d
  <2>3. HostInv(CheckConnectedState(WithConnection(k, s, d), s), tr, sh, fo)
    BY <1>1, <1>2, <2>1, <2>2, CheckConnectedOK
  <2> QED
    BY <1>1, <1>4, <2>3 DEF HandleSctpPacket, k, d
<1> QED
  BY <1>3, <1>4

LEMMA CallbacksOK ==
    ASSUME NEW tr, NEW sh, NEW fo, NEW h, HostInv(h, tr, sh, fo), NEW s \in Slots,
           NEW k \in Callbacks(h, s)
    PROVE  HostInv(k, tr, sh, fo)
<1> DEFINE c == h.connections[s]
<1>1. c \in Connection /\ c.created \subseteq Streams /\ Tidy(c) /\ (c.abandoned => s \in sh)
  BY HostFacts DEF Connection, SlotInv
<1>2. c.handshakeOver => c.allocated
  BY <1>1 DEF Tidy
<1>3. CASE c.handshakeOver /\ k = AssociationUp(h, s)
  BY <1>3, AssociationUpOK
<1>4. CASE (c.handshakeOver \/ c.abandoned) /\ k = NotifySocketDisconnected(h, s)
  BY <1>1, <1>2, <1>4, NotifyDisconnectedOK
<1>5. ASSUME c.handshakeOver, NEW i \in InStreams, i \notin c.created, k = HandleSctpPacket(h, s, "open", i)
      PROVE  HostInv(k, tr, sh, fo)
  <2>1. i \in Streams
    BY DEF Streams
  <2> QED
    BY <1>5, <2>1, HandleSctpPacketOK
<1>6. ASSUME c.handshakeOver, NEW o \in OutStreams, c.offered, k = HandleSctpPacket(h, s, "ack", o)
      PROVE  HostInv(k, tr, sh, fo)
  <2>1. o \in Streams
    BY DEF Streams
  <2> QED
    BY <1>6, <2>1, HandleSctpPacketOK
<1>7. ASSUME c.handshakeOver, NEW i \in c.created, c.offered, k = HandleSctpPacket(h, s, "data", i)
      PROVE  HostInv(k, tr, sh, fo)
  <2>1. i \in Streams
    BY <1>1, <1>7
  <2> QED
    BY <1>7, <2>1, HandleSctpPacketOK
<1> QED
  BY <1>3, <1>4, <1>5, <1>6, <1>7 DEF Callbacks

LEMMA ConnInputOK ==
    ASSUME NEW tr, NEW sh, NEW fo, NEW h, HostInv(h, tr, sh, fo), NEW s \in Slots,
           NEW k \in ConnInput(h, s)
    PROVE  HostInv(k, tr, sh, fo)
<1>1. \A g \in {h} \cup Callbacks(h, s) : HostInv(g, tr, sh, fo)
  BY CallbacksOK
<1>2. \A g \in {h} \cup Callbacks(h, s) : \A n \in Callbacks(g, s) : HostInv(n, tr, sh, fo)
  BY <1>1, CallbacksOK
<1> QED
  BY <1>1, <1>2 DEF ConnInput

LEMMA UpdateHandshakeOK ==
    ASSUME NEW tr, NEW sh, NEW fo, NEW h, HostInv(h, tr, sh, fo), NEW s \in Slots,
           h.connections[s].allocated \/ s \in sh, ~h.connections[s].handshakeOver,
           NEW k \in UpdateHandshake(h, s)
    PROVE  HostInv(k, tr, sh, fo)
<1> DEFINE c == h.connections[s]
<1> DEFINE d == [c EXCEPT !.handshakeOver = TRUE]
<1>1. c \in Connection /\ Tidy(c)
  BY HostFacts
<1>2. CASE k = CleanupConnection(h, s)
  <2>1. ~(c.allocated /\ c.connected)
    BY <1>1 DEF Tidy
  <2> QED
    BY <1>2, <2>1, CleanupOK
<1>3. CASE c.allocated /\ k = WithConnection(h, s, d)
  <2>1. /\ d \in Connection /\ d.allocated = c.allocated /\ d.connected = c.connected /\ d.remote = c.remote
        /\ d.offered = c.offered /\ d.createdDataChannels = c.createdDataChannels /\ d.created = c.created
        /\ d.generation = c.generation /\ d.abandoned = c.abandoned /\ d.handshakeOver
    BY <1>1 DEF Connection
  <2> HIDE DEF d
  <2>2. Tidy(d) /\ (Done(c) => Done(d))
    BY <1>1, <1>3, <2>1 DEF Tidy, Done
  <2> QED
    BY <1>3, <2>1, <2>2, SetConnection
<1>4. CASE k = h
  BY <1>4
<1> QED
  BY <1>2, <1>3, <1>4 DEF UpdateHandshake

-----------------------------------------------------------------------------
(* The actions.                                                             *)

LEMMA SlotTakenShape ==
    ASSUME FreeSlots # {}, host.nextConnection \in Nat
    PROVE  SlotTaken \in Slots
<1>1. FreeSlots \in SUBSET Nat
  BY WebrtcAssumption DEF FreeSlots, Slots
<1>2. FirstFree \in Nat
  BY <1>1, MinOfNaturals DEF FirstFree
<1> QED
  BY <1>2, WebrtcAssumption DEF SlotTaken, Slots

\* More slots are excused: those that are shared from now on, or forced.
LEMMA ExcuseMore ==
    ASSUME NEW tr, NEW sh, NEW fo, NEW h, HostInv(h, tr, sh, fo), NEW more, NEW most,
           sh \subseteq more, fo \subseteq most
    PROVE  HostInv(h, tr, more, most)
<1>1. MapOK(h, more)
  <2>1. MapOK(h, sh) /\ (more = {} => sh = {})
    BY DEF HostInv
  <2> QED
    BY <2>1 DEF MapOK
<1>2. ASSUME NEW s \in Slots
      PROVE  SlotInv(h.connections[s], h.inputQueue, tr[s], s, more, most)
  <2>1. SlotInv(h.connections[s], h.inputQueue, tr[s], s, sh, fo)
    BY DEF HostInv
  <2> QED
    BY <2>1 DEF SlotInv
<1> QED
  BY <1>1, <1>2 DEF HostInv

LEMMA ReceiveOK ==
    ASSUME BackendInv, NEW r \in Remotes, pc = "receive",
           AcceptDatagram(r) \/ KnownDatagram(r)
    PROVE  HostInv(host', transmitters, shared', forced) /\ pc' = "timers"
<1>1. /\ HostInv(host, transmitters, shared, forced) /\ host.inputQueue = <<>>
      /\ host \in Hosts /\ host.nextConnection \in Nat /\ MapOK(host, shared)
      /\ host.connectionMap \in Maps
  BY HostFacts DEF BackendInv, Hosts
<1>2. CASE AcceptDatagram(r)
  <2> DEFINE k == InitConnection(host, SlotTaken, r)
  <2>1. SlotTaken \in Slots /\ r \notin DOMAIN host.connectionMap /\ pc' = "timers"
    BY <1>1, <1>2, SlotTakenShape DEF AcceptDatagram
  <2>2. /\ shared \subseteq shared' /\ (host.connections[SlotTaken].allocated => SlotTaken \in shared')
        /\ host' \in UpdateHandshake(k, SlotTaken)
    BY <1>2 DEF AcceptDatagram
  <2>3. HostInv(host, transmitters, shared', forced)
    BY <1>1, <2>2, ExcuseMore
  <2>4. /\ HostInv(k, transmitters, shared', forced)
        /\ k.connections[SlotTaken].allocated /\ ~k.connections[SlotTaken].handshakeOver
    BY <1>1, <2>1, <2>2, <2>3, OpenedOK
  <2> HIDE DEF k
  <2> QED
    BY <2>1, <2>2, <2>4, UpdateHandshakeOK
<1>3. CASE KnownDatagram(r)
  <2> DEFINE s == host.connectionMap[r]
  <2>1. s \in Slots /\ pc' = "timers" /\ shared' = shared
    BY <1>1, <1>3, MapsShape DEF KnownDatagram
  <2>2. host.connections[s].allocated \/ s \in shared
    BY <1>1, <1>3 DEF KnownDatagram, MapOK
  <2>3. CASE host' = NotifySocketDisconnected(host, s)
    BY <1>1, <2>1, <2>2, <2>3, NotifyDisconnectedOK
  <2>4. ASSUME NEW h \in ConnInput(host, s), host' = BootstrapConnection(h, s)
        PROVE  HostInv(host', transmitters, shared, forced)
    <3>1. HostInv(h, transmitters, shared, forced)
      BY <1>1, <2>1, ConnInputOK
    <3> QED
      BY <2>1, <2>4, <3>1, BootstrapOK
  <2>5. CASE ~host.connections[s].handshakeOver /\ host' \in UpdateHandshake(host, s)
    BY <1>1, <2>1, <2>2, <2>5, UpdateHandshakeOK
  <2> QED
    BY <1>3, <2>1, <2>3, <2>4, <2>5 DEF KnownDatagram
<1> QED
  BY <1>2, <1>3

LEMMA PollEventOK ==
    ASSUME BackendInv, PollEvent
    PROVE  BackendInv'
<1> DEFINE q == host.inputQueue
<1> DEFINE e == Head(q)
<1>1. /\ HostInv(host, transmitters, shared, forced) /\ host \in Hosts /\ MapOK(host, shared)
      /\ q \in Seq(HostEvent) /\ q # <<>> /\ pc = "events"
      /\ transmitters \in [Slots -> Transmitter \cup {None}]
      /\ \A s \in Slots : SlotInv(host.connections[s], q, transmitters[s], s, shared, forced)
  BY HostFacts DEF BackendInv, PollEvent
<1>2. /\ e \in HostEvent /\ e = q[1] /\ e.slot \in Slots /\ Tail(q) \in Seq(HostEvent)
      /\ e.type \in {"kConnected", "kData", "kDisconnected"} /\ 1 \in 1 .. Len(q)
      /\ At(q, 1, e.type, e.slot)
      /\ \A s, type : At(q, 1, type, s) => s = e.slot /\ type = e.type
  <2>1. e \in HostEvent /\ e = q[1] /\ Tail(q) \in Seq(HostEvent) /\ Len(q) \in Nat \ {0}
    BY <1>1, PopShape
  <2> HIDE DEF e
  <2>2. e.slot \in Slots /\ e.type \in {"kConnected", "kData", "kDisconnected"}
    BY <2>1 DEF HostEvent
  <2> QED
    BY <2>1, <2>2 DEF At
<1>3. /\ host' \in Hosts /\ host'.connections = host.connections
      /\ host'.connectionMap = host.connectionMap /\ host'.inputQueue = Tail(q)
  <2>1. host' = [host EXCEPT !.inputQueue = Tail(q)]
    BY DEF PollEvent
  <2>2. Tail(q) \in Seq(HostEvent)
    BY <1>2
  <2> QED
    BY <1>1, <2>1, <2>2 DEF Hosts
<1> HIDE DEF q, e
<1>4. MapOK(host', shared)
  BY <1>1, <1>3 DEF MapOK
<1>5. shared' = shared /\ forced' = forced
  BY DEF PollEvent
<1>6. HandleEvent(e)
  BY DEF PollEvent, e, q
<1>7. /\ transmitters' \in [Slots -> Transmitter \cup {None}]
      /\ pc' \in {"events", "data for nobody", "freed nothing"}
      /\ \A s \in Slots : SlotInv(host.connections[s], Tail(q), transmitters'[s], s, shared, forced)
  <2>1. CASE e.type = "kConnected"
    <3> DEFINE u == [slot |-> e.slot, generation |-> e.generation, remote |-> e.remote]
    <3>1. transmitters[e.slot] = None
      BY <1>1, <1>2, <2>1 DEF SlotInv
    <3>2. u \in Transmitter /\ u # None /\ u.slot = e.slot /\ u.remote = q[1].remote
          /\ u.generation = q[1].generation
      BY <1>2, BackendAssumption DEF Transmitter, HostEvent
    <3> HIDE DEF u
    <3>3. transmitters' = [transmitters EXCEPT ![e.slot] = u] /\ pc' = pc
      BY <1>6, <2>1, <3>1 DEF HandleEvent, u
    <3>4. SlotInv(host.connections[e.slot], Tail(q), u, e.slot, shared, forced)
      BY <1>1, <1>2, <2>1, <3>2, PopConnected
    <3>5. \A s \in Slots \ {e.slot} : SlotInv(host.connections[s], Tail(q), transmitters[s], s, shared, forced)
      BY <1>1, <1>2, PopOther
    <3> QED
      BY <1>1, <1>2, <3>2, <3>3, <3>4, <3>5
  <2>2. CASE e.type = "kData"
    <3>1. \A s \in Slots : ~At(q, 1, "kConnected", s) /\ ~At(q, 1, "kDisconnected", s)
      BY <1>2, <2>2
    <3>2. transmitters' = transmitters /\ pc' \in {pc, "data for nobody"}
      BY <1>6, <2>2 DEF HandleEvent
    <3>3. \A s \in Slots : SlotInv(host.connections[s], Tail(q), transmitters[s], s, shared, forced)
      BY <1>1, <3>1, PopOther
    <3> QED
      BY <1>1, <3>2, <3>3
  <2>3. CASE e.type = "kDisconnected"
    <3>2. /\ transmitters' = [transmitters EXCEPT ![e.slot] = None]
          /\ pc' \in {pc, "freed nothing"}
      <4>1. CASE transmitters[e.slot] # None
        BY <1>6, <2>3, <4>1 DEF HandleEvent
      <4>2. CASE transmitters[e.slot] = None
        <5>1. transmitters' = transmitters /\ pc' = "freed nothing"
          BY <1>6, <2>3, <4>2 DEF HandleEvent
        <5> QED
          BY <1>1, <1>2, <4>2, <5>1
      <4> QED
        BY <4>1, <4>2
    <3>3. SlotInv(host.connections[e.slot], Tail(q), None, e.slot, shared, forced)
      BY <1>1, <1>2, <2>3, PopDisconnected
    <3>4. \A s \in Slots \ {e.slot} : SlotInv(host.connections[s], Tail(q), transmitters[s], s, shared, forced)
      BY <1>1, <1>2, PopOther
    <3> QED
      BY <1>1, <1>2, <3>2, <3>3, <3>4
  <2> QED
    BY <1>2, <2>1, <2>2, <2>3
<1>8. HostInv(host', transmitters', shared, forced)
  BY <1>3, <1>4, <1>7 DEF HostInv
<1> QED
  BY <1>5, <1>7, <1>8 DEF BackendInv

LEMMA InitOK == Init => BackendInv
<1> SUFFICES ASSUME Init PROVE BackendInv
  OBVIOUS
<1>1. UnusedConnection \in Connection
  BY WebrtcAssumption DEF UnusedConnection, Connection, Generations
<1>2. /\ host.connections = [s \in Slots |-> UnusedConnection]
      /\ host.connectionMap = [r \in {} |-> 0] /\ host.inputQueue = <<>> /\ host.nextConnection = 0
  BY DEF Init, HostInit, NewHost
<1>3. host \in Hosts
  <2>1. [r \in {} |-> 0] \in Maps
    BY MapsShape
  <2>2. [s \in Slots |-> UnusedConnection] \in [Slots -> Connection]
    BY <1>1
  <2> HIDE DEF Maps
  <2> QED
    BY <2>1, <2>2 DEF Init, HostInit, NewHost, Hosts
<1>4. shared = {} /\ forced = {} /\ MapOK(host, shared)
  BY <1>2 DEF MapOK, UnusedConnection, Init, HostInit
<1>5. Tidy(UnusedConnection)
  BY WebrtcAssumption DEF Tidy, UnusedConnection, Streams
<1>6. \A s \in Slots : SlotInv(host.connections[s], host.inputQueue, None, s, shared, forced)
  BY <1>2, <1>5 DEF SlotInv, UnusedConnection
<1>7. transmitters = [s \in Slots |-> None] /\ pc = "receive"
  BY DEF Init, HostInit
<1>8. HostInv(host, transmitters, shared, forced)
  BY <1>3, <1>4, <1>6, <1>7 DEF HostInv
<1> QED
  BY <1>2, <1>7, <1>8 DEF BackendInv

LEMMA NextOK == ASSUME BackendInv, [Next]_backendVars PROVE BackendInv'
<1>1. /\ HostInv(host, transmitters, shared, forced) /\ host \in Hosts
      /\ \A s \in Slots : host.connections[s] \in Connection
  BY HostFacts DEF BackendInv
<1>2. CASE Receive /\ UNCHANGED <<transmitters, forced>>
  BY <1>2, ReceiveOK DEF Receive, BackendInv
<1>3. CASE (ReceiveNothing \/ HostUpdated) /\ UNCHANGED <<transmitters, forced>>
  BY <1>3 DEF ReceiveNothing, HostUpdated, BackendInv
<1>4. ASSUME NEW s \in Slots, AssociationTimesOut(s) \/ HandshakeTimesOut(s), UNCHANGED <<transmitters, forced>>
      PROVE  BackendInv'
  <2>1. pc = "timers" /\ pc' = pc /\ shared' = shared
    BY <1>4 DEF AssociationTimesOut, HandshakeTimesOut
  <2>2. Tidy(host.connections[s]) /\ (host.connections[s].abandoned => s \in shared)
    BY <1>1, HostFacts DEF SlotInv
  <2>3. CASE AssociationTimesOut(s)
    <3>1. host.connections[s].allocated \/ s \in shared
      BY <2>2, <2>3 DEF AssociationTimesOut
    <3>2. HostInv(host', transmitters, shared, forced)
      BY <1>1, <2>3, <3>1, NotifyDisconnectedOK DEF AssociationTimesOut
    <3> QED
      BY <1>4, <2>1, <3>2 DEF BackendInv
  <2>4. CASE HandshakeTimesOut(s)
    <3>1. host.connections[s].allocated /\ ~host.connections[s].connected
      BY <2>2, <2>4 DEF HandshakeTimesOut, Tidy
    <3>2. HostInv(host', transmitters, shared, forced)
      BY <1>1, <2>4, <3>1, CleanupOK DEF HandshakeTimesOut
    <3> QED
      BY <1>4, <2>1, <3>2 DEF BackendInv
  <2> QED
    BY <1>4, <2>3, <2>4
<1>5. CASE PollEvent
  BY <1>5, PollEventOK
<1>6. CASE EventsPolled
  BY <1>6 DEF EventsPolled, BackendInv
<1>7. ASSUME NEW s \in Slots, DisconnectClient(s) PROVE BackendInv'
  <2> DEFINE handle == FromRaw(GetRaw(transmitters[s]))
  <2>1. /\ ForceDisconnect(handle) /\ UNCHANGED <<pc, transmitters>>
        /\ forced' = IF Names(host, handle) THEN forced \cup {handle.slot} ELSE forced
    BY <1>7 DEF DisconnectClient
  <2> HIDE DEF handle
  <2>2. CASE Names(host, handle)
    <3>1. handle.slot \in Slots /\ host.connections[handle.slot].allocated
      BY <2>2 DEF Names
    <3>2. host' = CleanupConnection(host, handle.slot) /\ shared' = shared
      BY <2>1, <2>2 DEF ForceDisconnect
    <3>3. forced \subseteq forced' /\ handle.slot \in forced'
      BY <2>1, <2>2
    <3>4. HostInv(host, transmitters, shared, forced')
      BY <1>1, <3>3, ExcuseMore
    <3>5. HostInv(host', transmitters, shared, forced') /\ host'.inputQueue = host.inputQueue
      BY <3>1, <3>2, <3>3, <3>4, CleanupOK
    <3> QED
      BY <2>1, <3>2, <3>5 DEF BackendInv
  <2>3. CASE ~Names(host, handle)
    BY <2>1, <2>3 DEF ForceDisconnect, BackendInv
  <2> QED
    BY <2>2, <2>3
<1>8. CASE UNCHANGED backendVars
  BY <1>8 DEF backendVars, BackendInv
<1> QED
  BY <1>2, <1>3, <1>4, <1>5, <1>6, <1>7, <1>8 DEF Next, HostUpdate

-----------------------------------------------------------------------------
\* An address leads to a slot in use for it unless that was set up over a live
\* session; until that happens, every slot in use is found under its address.
THEOREM MapAlwaysMatchesSlots == Spec => []MapMatchesSlots
<1>1. BackendInv => MapMatchesSlots
  BY DEF BackendInv, HostInv, MapOK, MapMatchesSlots
<1>2. BackendInv /\ [Next]_backendVars => BackendInv'
  BY NextOK
<1> QED
  BY <1>1, <1>2, InitOK, PTL DEF Spec

\* A transmitter is never allocated over another, and a disconnection finds the
\* one it is for, except in a slot that was set up over a live session.
THEOREM EventsAreAlwaysPaired == Spec => EventsArePaired
<1> DEFINE Paired == /\ pc' # "allocated twice"
                     /\ pc' = "freed nothing" => Head(host.inputQueue).slot \in shared
<1>1. BackendInv /\ [Next]_backendVars => BackendInv'
  BY NextOK
<1>2. ASSUME BackendInv, Next, ~UNCHANGED backendVars PROVE Paired
  <2>1. pc' # "allocated twice"
    BY <1>2, NextOK DEF BackendInv
  <2>2. ASSUME pc' = "freed nothing" PROVE Head(host.inputQueue).slot \in shared
    <3> DEFINE q == host.inputQueue
    <3> DEFINE e == Head(q)
    <3>1. PollEvent
      <4>1. pc' \in {"timers", "events", "receive"} \/ pc' = pc \/ PollEvent
        BY <1>2, ReceiveOK DEF Next, HostUpdate, Receive, ReceiveNothing, HostUpdated, AssociationTimesOut,
                               HandshakeTimesOut, EventsPolled, DisconnectClient
      <4>2. pc # "freed nothing"
        BY <1>2 DEF Next, HostUpdate, Receive, ReceiveNothing, HostUpdated, AssociationTimesOut,
                    HandshakeTimesOut, PollEvent, EventsPolled, DisconnectClient
      <4> QED
        BY <2>2, <4>1, <4>2
    <3>2. /\ q \in Seq(HostEvent) /\ q # <<>> /\ HandleEvent(e) /\ pc = "events"
          /\ \A s \in Slots : SlotInv(host.connections[s], q, transmitters[s], s, shared, forced)
      BY <1>2, <3>1, HostFacts DEF BackendInv, PollEvent
    <3>3. e \in HostEvent /\ e = q[1] /\ Len(q) \in Nat \ {0} /\ 1 \in 1 .. Len(q)
      BY <3>2, PopShape
    <3> HIDE DEF q, e
    <3>4. e.slot \in Slots /\ e.type \in {"kConnected", "kData", "kDisconnected"}
      BY <3>3 DEF HostEvent
    <3>5. e.type = "kDisconnected" /\ transmitters[e.slot] = None
      BY <2>2, <3>2, <3>4 DEF HandleEvent
    <3>6. At(q, 1, "kDisconnected", e.slot)
      BY <3>3, <3>5 DEF At
    <3>7. ASSUME e.slot \notin shared PROVE FALSE
      <4>1. PICK j \in 1 .. Len(q) : At(q, j, "kConnected", e.slot)
        BY <3>2, <3>3, <3>4, <3>5, <3>6, <3>7 DEF SlotInv
      <4>2. j < 1
        BY <3>2, <3>3, <3>4, <3>6, <4>1 DEF SlotInv
      <4> QED
        BY <4>1, <4>2
    <3> QED
      BY <3>7 DEF e, q
  <2> QED
    BY <2>1, <2>2
<1>3. BackendInv /\ [Next]_backendVars => [Paired]_backendVars
  BY <1>2
<1> QED
  BY <1>1, <1>3, InitOK, PTL DEF Spec, EventsArePaired

\* What is sent through a transmitter reaches the address it was made for, or
\* nobody.
THEOREM TransmittersReachTheirPeers == Spec => []TransmitterReachesItsPeer
<1>1. BackendInv => TransmitterReachesItsPeer
  BY DEF BackendInv, HostInv, SlotInv, TransmitterReachesItsPeer, Names
<1>2. BackendInv /\ [Next]_backendVars => BackendInv'
  BY NextOK
<1> QED
  BY <1>1, <1>2, InitOK, PTL DEF Spec

\* Once the events are read, every connected peer has its transmitter, and one
\* without its connection has been left behind by the game's own disconnection
\* or in a slot that was set up over a live session.
THEOREM GameAlwaysKnowsItsPeers == Spec => []GameKnowsItsPeers
<1>1. BackendInv => GameKnowsItsPeers
  <2> SUFFICES ASSUME BackendInv, pc = "receive", NEW s \in Slots
               PROVE  LET c == host.connections[s] IN
                      /\ c.allocated /\ c.connected =>
                            transmitters[s] = [slot |-> s, generation |-> c.generation, remote |-> c.remote]
                      /\ transmitters[s] # None => Names(host, transmitters[s]) \/ s \in shared \cup forced
    BY DEF GameKnowsItsPeers
  <2> DEFINE c == host.connections[s]
  <2> DEFINE t == transmitters[s]
  <2>1. /\ host.inputQueue = <<>> /\ Len(<<>>) = 0 /\ \A i \in 1 .. 0 : FALSE
        /\ t \in Transmitter \cup {None}
        /\ SlotInv(c, <<>>, t, s, shared, forced)
    BY DEF BackendInv, HostInv
  <2> HIDE DEF c, t
  <2>2. c.allocated /\ c.connected => t # None
    BY <2>1 DEF SlotInv
  <2>3. t # None => t.slot = s /\ (c.allocated /\ c.connected => t.remote = c.remote /\ t.generation = c.generation)
    BY <2>1 DEF SlotInv
  <2>4. t # None => s \in shared \cup forced \/ (c.allocated /\ c.connected)
    BY <2>1 DEF SlotInv
  <2>5. t # None => t = [slot |-> t.slot, generation |-> t.generation, remote |-> t.remote]
    BY <2>1 DEF Transmitter
  <2>6. c.allocated /\ c.connected => t = [slot |-> s, generation |-> c.generation, remote |-> c.remote]
    BY <2>2, <2>3, <2>5
  <2>7. t # None => Names(host, t) \/ s \in shared \cup forced
    BY <2>3, <2>4 DEF Names, c
  <2> QED
    BY <2>6, <2>7 DEF c, t
<1>2. BackendInv /\ [Next]_backendVars => BackendInv'
  BY NextOK
<1> QED
  BY <1>1, <1>2, InitOK, PTL DEF Spec

\* Data finds nobody only when it came before its connection was announced.
THEOREM OnlyEarlyDataIsEverLost == Spec => OnlyEarlyDataIsLost
<1> DEFINE Early(s) ==
      \/ host.connections[s].offered /\ ~host.connections[s].connected /\ host.connections[s].created # Streams
      \/ \E i \in 2 .. Len(host.inputQueue) :
            host.inputQueue[i].slot = s /\ host.inputQueue[i].type = "kConnected"
<1> DEFINE Lost == pc' = "data for nobody" => Early(Head(host.inputQueue).slot)
<1>1. BackendInv /\ [Next]_backendVars => BackendInv'
  BY NextOK
<1>2. ASSUME BackendInv, Next, pc' = "data for nobody", ~UNCHANGED backendVars
      PROVE  Early(Head(host.inputQueue).slot)
  <2> DEFINE q == host.inputQueue
  <2> DEFINE e == Head(q)
  <2> DEFINE c == host.connections[e.slot]
  <2>1. PollEvent
    <3>1. pc' \in {"timers", "events", "receive"} \/ pc' = pc \/ PollEvent
      BY <1>2, ReceiveOK DEF Next, HostUpdate, Receive, ReceiveNothing, HostUpdated, AssociationTimesOut,
                             HandshakeTimesOut, EventsPolled, DisconnectClient
    <3>2. pc # "data for nobody"
      BY <1>2 DEF Next, HostUpdate, Receive, ReceiveNothing, HostUpdated, AssociationTimesOut,
                  HandshakeTimesOut, PollEvent, EventsPolled, DisconnectClient
    <3> QED
      BY <1>2, <3>1, <3>2
  <2>2. /\ q \in Seq(HostEvent) /\ q # <<>> /\ HandleEvent(e) /\ pc = "events"
        /\ \A s \in Slots : SlotInv(host.connections[s], q, transmitters[s], s, shared, forced)
    BY <1>2, <2>1, HostFacts DEF BackendInv, PollEvent
  <2>3. e \in HostEvent /\ e = q[1] /\ Len(q) \in Nat \ {0}
    BY <2>2, PopShape
  <2> HIDE DEF q, e
  <2>4. e.slot \in Slots /\ e.type \in {"kConnected", "kData", "kDisconnected"}
    BY <2>3 DEF HostEvent
  <2>5. e.type = "kData" /\ transmitters[e.slot] = None
    BY <1>2, <2>2, <2>4 DEF HandleEvent
  <2>6. \/ \E j \in 1 .. Len(q) : At(q, j, "kConnected", e.slot)
        \/ c.offered /\ ~c.connected
    BY <2>2, <2>3, <2>4, <2>5 DEF SlotInv, At
  <2>7. ASSUME NEW j \in 1 .. Len(q), At(q, j, "kConnected", e.slot)
        PROVE  j \in 2 .. Len(q) /\ q[j].slot = e.slot /\ q[j].type = "kConnected"
    BY <2>3, <2>5, <2>7 DEF At
  <2>8. ~c.connected => c.created # Streams
    BY <2>2, <2>4 DEF SlotInv, Tidy
  <2> QED
    BY <2>6, <2>7, <2>8 DEF q, e
<1>3. BackendInv /\ [Next]_backendVars => [Lost]_backendVars
  BY <1>2
<1>4. [Lost]_backendVars => [pc' = "data for nobody" =>
          LET s == Head(host.inputQueue).slot
              c == host.connections[s]
          IN  \/ c.offered /\ ~c.connected /\ c.created # Streams
              \/ \E i \in 2 .. Len(host.inputQueue) :
                    host.inputQueue[i].slot = s /\ host.inputQueue[i].type = "kConnected"
      ]_backendVars
  OBVIOUS
<1> QED
  BY <1>1, <1>3, <1>4, InitOK, PTL DEF Spec, OnlyEarlyDataIsLost
=============================================================================
