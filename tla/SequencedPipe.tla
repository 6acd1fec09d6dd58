---------------------------- MODULE SequencedPipe ----------------------------
(***************************************************************************)
(* A pipe of mode kUnreliableSequenced over WebRTC: the writer puts an     *)
(* eight bit number before every packet, the reader compares it with the   *)
(* number of the last packet it handed over.  Translated from              *)
(* src/StormNetCustomBindings/NetTransmitterServerWebrtc.cpp (writer) and  *)
(* NetClientBackendWebrtc.cpp (reader); the other direction,               *)
(* NetTransmitterClientWebrtc.cpp and NetServerBackendWebrtc.cpp, is the   *)
(* same.                                                                   *)
(*                                                                         *)
(* The channel is external: its packets are unordered, and may be lost.    *)
(* Packets are told apart by their place in the sequence of sends, which   *)
(* the program does not keep; the number it does keep is a function of it. *)
(***************************************************************************)
EXTENDS Integers, TLAPS

CONSTANTS
    MaxSent,     \* bound: packets sent
    MaxDelay     \* bound: how far a packet may fall behind

VARIABLES
    sent,      \* packets sent
    network,   \* places of the packets on their way
    first,     \* m_IncSeqs[stream].first
    last,      \* place of the packet handed over last, 0 before
    newest     \* history: the latest place handed over

vars == <<sent, network, first, last, newest>>

\* The width of the number: m_OutSeqs is a uint8_t that wraps.
Sequence(n) == n % 256

\* The difference is taken as an int, it does not wrap.
Dropped(seq) == seq - first > 128

PipeInit == sent = 0 /\ network = {} /\ first = 0 /\ last = 0 /\ newest = 0

CreateWriter ==
    /\ sent < MaxSent
    /\ \A n \in network : sent - n < MaxDelay
    /\ network' = network \cup {sent}
    /\ sent' = sent + 1
    /\ UNCHANGED <<first, last, newest>>

PollPacket(n) ==
    /\ network' = network \ {n}
    /\ IF Dropped(Sequence(n))
       THEN UNCHANGED <<first, last, newest>>
       ELSE /\ first' = Sequence(n)
            /\ last' = n
            /\ newest' = IF n > newest THEN n ELSE newest
    /\ UNCHANGED sent

Lose(n) ==
    /\ network' = network \ {n}
    /\ UNCHANGED <<sent, first, last, newest>>

Next == CreateWriter \/ \E n \in network : PollPacket(n) \/ Lose(n)

Spec == PipeInit /\ [][Next]_vars

-----------------------------------------------------------------------------
(* Properties.                                                              *)

TypeOK ==
    /\ sent \in Nat /\ last \in Nat
    /\ network \subseteq Nat
    /\ first = Sequence(last)

\* The pipe is sequenced (GameProtocol.h:32): a packet that was overtaken is
\* not handed over after the newer one.
NeverGoesBack == last = newest

\* The comparison drops no packet it should keep, wherever the number has
\* wrapped: one that is dropped was overtaken, or is more than half of the
\* numbers ahead.
OnlyOldOrFarDropped ==
    \A n \in network : Dropped(Sequence(n)) => n < last \/ n > last + 128

-----------------------------------------------------------------------------
(* Proofs.                                                                  *)

\* The number the reader keeps is that of the packet it handed over last, after
\* any number of packets and whatever the channel did to them.
THEOREM PipeTypeCorrect == Spec => []TypeOK
<1>1. PipeInit => TypeOK
  BY DEF PipeInit, TypeOK, Sequence
<1>2. TypeOK /\ [Next]_vars => TypeOK'
  <2> SUFFICES ASSUME TypeOK, [Next]_vars PROVE TypeOK'
    OBVIOUS
  <2>1. CASE CreateWriter
    BY <2>1 DEF CreateWriter, TypeOK, Sequence
  <2>2. ASSUME NEW n \in network, PollPacket(n) PROVE TypeOK'
    BY <2>2 DEF PollPacket, TypeOK, Sequence
  <2>3. ASSUME NEW n \in network, Lose(n) PROVE TypeOK'
    BY <2>3 DEF Lose, TypeOK, Sequence
  <2>4. CASE UNCHANGED vars
    BY <2>4 DEF vars, TypeOK, Sequence
  <2> QED BY <2>1, <2>2, <2>3, <2>4 DEF Next
<1> QED BY <1>1, <1>2, PTL DEF Spec

\* Of two places at most 128 apart the later one is never taken for an old one:
\* the numbers differ by what the places differ by, less the wrap.
LEMMA NumbersAreOrdered ==
  ASSUME NEW m \in Nat, NEW n \in Nat, m <= n, n <= m + 128
  PROVE  Sequence(n) - Sequence(m) <= 128
<1>1. PICK a \in Nat, x \in 0 .. 255 : m = 256 * a + x /\ Sequence(m) = x
  BY Z3 DEF Sequence
<1>2. PICK b \in Nat, y \in 0 .. 255 : n = 256 * b + y /\ Sequence(n) = y
  BY Z3 DEF Sequence
<1>3. a <= b
  BY <1>1, <1>2
<1>4. y - x <= 128
  BY <1>1, <1>2, <1>3
<1> QED BY <1>1, <1>2, <1>4

\* No packet that is newer by 128 at most is ever dropped, for pipes of any
\* length: what the reader's comparison is for.
THEOREM NewerIsKept == Spec => []OnlyOldOrFarDropped
<1>1. TypeOK => OnlyOldOrFarDropped
  <2> SUFFICES ASSUME TypeOK, NEW n \in network, Dropped(Sequence(n)), n >= last
               PROVE  n > last + 128
    BY DEF OnlyOldOrFarDropped, TypeOK
  <2>1. n \in Nat /\ last \in Nat /\ Sequence(n) - Sequence(last) > 128
    BY DEF TypeOK, Dropped
  <2>2. ~(n <= last + 128)
    BY <2>1, NumbersAreOrdered DEF Sequence
  <2> QED BY <2>1, <2>2
<1> QED BY <1>1, PipeTypeCorrect, PTL
=============================================================================
