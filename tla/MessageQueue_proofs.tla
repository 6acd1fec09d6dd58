------------------------ MODULE MessageQueue_proofs -------------------------
(***************************************************************************)
(* The message queue keeps its types for any number of threads, and its    *)
(* compare-exchanges find what the thread has read where one thread        *)
(* enqueues and one dequeues.  As long as nobody is late it implements     *)
(* AbstractQueue and every slot has one owner; late producers spoil the    *)
(* order only.  All for any length and any messages.                       *)
(***************************************************************************)
EXTENDS MessageQueueShared, MessageQueueAttempts, FiniteSetTheorems, SequenceTheorems, TLAPS

LEMMA Next1Type == \A i \in Places : Next1(i) \in Places
  BY QueueAssumption DEF Places, Next1

\* No two places have the same successor.
LEMMA Next1Injective ==
    ASSUME NEW i \in Places, NEW j \in Places, Next1(i) = Next1(j)
    PROVE  i = j
  BY QueueAssumption DEF Places, Next1
-----------------------------------------------------------------------------
(* Types *)

LEMMA InitTypes == Init => TypeOK
  <1> SUFFICES ASSUME Init PROVE TypeOK
    OBVIOUS
  <1>1. 0 \in Places
    BY QueueAssumption DEF Places
  <1>2. IdleProducer \in [at : ProducerSteps, msg : Messages \union {NoMessage},
                          slot : Places, idx : Places]
    BY <1>1 DEF IdleProducer, ProducerSteps
  <1>3. IdleConsumer \in [at : ConsumerSteps, idx : Places, val : Places \union {Empty}]
    BY <1>1 DEF IdleConsumer, ConsumerSteps
  <1> QED BY <1>1, <1>2, <1>3 DEF Init, TypeOK

LEMMA ProducerTypes ==
    ASSUME TypeOK, NEW p \in Producers,
           ProducerStep(p) \/ GiveUp(p) \/ \E m \in Messages : Enqueue(p, m)
    PROVE  TypeOK'
  <1> DEFINE P == [at : ProducerSteps, msg : Messages \union {NoMessage},
                   slot : Places, idx : Places]
  <1>0. prod[p] \in P /\ 0 \in Places
    BY QueueAssumption DEF TypeOK, Places
  <1>1. ASSUME NEW m \in Messages, Enqueue(p, m) PROVE TypeOK'
    BY <1>0, <1>1 DEF Enqueue, TypeOK, memory, IdleProducer, ProducerSteps
  <1>2. CASE AllocateSlot(p)
    BY <1>0, <1>2 DEF AllocateSlot, Step, TypeOK, ProducerSteps
  <1>3. CASE SkipSlot(p)
    <2>1. prod[p].slot # Length - 1 => prod[p].slot + 1 \in Places
      BY <1>0, QueueAssumption DEF Places
    <2> QED BY <1>0, <1>3, <2>1 DEF SkipSlot, TypeOK, memory, ProducerSteps
  <1>4. CASE Construct(p)
    BY <1>0, <1>4 DEF Construct, Step, TypeOK, ProducerSteps
  <1>5. CASE ReadHead(p)
    BY <1>0, <1>5 DEF ReadHead, TypeOK, memory, ProducerSteps
  <1>6. CASE CheckFull(p)
    BY <1>0, <1>6 DEF CheckFull, Step, TypeOK, memory, ProducerSteps
  <1>7. CASE PlaceIndex(p)
    BY <1>0, <1>7 DEF PlaceIndex, Step, TypeOK, ProducerSteps
  <1>8. CASE PlaceTaken(p)
    BY <1>0, <1>8 DEF PlaceTaken, Step, TypeOK, memory, ProducerSteps
  <1>9. CASE RereadHead(p)
    BY <1>0, <1>9 DEF RereadHead, TypeOK, memory, ProducerSteps
  <1>10. CASE AdvanceHead(p)
    BY <1>0, <1>10, Next1Type DEF AdvanceHead, TypeOK, IdleProducer, ProducerSteps
  <1>11. CASE HeadMoved(p)
    BY <1>0, <1>11 DEF HeadMoved, Step, TypeOK, memory, ProducerSteps
  <1>12. CASE ReleaseSlot(p)
    BY <1>0, <1>12 DEF ReleaseSlot, TypeOK, IdleProducer, ProducerSteps
  <1>13. CASE Retry(p)
    BY <1>0, <1>13 DEF Retry, Step, TypeOK, memory, ProducerSteps
  <1>14. CASE GiveUp(p)
    BY <1>0, <1>14 DEF GiveUp, TypeOK, memory, IdleProducer, ProducerSteps
  <1> QED
    BY <1>1, <1>2, <1>3, <1>4, <1>5, <1>6, <1>7, <1>8, <1>9, <1>10, <1>11, <1>12,
       <1>13, <1>14 DEF ProducerStep

LEMMA ConsumerTypes ==
    ASSUME TypeOK, NEW c \in Consumers, ConsumerStep(c)
    PROVE  TypeOK'
  <1>0. /\ cons[c] \in [at : ConsumerSteps, idx : Places, val : Places \union {Empty}]
        /\ 0 \in Places
    BY QueueAssumption DEF TypeOK, Places
  <1>1. CASE ReadTail(c)
    BY <1>0, <1>1 DEF ReadTail, TypeOK, memory, ConsumerSteps
  <1>2. CASE CheckEmpty(c)
    BY <1>0, <1>2 DEF CheckEmpty, TypeOK, memory, IdleConsumer, ConsumerSteps
  <1>3. CASE ReadPlace(c)
    BY <1>0, <1>3 DEF ReadPlace, TypeOK, memory, ConsumerSteps
  <1>4. CASE Claim(c)
    BY <1>0, <1>4, Next1Type DEF Claim, TypeOK, ConsumerSteps
  <1>5. CASE ClaimLost(c)
    BY <1>0, <1>5 DEF ClaimLost, TypeOK, memory, IdleConsumer, ConsumerSteps
  <1>6. CASE ClearPlace(c)
    BY <1>0, <1>6 DEF ClearPlace, TypeOK, ConsumerSteps
  <1>7. CASE TakeMessage(c)
    BY <1>0, <1>7 DEF TakeMessage, TypeOK, memory, ConsumerSteps
  <1>8. CASE FreeSlot(c)
    BY <1>0, <1>8 DEF FreeSlot, TypeOK, IdleConsumer, ConsumerSteps
  <1> QED
    BY <1>1, <1>2, <1>3, <1>4, <1>5, <1>6, <1>7, <1>8 DEF ConsumerStep

LEMMA NextTypes == TypeOK /\ [Next]_vars => TypeOK'
  <1>1. ASSUME TypeOK, UNCHANGED vars PROVE TypeOK'
    BY <1>1 DEF TypeOK, vars
  <1> QED BY <1>1, ProducerTypes, ConsumerTypes DEF Next

\* Indices stay inside ring and array, however many threads enqueue and
\* dequeue, and however late they are.
THEOREM QueueTypeCorrect == Spec => []TypeOK
  BY InitTypes, NextTypes, PTL DEF Spec
-----------------------------------------------------------------------------
(* One producer, one consumer *)

OneOfEach ==
    /\ \A p, q \in Producers : p = q
    /\ \A c, d \in Consumers : c = d

\* What the producer has read of m_Head, and the room it has found, are still
\* there, since it alone moves m_Head and a consumer only makes room.
ProducerUpToDate ==
    \A p \in Producers :
        /\ prod[p].at \in {"check full", "place"} => prod[p].idx = head
        /\ prod[p].at \in {"place", "reread head", "advance"} => Next1(head) # tail

\* What the consumer has read of m_Tail and of the place behind it is still
\* there, since it alone moves m_Tail and a producer only adds.
ConsumerUpToDate ==
    \A c \in Consumers :
        /\ cons[c].at \in {"check empty", "read place", "claim"} => cons[c].idx = tail
        /\ cons[c].at \in {"read place", "claim"} => tail # head
        /\ cons[c].at = "claim" => cons[c].val = queue[tail]

AloneInv == TypeOK /\ ProducerUpToDate /\ ConsumerUpToDate

LEMMA InitAlone == Init => AloneInv
  <1> SUFFICES ASSUME Init PROVE AloneInv
    OBVIOUS
  <1>1. /\ \A p \in Producers : prod[p].at = "idle"
        /\ \A c \in Consumers : cons[c].at = "read tail"
    BY DEF Init, IdleProducer, IdleConsumer
  <1>2. ProducerUpToDate /\ ConsumerUpToDate
    BY <1>1 DEF ProducerUpToDate, ConsumerUpToDate
  <1> QED BY <1>2, InitTypes DEF AloneInv

LEMMA ProducerAlone ==
    ASSUME OneOfEach, AloneInv, NEW p \in Producers,
           ProducerStep(p) \/ GiveUp(p) \/ \E m \in Messages : Enqueue(p, m)
    PROVE  ProducerUpToDate' /\ ConsumerUpToDate'
  <1> USE DEF AloneInv
  <1>0. /\ prod \in [Producers -> [at : ProducerSteps, msg : Messages \union {NoMessage},
                                   slot : Places, idx : Places]]
        /\ \A q \in Producers : q = p
        /\ head \in Places /\ tail \in Places
        /\ queue \in [Places -> Places \union {Empty}]
    BY DEF TypeOK, OneOfEach
  <1>1. CASE UNCHANGED <<head, tail, queue, cons>>
    <2>1. ConsumerUpToDate'
      BY <1>1 DEF ConsumerUpToDate
    <2>2. ProducerUpToDate'
      <3>1. /\ prod'[p].at \in {"check full", "place"} => prod'[p].idx = head
            /\ prod'[p].at \in {"place", "reread head", "advance"} => Next1(head) # tail
        <4>1. CASE prod'[p].at \notin {"check full", "place", "reread head", "advance"}
          BY <4>1
        <4>2. CASE ReadHead(p)
          BY <1>0, <4>2 DEF ReadHead
        <4>3. CASE CheckFull(p)
          BY <1>0, <4>3 DEF CheckFull, Step, ProducerUpToDate
        <4>4. CASE RereadHead(p)
          BY <1>0, <4>4 DEF RereadHead, ProducerUpToDate
        <4>5. CASE HeadMoved(p)
          BY <1>0, <4>5 DEF HeadMoved, Step, ProducerUpToDate
        <4>6. CASE PlaceIndex(p)
          BY <1>0, <4>6 DEF PlaceIndex, Step, ProducerUpToDate
        <4>7. ASSUME \/ AllocateSlot(p) \/ SkipSlot(p) \/ Construct(p) \/ PlaceTaken(p)
                     \/ AdvanceHead(p) \/ ReleaseSlot(p) \/ Retry(p) \/ GiveUp(p)
                     \/ \E m \in Messages : Enqueue(p, m)
              PROVE  prod'[p].at \notin {"check full", "place", "reread head", "advance"}
          <5>1. CASE SkipSlot(p)
            BY <1>0, <5>1 DEF SkipSlot
          <5>2. CASE AdvanceHead(p) \/ GiveUp(p)
            <6>1. prod'[p] = IdleProducer
              BY <1>0, <5>2 DEF AdvanceHead, GiveUp
            <6> QED BY <6>1 DEF IdleProducer
          <5>3. CASE ReleaseSlot(p)
            BY <1>0, <5>3 DEF ReleaseSlot, IdleProducer
          <5>4. CASE \E m \in Messages : Enqueue(p, m)
            BY <1>0, <5>4 DEF Enqueue, IdleProducer
          <5>5. CASE AllocateSlot(p)
            BY <1>0, <5>5 DEF AllocateSlot, Step
          <5>6. CASE Construct(p)
            BY <1>0, <5>6 DEF Construct, Step
          <5>7. CASE PlaceTaken(p) \/ Retry(p)
            BY <1>0, <5>7 DEF PlaceTaken, Retry, Step
          <5> QED BY <4>7, <5>1, <5>2, <5>3, <5>4, <5>5, <5>6, <5>7
        <4> QED
          BY <4>1, <4>2, <4>3, <4>4, <4>5, <4>6, <4>7 DEF ProducerStep
      <3> QED
        BY <1>0, <1>1, <3>1 DEF ProducerUpToDate
    <2> QED BY <2>1, <2>2
  <1>2. CASE PlaceIndex(p)
    <2>1. /\ prod[p].idx = head /\ Next1(head) # tail
          /\ queue' = [queue EXCEPT ![head] = prod[p].slot]
          /\ prod' = [prod EXCEPT ![p].at = "reread head"]
          /\ UNCHANGED <<head, tail, cons>>
      BY <1>2 DEF PlaceIndex, Step, ProducerUpToDate
    <2>2. ProducerUpToDate'
      BY <1>0, <2>1 DEF ProducerUpToDate
    <2>3. tail # head => queue'[tail] = queue[tail]
      BY <1>0, <2>1
    <2> QED BY <2>1, <2>2, <2>3 DEF ConsumerUpToDate
  <1>3. CASE AdvanceHead(p)
    <2>1. /\ Next1(head) # tail /\ head' = Next1(head)
          /\ prod' = [prod EXCEPT ![p] = IdleProducer]
          /\ UNCHANGED <<queue, tail, cons>>
      BY <1>3 DEF AdvanceHead, ProducerUpToDate
    <2>2. ProducerUpToDate'
      BY <1>0, <2>1 DEF ProducerUpToDate, IdleProducer
    <2> QED BY <2>1, <2>2 DEF ConsumerUpToDate
  <1> QED
    BY <1>1, <1>2, <1>3
    DEF ProducerStep, AllocateSlot, SkipSlot, Construct, ReadHead, CheckFull, PlaceTaken,
        RereadHead, HeadMoved, ReleaseSlot, Retry, GiveUp, Enqueue, memory, Step

LEMMA ConsumerAlone ==
    ASSUME OneOfEach, AloneInv, NEW c \in Consumers, ConsumerStep(c)
    PROVE  ProducerUpToDate' /\ ConsumerUpToDate'
  <1> USE DEF AloneInv
  <1>0. /\ cons \in [Consumers -> [at : ConsumerSteps, idx : Places,
                                   val : Places \union {Empty}]]
        /\ \A d \in Consumers : d = c
        /\ head \in Places /\ tail \in Places
        /\ queue \in [Places -> Places \union {Empty}]
    BY DEF TypeOK, OneOfEach
  <1>1. CASE UNCHANGED <<head, tail, queue, prod>>
    <2>1. ProducerUpToDate'
      BY <1>1 DEF ProducerUpToDate
    <2>2. CASE ReadTail(c)
      BY <1>0, <1>1, <2>1, <2>2 DEF ReadTail, ConsumerUpToDate
    <2>3. CASE CheckEmpty(c)
      BY <1>0, <1>1, <2>1, <2>3 DEF CheckEmpty, IdleConsumer, ConsumerUpToDate
    <2>4. CASE ReadPlace(c)
      BY <1>0, <1>1, <2>1, <2>4 DEF ReadPlace, ConsumerUpToDate
    <2>5. CASE Claim(c)
      BY <1>0, <1>1, <2>1, <2>5 DEF Claim, ConsumerUpToDate
    <2>6. CASE ClaimLost(c) \/ ClearPlace(c) \/ TakeMessage(c) \/ FreeSlot(c)
      <3>1. cons'[c].at \in {"read tail", "take", "free"}
        <4>1. CASE ClaimLost(c) \/ FreeSlot(c)
          <5>1. cons'[c] = IdleConsumer
            BY <1>0, <4>1 DEF ClaimLost, FreeSlot
          <5>2. IdleConsumer.at = "read tail"
            BY DEF IdleConsumer
          <5> QED BY <5>1, <5>2
        <4>2. CASE ClearPlace(c)
          BY <1>0, <4>2 DEF ClearPlace
        <4>3. CASE TakeMessage(c)
          BY <1>0, <4>3 DEF TakeMessage
        <4> QED BY <2>6, <4>1, <4>2, <4>3
      <3> QED BY <1>0, <2>1, <3>1 DEF ConsumerUpToDate
    <2> QED BY <2>2, <2>3, <2>4, <2>5, <2>6 DEF ConsumerStep
  <1>2. CASE Claim(c)
    <2>1. /\ tail # head /\ tail' = Next1(tail)
          /\ cons' = [cons EXCEPT ![c].at = "clear"]
          /\ UNCHANGED <<head, queue, prod>>
      BY <1>2 DEF Claim, ConsumerUpToDate
    <2>2. Next1(head) # Next1(tail)
      BY <1>0, <2>1, Next1Injective
    <2>3. ProducerUpToDate'
      BY <2>1, <2>2 DEF ProducerUpToDate
    <2> QED BY <1>0, <2>1, <2>3 DEF ConsumerUpToDate
  <1>3. CASE ClearPlace(c)
    <2>1. cons'[c].at = "take" /\ UNCHANGED <<head, tail, prod>>
      BY <1>0, <1>3 DEF ClearPlace
    <2> QED BY <1>0, <2>1 DEF ConsumerUpToDate, ProducerUpToDate
  <1> QED
    BY <1>1, <1>2, <1>3
    DEF ConsumerStep, ReadTail, CheckEmpty, ReadPlace, ClaimLost, TakeMessage, FreeSlot, memory

LEMMA NextAlone == OneOfEach /\ AloneInv /\ [Next]_vars => AloneInv'
  <1>1. ASSUME AloneInv, UNCHANGED vars PROVE AloneInv'
    BY <1>1 DEF AloneInv, TypeOK, ProducerUpToDate, ConsumerUpToDate, vars
  <1>2. AloneInv /\ [Next]_vars => TypeOK'
    BY NextTypes DEF AloneInv
  <1>3. ASSUME OneOfEach, AloneInv, Next PROVE AloneInv'
    BY <1>2, <1>3, ProducerAlone, ConsumerAlone DEF Next, AloneInv
  <1> QED BY <1>1, <1>3

LEMMA StepPunctual == OneOfEach /\ AloneInv /\ [Next]_vars => [PunctualNext]_vars
  <1> SUFFICES ASSUME AloneInv, Next PROVE PunctualNext
    BY DEF PunctualNext
  <1>1. ASSUME NEW p \in Producers, PlaceIndex(p) PROVE InOrderPlace(p)
    BY <1>1 DEF PlaceIndex, Step, InOrderPlace, AloneInv, ProducerUpToDate
  <1>2. ASSUME NEW c \in Consumers, Claim(c) PROVE FreshClaim(c)
    BY <1>2 DEF Claim, FreshClaim, AloneInv, ConsumerUpToDate
  <1> QED BY <1>1, <1>2 DEF PunctualNext, Punctual

\* Between one thread that enqueues and one that dequeues, a message goes into
\* the place after the newest one, and the oldest one is taken with the index
\* that is in its place.
THEOREM OneOfEachIsPunctual == OneOfEach => (Spec => AlwaysPunctual)
  <1> SUFFICES ASSUME OneOfEach PROVE Spec => AlwaysPunctual
    OBVIOUS
  <1>1. AloneInv /\ [Next]_vars => AloneInv'
    BY NextAlone
  <1>2. AloneInv /\ [Next]_vars => [PunctualNext]_vars
    BY StepPunctual
  <1> QED
    BY <1>1, <1>2, InitAlone, PTL DEF Spec, AlwaysPunctual
-----------------------------------------------------------------------------
(* Slots and their owners *)

\* The places from m_Tail up to m_Head, around the end of the ring.
Pending(i) == IF tail <= head THEN tail <= i /\ i < head ELSE tail <= i \/ i < head

\* A producer has filled the place at m_Head and is about to move m_Head.
Placed(p) == prod[p].at \in {"reread head", "advance"}

\* A consumer has claimed place i and has yet to clear it.
ClearingAt(c, i) == cons[c].at = "clear" /\ cons[c].idx = i

\* The slot in place i belongs to nobody but the place.
Published(i) == queue[i] # Empty /\ ~ \E c \in Consumers : ClearingAt(c, i)

\* The ring holds indices from m_Tail to m_Head, one more at m_Head while a
\* producer is about to move it, and those that were claimed and not cleared.
RingInv ==
    /\ \A i \in Places : Pending(i) => queue[i] # Empty
    /\ \A p \in Producers : Placed(p) => queue[head] = prod[p].slot /\ Next1(head) # tail
    /\ \A p, q \in Producers : Placed(p) /\ Placed(q) => p = q
    /\ \A c \in Consumers, i \in Places : ClearingAt(c, i) =>
          /\ queue[i] = cons[c].val
          /\ ~Pending(i)
          /\ \A p \in Producers : Placed(p) => i # head
    /\ \A c, d \in Consumers, i \in Places : ClearingAt(c, i) /\ ClearingAt(d, i) => c = d
    /\ \A i \in Places : Published(i) =>
          Pending(i) \/ (i = head /\ \E p \in Producers : Placed(p))
    /\ \A c \in Consumers : Taking(c) => cons[c].val # Empty
    /\ ~broken

\* Two owners never own one slot, and a slot that is owned has its flag set.
Apart ==
    /\ \A p, q \in Producers : Holding(p) /\ Holding(q) /\ prod[p].slot = prod[q].slot => p = q
    /\ \A p \in Producers, i \in Places : Holding(p) /\ Published(i) => queue[i] # prod[p].slot
    /\ \A p \in Producers, c \in Consumers : Holding(p) /\ Taking(c) => cons[c].val # prod[p].slot
    /\ \A i, j \in Places : Published(i) /\ Published(j) /\ queue[i] = queue[j] => i = j
    /\ \A i \in Places, c \in Consumers : Published(i) /\ Taking(c) => cons[c].val # queue[i]
    /\ \A c, d \in Consumers :
          Taking(c) /\ Taking(d) /\ cons[c].val = cons[d].val /\ cons[c].val # Empty => c = d
    /\ \A p \in Producers : Holding(p) => hasData[prod[p].slot]
    /\ \A i \in Places : Published(i) => hasData[queue[i]]
    /\ \A c \in Consumers : Taking(c) /\ cons[c].val # Empty => hasData[cons[c].val]

\* A slot whose flag is set has an owner: none is lost.
Kept ==
    \A s \in Places : hasData[s] =>
        \/ \E p \in Producers : Holding(p) /\ prod[p].slot = s
        \/ \E i \in Places : Published(i) /\ queue[i] = s
        \/ \E c \in Consumers : Taking(c) /\ cons[c].val = s

\* The message is where its owner looks for it.
MessagesInPlace ==
    /\ \A p \in Producers : (prod[p].msg = NoMessage) <=> (prod[p].at = "idle")
    /\ \A p \in Producers :
          prod[p].at \in {"read head", "check full", "place", "reread head", "advance"} =>
             storage[prod[p].slot] = prod[p].msg
    /\ \A i \in Places : Published(i) => storage[queue[i]] \in Messages
    /\ \A c \in Consumers : Taking(c) => storage[cons[c].val] \in Messages

QueueInv == TypeOK /\ RingInv /\ Apart /\ Kept /\ MessagesInPlace

LEMMA Next1IsCircular ==
    \A i \in Places : Next1(i) = IF i = Length - 1 THEN 0 ELSE i + 1
  BY QueueAssumption DEF Places, Next1

LEMMA RecordTypes ==
    ASSUME TypeOK
    PROVE  /\ \A p \in Producers :
                 /\ prod[p].at \in ProducerSteps /\ prod[p].slot \in Places
                 /\ prod[p].idx \in Places /\ prod[p].msg \in Messages \union {NoMessage}
           /\ \A c \in Consumers :
                 /\ cons[c].at \in ConsumerSteps /\ cons[c].idx \in Places
                 /\ cons[c].val \in Places \union {Empty}
           /\ head \in Places /\ tail \in Places
           /\ \A i \in Places : queue[i] \in Places \union {Empty}
  BY DEF TypeOK

LEMMA NoPlaceIsEmpty == Empty \notin Places
  BY DEF Empty, Places

LEMMA InitQueue == Init => QueueInv
  <1> SUFFICES ASSUME Init PROVE QueueInv
    OBVIOUS
  <1>1. /\ \A p \in Producers : prod[p] = IdleProducer
        /\ \A c \in Consumers : cons[c] = IdleConsumer
        /\ \A i \in Places : queue[i] = Empty /\ ~hasData[i]
        /\ tail = 0 /\ head = 0 /\ ~broken
    BY DEF Init
  <1>2. /\ \A p \in Producers : ~Placed(p) /\ ~Holding(p) /\ prod[p].at = "idle" /\ prod[p].msg = NoMessage
        /\ \A c \in Consumers : ~Taking(c)
        /\ \A i \in Places : ~Published(i) /\ ~Pending(i)
    <2>1. \A p \in Producers : ~Placed(p) /\ ~Holding(p) /\ prod[p].at = "idle" /\ prod[p].msg = NoMessage
      <3>1. IdleProducer.at = "idle" /\ IdleProducer.msg = NoMessage
        BY DEF IdleProducer
      <3> QED BY <1>1, <3>1 DEF Placed, Holding
    <2>2. \A c \in Consumers : ~Taking(c)
      <3>1. IdleConsumer.at = "read tail"
        BY DEF IdleConsumer
      <3> QED BY <1>1, <3>1 DEF Taking
    <2>3. \A i \in Places : ~Published(i) /\ ~Pending(i)
      BY <1>1 DEF Published, Pending, Places
    <2> QED BY <2>1, <2>2, <2>3
  <1>3. RingInv
    BY <1>1, <1>2 DEF RingInv, ClearingAt, Taking
  <1>4. Apart /\ Kept
    BY <1>1, <1>2 DEF Apart, Kept
  <1>5. MessagesInPlace
    BY <1>2 DEF MessagesInPlace
  <1> QED BY <1>3, <1>4, <1>5, InitTypes DEF QueueInv

\* A step of a producer that only looks at the ring.
LEMMA LookingProducer ==
    ASSUME UNCHANGED <<memory, cons, broken>>, TypeOK,
           \A q \in Producers :
              /\ Holding(q)' <=> Holding(q)
              /\ Placed(q)' <=> Placed(q)
              /\ Holding(q) \/ Placed(q) => prod'[q].slot = prod[q].slot
    PROVE  /\ RingInv => RingInv'
           /\ Apart => Apart'
           /\ Kept => Kept'
  <1>1. /\ \A c \in Consumers : Taking(c)' <=> Taking(c)
        /\ \A c \in Consumers, i \in Places : ClearingAt(c, i)' <=> ClearingAt(c, i)
        /\ \A i \in Places : (Published(i)' <=> Published(i)) /\ (Pending(i)' <=> Pending(i))
        /\ UNCHANGED <<tail, head, queue, hasData, cons, broken>>
    BY DEF Taking, ClearingAt, Published, Pending, memory
  <1>2. head \in Places
    BY DEF TypeOK
  <1>3. RingInv => RingInv'
    BY <1>1, <1>2 DEF RingInv
  <1>4. Apart => Apart'
    BY <1>1 DEF Apart
  <1>5. Kept => Kept'
    BY <1>1 DEF Kept
  <1> QED BY <1>3, <1>4, <1>5

\* A step of a consumer that only looks at the ring.
LEMMA LookingConsumer ==
    ASSUME UNCHANGED <<memory, prod, broken>>, TypeOK,
           \A d \in Consumers :
              /\ Taking(d)' <=> Taking(d)
              /\ (cons'[d].at = "clear") <=> (cons[d].at = "clear")
              /\ Taking(d) => cons'[d].val = cons[d].val /\ cons'[d].idx = cons[d].idx
    PROVE  /\ RingInv => RingInv'
           /\ Apart => Apart'
           /\ Kept => Kept'
           /\ MessagesInPlace => MessagesInPlace'
  <1>1. /\ \A p \in Producers : (Holding(p)' <=> Holding(p)) /\ (Placed(p)' <=> Placed(p))
        /\ \A c \in Consumers, i \in Places : ClearingAt(c, i)' <=> ClearingAt(c, i)
        /\ UNCHANGED <<tail, head, queue, hasData, storage, prod, broken>>
    BY DEF Holding, Placed, ClearingAt, memory, Taking
  <1>2. \A i \in Places : (Published(i)' <=> Published(i)) /\ (Pending(i)' <=> Pending(i))
    BY <1>1 DEF Published, Pending
  <1>3. RingInv => RingInv'
    BY <1>1, <1>2 DEF RingInv, ClearingAt, Taking
  <1>4. Apart => Apart'
    BY <1>1, <1>2 DEF Apart
  <1>5. Kept => Kept'
    BY <1>1, <1>2 DEF Kept
  <1>6. MessagesInPlace => MessagesInPlace'
    BY <1>1, <1>2 DEF MessagesInPlace
  <1> QED BY <1>3, <1>4, <1>5, <1>6

LEMMA QuietProducer ==
    ASSUME QueueInv, NEW p \in Producers,
           \/ \E m \in Messages : Enqueue(p, m)
           \/ SkipSlot(p) \/ ReadHead(p) \/ CheckFull(p) \/ PlaceTaken(p)
           \/ RereadHead(p) \/ HeadMoved(p) \/ Retry(p) \/ GiveUp(p)
    PROVE  RingInv' /\ Apart' /\ Kept' /\ MessagesInPlace'
  <1> DEFINE reading == {"read head", "check full", "place", "reread head", "advance"}
  <1>1. /\ prod \in [Producers -> [at : ProducerSteps, msg : Messages \union {NoMessage},
                                   slot : Places, idx : Places]]
        /\ \A q \in Producers : q # p => prod'[q] = prod[q]
        /\ UNCHANGED <<memory, cons, broken>>
    BY DEF QueueInv, TypeOK, Enqueue, SkipSlot, ReadHead, CheckFull, PlaceTaken, RereadHead,
           HeadMoved, Retry, GiveUp, Step
  <1>2. /\ Holding(p)' <=> Holding(p)
        /\ Placed(p)' <=> Placed(p)
        /\ Holding(p) \/ Placed(p) => prod'[p].slot = prod[p].slot
        /\ (prod'[p].msg = NoMessage) <=> (prod'[p].at = "idle")
        /\ prod'[p].at \in reading =>
              prod[p].at \in reading /\ prod'[p].slot = prod[p].slot /\ prod'[p].msg = prod[p].msg
    <2> USE <1>1 DEF Holding, Placed
    <2>0. (prod[p].msg = NoMessage) <=> (prod[p].at = "idle")
      BY DEF QueueInv, MessagesInPlace
    <2>1. ASSUME NEW m \in Messages, Enqueue(p, m) PROVE <1>2!1 /\ <1>2!2 /\ <1>2!3 /\ <1>2!4 /\ <1>2!5
      BY <2>1, QueueAssumption DEF Enqueue, IdleProducer
    <2>2. CASE SkipSlot(p)
      BY <2>0, <2>2 DEF SkipSlot
    <2>3. CASE ReadHead(p)
      BY <2>0, <2>3 DEF ReadHead
    <2>4. CASE CheckFull(p)
      BY <2>0, <2>4 DEF CheckFull, Step
    <2>5. CASE PlaceTaken(p)
      BY <2>0, <2>5 DEF PlaceTaken, Step
    <2>6. CASE RereadHead(p)
      BY <2>0, <2>6 DEF RereadHead
    <2>7. CASE HeadMoved(p)
      BY <2>0, <2>7 DEF HeadMoved, Step
    <2>8. CASE Retry(p)
      BY <2>0, <2>8 DEF Retry, Step
    <2>9. CASE GiveUp(p)
      BY <2>0, <2>9 DEF GiveUp, IdleProducer
    <2> QED BY <2>1, <2>2, <2>3, <2>4, <2>5, <2>6, <2>7, <2>8, <2>9
  <1>3. RingInv' /\ Apart' /\ Kept'
    BY <1>1, <1>2, LookingProducer DEF QueueInv, Holding, Placed
  <1>4. MessagesInPlace'
    <2>1. /\ \A c \in Consumers : Taking(c)' <=> Taking(c)
          /\ \A i \in Places : Published(i)' <=> Published(i)
          /\ UNCHANGED <<queue, storage, cons>>
      BY <1>1 DEF Taking, ClearingAt, Published, memory
    <2> QED BY <1>1, <1>2, <2>1 DEF QueueInv, MessagesInPlace
  <1> QED BY <1>3, <1>4

LEMMA AllocateKeeps ==
    ASSUME QueueInv, NEW p \in Producers, AllocateSlot(p)
    PROVE  RingInv' /\ Apart' /\ Kept' /\ MessagesInPlace'
  <1> DEFINE s == prod[p].slot
  <1>1. /\ prod[p].at = "allocate" /\ prod' = [prod EXCEPT ![p].at = "construct"]
        /\ ~hasData[s] /\ hasData' = [hasData EXCEPT ![s] = TRUE]
        /\ storage' = [storage EXCEPT ![s] = NoMessage]
        /\ UNCHANGED <<tail, head, queue, cons, broken>>
    BY DEF AllocateSlot, Step, Allocatable
  <1>2. /\ TypeOK /\ RingInv /\ Apart /\ Kept /\ MessagesInPlace
        /\ prod \in [Producers -> [at : ProducerSteps, msg : Messages \union {NoMessage},
                                   slot : Places, idx : Places]]
        /\ hasData \in [Places -> BOOLEAN] /\ storage \in [Places -> Messages \union {NoMessage}]
        /\ s \in Places /\ head \in Places
    BY DEF QueueInv, TypeOK
  <1>3. /\ prod'[p].at = "construct" /\ prod'[p].slot = s /\ prod'[p].msg = prod[p].msg
        /\ \A q \in Producers : q # p => prod'[q] = prod[q]
        /\ \A t \in Places : hasData'[t] = (hasData[t] \/ t = s)
        /\ \A t \in Places : t # s => storage'[t] = storage[t]
    BY <1>1, <1>2
  <1>4. /\ \A q \in Producers : Placed(q)' <=> Placed(q)
        /\ \A q \in Producers : Holding(q)' <=> Holding(q) \/ q = p
        /\ ~Placed(p) /\ ~Holding(p)
        /\ \A q \in Producers : prod'[q].slot = prod[q].slot /\ prod'[q].msg = prod[q].msg
        /\ \A c \in Consumers : Taking(c)' <=> Taking(c)
        /\ \A c \in Consumers, i \in Places : ClearingAt(c, i)' <=> ClearingAt(c, i)
        /\ \A i \in Places : (Published(i)' <=> Published(i)) /\ (Pending(i)' <=> Pending(i))
    BY <1>1, <1>3 DEF Holding, Placed, Taking, ClearingAt, Published, Pending
  <1>5. RingInv'
    BY <1>1, <1>2, <1>4 DEF RingInv
  <1>6. /\ \A q \in Producers : Holding(q) => prod[q].slot # s
        /\ \A i \in Places : Published(i) => queue[i] # s
        /\ \A c \in Consumers : Taking(c) => cons[c].val # s
    BY <1>1, <1>2, NoPlaceIsEmpty DEF Apart
  <1>7. /\ \A i \in Places : Published(i) => queue[i] \in Places
        /\ \A c \in Consumers : Taking(c) => cons[c].val \in Places
        /\ \A q \in Producers : prod[q].slot \in Places
    BY <1>2, RecordTypes DEF Published, RingInv
  <1>8. Apart'
    BY <1>1, <1>2, <1>3, <1>4, <1>6, <1>7 DEF Apart
  <1>9. Kept'
    BY <1>1, <1>2, <1>3, <1>4 DEF Kept
  <1>10. MessagesInPlace'
    <2>1. ASSUME NEW q \in Producers,
                 prod'[q].at \in {"read head", "check full", "place", "reread head", "advance"}
          PROVE  storage'[prod'[q].slot] = prod'[q].msg
      <3>1. q # p /\ prod'[q] = prod[q] /\ storage[prod[q].slot] = prod[q].msg
        BY <1>2, <1>3, <2>1 DEF MessagesInPlace
      <3>2. prod[q].slot # s
        <4>1. CASE Holding(q)
          BY <4>1, <1>6
        <4>2. CASE Placed(q)
          <5>1. queue[head] = prod[q].slot /\ Published(head)
            BY <1>2, <1>7, <4>2, NoPlaceIsEmpty DEF RingInv, Published
          <5> QED BY <5>1, <1>2, <1>6
        <4> QED BY <2>1, <3>1, <4>1, <4>2 DEF Holding, Placed
      <3> QED BY <1>3, <1>7, <3>1, <3>2
    <2>2. \A i \in Places : Published(i)' => storage'[queue'[i]] \in Messages
      BY <1>1, <1>2, <1>3, <1>4, <1>6, <1>7 DEF MessagesInPlace
    <2>3. \A c \in Consumers : Taking(c)' => storage'[cons'[c].val] \in Messages
      BY <1>1, <1>2, <1>3, <1>4, <1>6, <1>7 DEF MessagesInPlace
    <2>4. \A q \in Producers : (prod'[q].msg = NoMessage) <=> (prod'[q].at = "idle")
      BY <1>1, <1>2, <1>3 DEF MessagesInPlace
    <2> QED BY <2>1, <2>2, <2>3, <2>4 DEF MessagesInPlace
  <1> QED BY <1>5, <1>8, <1>9, <1>10

LEMMA ConstructKeeps ==
    ASSUME QueueInv, NEW p \in Producers, Construct(p)
    PROVE  RingInv' /\ Apart' /\ Kept' /\ MessagesInPlace'
  <1> DEFINE s == prod[p].slot
  <1>1. /\ prod[p].at = "construct" /\ prod' = [prod EXCEPT ![p].at = "read head"]
        /\ storage' = [storage EXCEPT ![s] = prod[p].msg]
        /\ UNCHANGED <<tail, head, queue, hasData, cons, broken>>
    BY DEF Construct, Step
  <1>2. /\ TypeOK /\ RingInv /\ Apart /\ Kept /\ MessagesInPlace
        /\ prod \in [Producers -> [at : ProducerSteps, msg : Messages \union {NoMessage},
                                   slot : Places, idx : Places]]
        /\ storage \in [Places -> Messages \union {NoMessage}]
        /\ hasData \in [Places -> BOOLEAN]
        /\ s \in Places /\ head \in Places
    BY DEF QueueInv, TypeOK
  <1>3. /\ prod'[p].at = "read head" /\ prod'[p].slot = s /\ prod'[p].msg = prod[p].msg
        /\ \A q \in Producers : q # p => prod'[q] = prod[q]
        /\ storage'[s] = prod[p].msg
        /\ \A t \in Places : t # s => storage'[t] = storage[t]
    BY <1>1, <1>2
  <1>4. /\ \A q \in Producers : Placed(q)' <=> Placed(q)
        /\ \A q \in Producers : Holding(q)' <=> Holding(q)
        /\ ~Placed(p) /\ Holding(p)
        /\ \A q \in Producers : prod'[q].slot = prod[q].slot /\ prod'[q].msg = prod[q].msg
        /\ \A c \in Consumers : Taking(c)' <=> Taking(c)
        /\ \A c \in Consumers, i \in Places : ClearingAt(c, i)' <=> ClearingAt(c, i)
        /\ \A i \in Places : (Published(i)' <=> Published(i)) /\ (Pending(i)' <=> Pending(i))
    BY <1>1, <1>3 DEF Holding, Placed, Taking, ClearingAt, Published, Pending
  <1>5. RingInv'
    BY <1>1, <1>2, <1>4 DEF RingInv
  <1>6. /\ \A q \in Producers : Holding(q) /\ q # p => prod[q].slot # s
        /\ \A i \in Places : Published(i) => queue[i] # s
        /\ \A c \in Consumers : Taking(c) => cons[c].val # s
    BY <1>1, <1>2, <1>4 DEF Apart
  <1>7. /\ \A i \in Places : Published(i) => queue[i] \in Places
        /\ \A c \in Consumers : Taking(c) => cons[c].val \in Places
        /\ \A q \in Producers : prod[q].slot \in Places
    BY <1>2, RecordTypes DEF Published, RingInv
  <1>8. Apart'
    <2>1. Apart /\ UNCHANGED <<queue, hasData, cons>>
      BY <1>1, <1>2
    <2> QED BY <2>1, <1>4 DEF Apart
  <1>9. Kept'
    BY <1>1, <1>2, <1>4 DEF Kept
  <1>10. MessagesInPlace'
    <2>1. ASSUME NEW q \in Producers, q # p,
                 prod'[q].at \in {"read head", "check full", "place", "reread head", "advance"}
          PROVE  storage'[prod'[q].slot] = prod'[q].msg
      <3>1. prod'[q] = prod[q] /\ storage[prod[q].slot] = prod[q].msg
        BY <1>2, <1>3, <2>1 DEF MessagesInPlace
      <3>2. prod[q].slot # s
        <4>1. CASE Holding(q)
          BY <2>1, <4>1, <1>6
        <4>2. CASE Placed(q)
          <5>1. queue[head] = prod[q].slot /\ Published(head)
            BY <1>2, <1>7, <4>2, NoPlaceIsEmpty DEF RingInv, Published
          <5> QED BY <5>1, <1>2, <1>6
        <4> QED BY <2>1, <3>1, <4>1, <4>2 DEF Holding, Placed
      <3> QED BY <1>3, <1>7, <3>1, <3>2
    <2>2. \A i \in Places : Published(i)' => storage'[queue'[i]] \in Messages
      BY <1>1, <1>2, <1>3, <1>4, <1>6, <1>7 DEF MessagesInPlace
    <2>3. \A c \in Consumers : Taking(c)' => storage'[cons'[c].val] \in Messages
      BY <1>1, <1>2, <1>3, <1>4, <1>6, <1>7 DEF MessagesInPlace
    <2>4. \A q \in Producers : (prod'[q].msg = NoMessage) <=> (prod'[q].at = "idle")
      BY <1>1, <1>2, <1>3 DEF MessagesInPlace
    <2> QED BY <1>3, <2>1, <2>2, <2>3, <2>4 DEF MessagesInPlace
  <1> QED BY <1>5, <1>8, <1>9, <1>10

LEMMA PlaceKeeps ==
    ASSUME QueueInv, NEW p \in Producers, PlaceIndex(p), InOrderPlace(p)
    PROVE  RingInv' /\ Apart' /\ Kept' /\ MessagesInPlace'
  <1> DEFINE s == prod[p].slot
  <1>1. /\ prod[p].at = "place" /\ prod' = [prod EXCEPT ![p].at = "reread head"]
        /\ queue[head] = Empty /\ queue' = [queue EXCEPT ![head] = s]
        /\ Next1(head) # tail
        /\ UNCHANGED <<tail, head, hasData, storage, cons, broken>>
    BY DEF PlaceIndex, Step, InOrderPlace
  <1>2. /\ TypeOK /\ RingInv /\ Apart /\ Kept /\ MessagesInPlace
        /\ prod \in [Producers -> [at : ProducerSteps, msg : Messages \union {NoMessage},
                                   slot : Places, idx : Places]]
        /\ queue \in [Places -> Places \union {Empty}]
        /\ s \in Places /\ head \in Places /\ s # Empty
    BY NoPlaceIsEmpty DEF QueueInv, TypeOK
  <1>3. /\ prod'[p].at = "reread head" /\ prod'[p].slot = s /\ prod'[p].msg = prod[p].msg
        /\ \A q \in Producers : q # p => prod'[q] = prod[q]
        /\ queue'[head] = s
        /\ \A i \in Places : i # head => queue'[i] = queue[i]
    BY <1>1, <1>2
  <1>4. /\ \A q \in Producers : ~Placed(q)
        /\ \A q \in Producers : Placed(q)' <=> q = p
        /\ Holding(p)
        /\ \A q \in Producers : Holding(q)' <=> Holding(q) /\ q # p
        /\ \A q \in Producers : prod'[q].slot = prod[q].slot
        /\ \A c \in Consumers : Taking(c)' <=> Taking(c)
        /\ \A c \in Consumers, i \in Places : ClearingAt(c, i)' <=> ClearingAt(c, i)
        /\ \A i \in Places : Pending(i)' <=> Pending(i)
    <2>1. \A q \in Producers : ~Placed(q)
      BY <1>1, <1>2, RecordTypes, NoPlaceIsEmpty DEF RingInv
    <2> QED
      BY <1>1, <1>3, <2>1 DEF Holding, Placed, Taking, ClearingAt, Pending
  <1>5. /\ \A c \in Consumers : ~ClearingAt(c, head)
        /\ ~Published(head) /\ Published(head)'
        /\ \A i \in Places : i # head => (Published(i)' <=> Published(i))
    <2>1. ASSUME NEW c \in Consumers, ClearingAt(c, head) PROVE FALSE
      <3>1. queue[head] = cons[c].val /\ Taking(c)
        BY <1>2, <2>1 DEF RingInv, ClearingAt, Taking
      <3> QED BY <1>1, <1>2, <3>1 DEF RingInv
    <2> QED BY <1>1, <1>2, <1>3, <1>4, <2>1 DEF Published
  <1>6. RingInv'
    <2>1. \A i \in Places : Pending(i)' => queue'[i] # Empty
      BY <1>2, <1>3, <1>4 DEF RingInv
    <2>2. ASSUME NEW c \in Consumers, NEW i \in Places, ClearingAt(c, i)'
          PROVE  i # head /\ queue'[i] = cons[c].val /\ ~Pending(i)
      <3>1. ClearingAt(c, i) /\ i # head
        BY <1>4, <1>5, <2>2
      <3>2. queue[i] = cons[c].val /\ ~Pending(i)
        BY <1>2, <3>1 DEF RingInv
      <3> QED BY <1>3, <3>1, <3>2
    <2>3. \A i \in Places : Published(i)' => i = head \/ Pending(i)
      BY <1>2, <1>4, <1>5 DEF RingInv
    <2>4. \A q \in Producers : Placed(q)' =>
             queue'[head'] = prod'[q].slot /\ Next1(head') # tail'
      BY <1>1, <1>3, <1>4
    <2>5. \A q, r \in Producers : Placed(q)' /\ Placed(r)' => q = r
      BY <1>4
    <2>6. \A c, d \in Consumers, i \in Places : ClearingAt(c, i)' /\ ClearingAt(d, i)' => c = d
      BY <1>2, <1>4 DEF RingInv
    <2>7. \A i \in Places : Published(i)' =>
             Pending(i)' \/ (i = head' /\ \E q \in Producers : Placed(q)')
      BY <1>1, <1>4, <2>3
    <2>8. /\ \A c \in Consumers : Taking(c)' => cons'[c].val # Empty
          /\ ~broken'
      BY <1>1, <1>2, <1>4 DEF RingInv
    <2>9. \A c \in Consumers, i \in Places : ClearingAt(c, i)' =>
          /\ queue'[i] = cons'[c].val
          /\ ~Pending(i)'
          /\ \A q \in Producers : Placed(q)' => i # head'
      BY <1>1, <1>4, <2>2
    <2> QED BY <2>1, <2>4, <2>5, <2>6, <2>7, <2>8, <2>9 DEF RingInv
  <1>7. /\ \A q \in Producers : Holding(q) /\ q # p => prod[q].slot # s
        /\ \A i \in Places : Published(i) => queue[i] # s
        /\ \A c \in Consumers : Taking(c) => cons[c].val # s
        /\ hasData[s]
    BY <1>2, <1>4 DEF Apart
  <1>8. Apart'
    <2>1. Apart /\ UNCHANGED <<hasData, cons>>
      BY <1>1, <1>2
    <2>2. \A i \in Places : Published(i)' => (i = head /\ queue'[i] = s) \/ (Published(i) /\ queue'[i] = queue[i])
      BY <1>3, <1>5
    <2>3. \A q \in Producers : Holding(q)' => Holding(q) /\ prod'[q].slot = prod[q].slot /\ prod[q].slot # s
      BY <1>4, <1>7
    <2> QED BY <2>1, <2>2, <2>3, <1>4, <1>7 DEF Apart
  <1>9. Kept'
    <2> SUFFICES ASSUME NEW t \in Places, hasData[t]
                 PROVE  \/ \E q \in Producers : Holding(q)' /\ prod'[q].slot = t
                        \/ \E i \in Places : Published(i)' /\ queue'[i] = t
                        \/ \E c \in Consumers : Taking(c)' /\ cons'[c].val = t
      BY <1>1 DEF Kept
    <2>1. CASE \E q \in Producers : Holding(q) /\ prod[q].slot = t
      <3>1. PICK q \in Producers : Holding(q) /\ prod[q].slot = t
        BY <2>1
      <3>2. CASE q = p
        <4>1. head \in Places /\ head' = head /\ Published(head)' /\ queue'[head'] = t
          BY <1>1, <1>2, <1>3, <1>5, <3>1, <3>2
        <4> QED BY <4>1
      <3>3. CASE q # p
        <4>1. Holding(q)' /\ prod'[q].slot = t
          BY <1>4, <3>1, <3>3
        <4> QED BY <4>1
      <3> QED BY <3>2, <3>3
    <2>2. ASSUME NEW i \in Places, Published(i), queue[i] = t
          PROVE  Published(i)' /\ queue'[i] = t
      BY <1>3, <1>5, <2>2
    <2>3. ASSUME NEW c \in Consumers, Taking(c), cons[c].val = t
          PROVE  Taking(c)' /\ cons'[c].val = t
      BY <1>1, <1>4, <2>3
    <2> QED BY <1>2, <2>1, <2>2, <2>3 DEF Kept
  <1>10. MessagesInPlace'
    <2>1. storage[s] = prod[p].msg /\ prod[p].msg \in Messages
      BY <1>1, <1>2 DEF MessagesInPlace
    <2> QED BY <1>1, <1>2, <1>3, <1>4, <1>5, <2>1 DEF MessagesInPlace
  <1> QED BY <1>6, <1>8, <1>9, <1>10

LEMMA AdvanceKeeps ==
    ASSUME QueueInv, NEW p \in Producers, AdvanceHead(p)
    PROVE  RingInv' /\ Apart' /\ Kept' /\ MessagesInPlace'
  <1>1. /\ prod[p].at = "advance" /\ prod' = [prod EXCEPT ![p] = IdleProducer]
        /\ head' = Next1(head)
        /\ UNCHANGED <<tail, queue, hasData, storage, cons, broken>>
    BY DEF AdvanceHead
  <1>2. /\ TypeOK /\ RingInv /\ Apart /\ Kept /\ MessagesInPlace
        /\ prod \in [Producers -> [at : ProducerSteps, msg : Messages \union {NoMessage},
                                   slot : Places, idx : Places]]
        /\ head \in Places /\ tail \in Places
    BY DEF QueueInv, TypeOK
  <1>3. /\ prod'[p].at = "idle" /\ prod'[p].msg = NoMessage
        /\ \A q \in Producers : q # p => prod'[q] = prod[q]
    BY <1>1, <1>2 DEF IdleProducer
  <1>4. /\ Placed(p) /\ queue[head] = prod[p].slot /\ queue[head] # Empty /\ Next1(head) # tail
        /\ \A q \in Producers : ~Placed(q)'
        /\ ~Holding(p)
        /\ \A q \in Producers : Holding(q)' <=> Holding(q)
        /\ \A q \in Producers : Holding(q) => prod'[q].slot = prod[q].slot
        /\ \A c \in Consumers : Taking(c)' <=> Taking(c)
        /\ \A c \in Consumers, i \in Places : ClearingAt(c, i)' <=> ClearingAt(c, i)
        /\ \A i \in Places : Published(i)' <=> Published(i)
    <2>1. Placed(p) /\ ~Holding(p)
      BY <1>1 DEF Placed, Holding
    <2>2. queue[head] = prod[p].slot /\ queue[head] # Empty /\ Next1(head) # tail
      BY <1>2, <2>1, RecordTypes, NoPlaceIsEmpty DEF RingInv
    <2>3. \A q \in Producers : ~Placed(q)'
      BY <1>2, <1>3, <2>1 DEF RingInv, Placed
    <2>4. \A q \in Producers : Holding(q)' <=> Holding(q)
      BY <1>3, <2>1 DEF Holding
    <2> QED
      BY <1>1, <1>3, <2>1, <2>2, <2>3, <2>4 DEF Taking, ClearingAt, Published
  <1>5. \A i \in Places : Pending(i)' <=> Pending(i) \/ i = head
    BY <1>1, <1>2, <1>4, Next1IsCircular, QueueAssumption DEF Pending, Places
  <1>6. RingInv'
    <2>1. \A c \in Consumers, i \in Places : ClearingAt(c, i)' =>
            queue[i] = cons[c].val /\ ~Pending(i)'
      BY <1>2, <1>4, <1>5 DEF RingInv
    <2>2. \A i \in Places : Pending(i)' => queue[i] # Empty
      BY <1>2, <1>4, <1>5 DEF RingInv
    <2>3. \A i \in Places : Published(i)' => Pending(i)'
      BY <1>2, <1>4, <1>5 DEF RingInv
    <2> QED BY <1>1, <1>2, <1>4, <2>1, <2>2, <2>3 DEF RingInv
  <1>7. Apart'
    BY <1>1, <1>2, <1>4 DEF Apart
  <1>8. Kept'
    BY <1>1, <1>2, <1>4 DEF Kept
  <1>9. MessagesInPlace'
    BY <1>1, <1>2, <1>3, <1>4 DEF MessagesInPlace
  <1> QED BY <1>6, <1>7, <1>8, <1>9

LEMMA ReleaseKeeps ==
    ASSUME QueueInv, NEW p \in Producers, ReleaseSlot(p)
    PROVE  RingInv' /\ Apart' /\ Kept' /\ MessagesInPlace'
  <1> DEFINE s == prod[p].slot
  <1>1. /\ prod[p].at = "release"
        /\ prod' = [prod EXCEPT ![p] = [IdleProducer EXCEPT !.at = "refused", !.msg = prod[p].msg]]
        /\ hasData' = [hasData EXCEPT ![s] = FALSE]
        /\ UNCHANGED <<tail, head, queue, storage, cons, broken>>
    BY DEF ReleaseSlot
  <1>2. /\ TypeOK /\ RingInv /\ Apart /\ Kept /\ MessagesInPlace
        /\ prod \in [Producers -> [at : ProducerSteps, msg : Messages \union {NoMessage},
                                   slot : Places, idx : Places]]
        /\ hasData \in [Places -> BOOLEAN]
        /\ s \in Places /\ head \in Places
    BY DEF QueueInv, TypeOK
  <1>3. /\ prod'[p].at = "refused" /\ prod'[p].msg = prod[p].msg
        /\ \A q \in Producers : q # p => prod'[q] = prod[q]
        /\ \A t \in Places : hasData'[t] = (hasData[t] /\ t # s)
    BY <1>1, <1>2 DEF IdleProducer
  <1>4. /\ \A q \in Producers : Placed(q)' <=> Placed(q)
        /\ \A q \in Producers : Placed(q) \/ Holding(q)' => prod'[q] = prod[q]
        /\ Holding(p)
        /\ \A q \in Producers : Holding(q)' <=> Holding(q) /\ q # p
        /\ \A c \in Consumers : Taking(c)' <=> Taking(c)
        /\ \A c \in Consumers, i \in Places : ClearingAt(c, i)' <=> ClearingAt(c, i)
        /\ \A i \in Places : (Published(i)' <=> Published(i)) /\ (Pending(i)' <=> Pending(i))
    BY <1>1, <1>3 DEF Holding, Placed, Taking, ClearingAt, Published, Pending
  <1>5. RingInv'
    BY <1>1, <1>2, <1>4 DEF RingInv
  <1>6. /\ \A q \in Producers : Holding(q) /\ q # p => prod[q].slot # s
        /\ \A i \in Places : Published(i) => queue[i] # s
        /\ \A c \in Consumers : Taking(c) => cons[c].val # s
    BY <1>2, <1>4 DEF Apart
  <1>7. /\ \A i \in Places : Published(i) => queue[i] \in Places
        /\ \A c \in Consumers : Taking(c) => cons[c].val \in Places
        /\ \A q \in Producers : prod[q].slot \in Places
    BY <1>2, RecordTypes DEF Published, RingInv
  <1>8. Apart'
    BY <1>1, <1>2, <1>3, <1>4, <1>6, <1>7 DEF Apart
  <1>9. Kept'
    <2> SUFFICES ASSUME NEW t \in Places, hasData'[t]
                 PROVE  \/ \E q \in Producers : Holding(q)' /\ prod'[q].slot = t
                        \/ \E i \in Places : Published(i)' /\ queue'[i] = t
                        \/ \E c \in Consumers : Taking(c)' /\ cons'[c].val = t
      BY DEF Kept
    <2>1. hasData[t] /\ t # s
      BY <1>3
    <2>2. ASSUME NEW q \in Producers, Holding(q), prod[q].slot = t
          PROVE  Holding(q)' /\ prod'[q].slot = t
      BY <1>4, <2>1, <2>2
    <2> QED BY <1>1, <1>2, <1>4, <2>1, <2>2 DEF Kept
  <1>10. MessagesInPlace'
    BY <1>1, <1>2, <1>3, <1>4 DEF MessagesInPlace
  <1> QED BY <1>5, <1>8, <1>9, <1>10

\* A step of a consumer that leaves ring and flags alone, and claims nothing.
LEMMA QuietConsumer ==
    ASSUME QueueInv, NEW c \in Consumers,
           ReadTail(c) \/ CheckEmpty(c) \/ ReadPlace(c) \/ ClaimLost(c) \/ TakeMessage(c)
    PROVE  RingInv' /\ Apart' /\ Kept' /\ MessagesInPlace'
  <1>1. /\ TypeOK /\ RingInv
        /\ cons \in [Consumers -> [at : ConsumerSteps, idx : Places, val : Places \union {Empty}]]
        /\ broken \in BOOLEAN
    BY DEF QueueInv, TypeOK
  <1>2. /\ UNCHANGED <<memory, prod>>
        /\ \A d \in Consumers : d # c => cons'[d] = cons[d]
    BY <1>1 DEF ReadTail, CheckEmpty, ReadPlace, ClaimLost, TakeMessage
  <1>3. UNCHANGED broken
    <2>1. CASE TakeMessage(c)
      BY <1>1, <2>1 DEF TakeMessage, RingInv, Taking
    <2> QED BY <2>1 DEF ReadTail, CheckEmpty, ReadPlace, ClaimLost
  <1>4. /\ Taking(c)' <=> Taking(c)
        /\ (cons'[c].at = "clear") <=> (cons[c].at = "clear")
        /\ Taking(c) => cons'[c].val = cons[c].val /\ cons'[c].idx = cons[c].idx
    <2>1. IdleConsumer.at = "read tail"
      BY DEF IdleConsumer
    <2>2. CASE TakeMessage(c)
      BY <1>1, <2>2 DEF TakeMessage, Taking
    <2>3. CASE CheckEmpty(c)
      BY <1>1, <2>1, <2>3 DEF CheckEmpty, Taking
    <2>4. CASE ClaimLost(c)
      BY <1>1, <2>1, <2>4 DEF ClaimLost, Taking
    <2>5. CASE ReadTail(c) \/ ReadPlace(c)
      BY <1>1, <2>5 DEF ReadTail, ReadPlace, Taking
    <2> QED BY <2>2, <2>3, <2>4, <2>5
  <1>5. \A d \in Consumers :
              /\ Taking(d)' <=> Taking(d)
              /\ (cons'[d].at = "clear") <=> (cons[d].at = "clear")
              /\ Taking(d) => cons'[d].val = cons[d].val /\ cons'[d].idx = cons[d].idx
    BY <1>2, <1>4 DEF Taking
  <1> QED BY <1>1, <1>2, <1>3, <1>5, LookingConsumer DEF QueueInv

LEMMA ClaimKeeps ==
    ASSUME QueueInv, NEW c \in Consumers, Claim(c), FreshClaim(c)
    PROVE  RingInv' /\ Apart' /\ Kept' /\ MessagesInPlace'
  <1>1. /\ cons[c].at = "claim" /\ cons[c].idx = tail /\ tail # head
        /\ cons[c].val = queue[tail]
        /\ tail' = Next1(tail) /\ cons' = [cons EXCEPT ![c].at = "clear"]
    BY DEF Claim, FreshClaim
  <1>2. /\ TypeOK /\ RingInv /\ Apart /\ Kept /\ MessagesInPlace
        /\ cons \in [Consumers -> [at : ConsumerSteps, idx : Places, val : Places \union {Empty}]]
        /\ tail \in Places /\ head \in Places
        /\ UNCHANGED <<head, queue, hasData, storage, prod, broken>>
    BY DEF QueueInv, TypeOK, Claim
  <1>3. /\ cons'[c].at = "clear" /\ cons'[c].idx = tail /\ cons'[c].val = queue[tail]
        /\ \A d \in Consumers : d # c => cons'[d] = cons[d]
    BY <1>1, <1>2
  <1>4. /\ \A p \in Producers : (Holding(p)' <=> Holding(p)) /\ (Placed(p)' <=> Placed(p))
        /\ ~Taking(c) /\ cons[c].at # "clear"
        /\ \A d \in Consumers : Taking(d)' <=> Taking(d) \/ d = c
        /\ \A d \in Consumers : Taking(d) => cons'[d] = cons[d]
        /\ \A d \in Consumers, i \in Places : ClearingAt(d, i)' <=> ClearingAt(d, i) \/ (d = c /\ i = tail)
    BY <1>1, <1>2, <1>3 DEF Holding, Placed, Taking, ClearingAt
  <1>5. /\ Pending(tail) /\ queue[tail] # Empty
        /\ \A i \in Places : Pending(i)' <=> Pending(i) /\ i # tail
    <2>1. Pending(tail)
      BY <1>1, <1>2 DEF Pending, Places
    <2>2. \A i \in Places : Pending(i)' <=> Pending(i) /\ i # tail
      BY <1>1, <1>2, Next1IsCircular, QueueAssumption DEF Pending, Places
    <2> QED BY <1>2, <2>1, <2>2 DEF RingInv
  <1>6. /\ Published(tail)
        /\ \A i \in Places : Published(i)' <=> Published(i) /\ i # tail
    BY <1>2, <1>4, <1>5 DEF Published, RingInv
  <1>7. RingInv'
    <2>1. \A p \in Producers : Placed(p)' =>
             queue'[head'] = prod'[p].slot /\ Next1(head') # tail'
      <3>1. Next1(head) # Next1(tail)
        BY <1>1, <1>2, Next1IsCircular, QueueAssumption DEF Places
      <3> QED BY <1>1, <1>2, <1>4, <3>1 DEF RingInv
    <2>2. ASSUME NEW d \in Consumers, NEW i \in Places, ClearingAt(d, i)'
          PROVE  /\ queue'[i] = cons'[d].val
                 /\ ~Pending(i)'
                 /\ \A p \in Producers : Placed(p)' => i # head'
      <3>1. CASE ClearingAt(d, i)
        BY <1>2, <1>4, <1>5, <3>1 DEF RingInv, ClearingAt, Taking
      <3>2. CASE d = c /\ i = tail
        BY <1>1, <1>2, <1>3, <1>5, <3>2
      <3> QED BY <1>4, <2>2, <3>1, <3>2
    <2>3. \A d, e \in Consumers, i \in Places : ClearingAt(d, i)' /\ ClearingAt(e, i)' => d = e
      BY <1>2, <1>4, <1>5 DEF RingInv
    <2>4. \A i \in Places : Published(i)' =>
             Pending(i)' \/ (i = head' /\ \E p \in Producers : Placed(p)')
      BY <1>2, <1>4, <1>5, <1>6 DEF RingInv
    <2>5. \A d \in Consumers : Taking(d)' => cons'[d].val # Empty
      BY <1>2, <1>3, <1>4, <1>5 DEF RingInv
    <2>6. \A i \in Places : Pending(i)' => queue'[i] # Empty
      BY <1>2, <1>5 DEF RingInv
    <2>7. \A p, q \in Producers : Placed(p)' /\ Placed(q)' => p = q
      BY <1>2, <1>4 DEF RingInv
    <2>8. ~broken'
      BY <1>2 DEF RingInv
    <2> QED BY <2>1, <2>2, <2>3, <2>4, <2>5, <2>6, <2>7, <2>8 DEF RingInv
  <1>8. Apart'
    <2>1. Apart /\ UNCHANGED <<queue, hasData, prod>>
      BY <1>2
    <2>2. \A d \in Consumers : Taking(d)' =>
             (d = c /\ cons'[d].val = queue[tail]) \/ (d # c /\ Taking(d) /\ cons'[d].val = cons[d].val)
      BY <1>3, <1>4
    <2> QED BY <1>2, <1>4, <1>5, <1>6, <2>1, <2>2 DEF Apart
  <1>9. Kept'
    <2> SUFFICES ASSUME NEW t \in Places, hasData[t]
                 PROVE  \/ \E p \in Producers : Holding(p)' /\ prod'[p].slot = t
                        \/ \E i \in Places : Published(i)' /\ queue'[i] = t
                        \/ \E d \in Consumers : Taking(d)' /\ cons'[d].val = t
      BY <1>2 DEF Kept
    <2>1. CASE \E p \in Producers : Holding(p) /\ prod[p].slot = t
      BY <1>2, <1>4, <2>1
    <2>2. ASSUME NEW i \in Places, Published(i), queue[i] = t
          PROVE  (Published(i)' /\ queue'[i] = t) \/ (Taking(c)' /\ cons'[c].val = t)
      BY <1>2, <1>3, <1>4, <1>6, <2>2
    <2>3. ASSUME NEW d \in Consumers, Taking(d), cons[d].val = t
          PROVE  Taking(d)' /\ cons'[d].val = t
      BY <1>3, <1>4, <2>3
    <2> QED BY <1>2, <2>1, <2>2, <2>3 DEF Kept
  <1>10. MessagesInPlace'
    <2>1. MessagesInPlace /\ UNCHANGED <<queue, storage, prod>>
      BY <1>2
    <2>2. \A d \in Consumers : Taking(d)' => storage'[cons'[d].val] \in Messages
      BY <1>2, <1>3, <1>4, <1>6, <2>1 DEF MessagesInPlace
    <2> QED BY <1>6, <2>1, <2>2 DEF MessagesInPlace
  <1> QED BY <1>7, <1>8, <1>9, <1>10

LEMMA ClearPlaceKeeps ==
    ASSUME QueueInv, NEW c \in Consumers, ClearPlace(c)
    PROVE  RingInv' /\ Apart' /\ Kept' /\ MessagesInPlace'
  <1> DEFINE k == cons[c].idx
  <1>1. /\ cons[c].at = "clear" /\ queue' = [queue EXCEPT ![k] = Empty]
        /\ cons' = [cons EXCEPT ![c].at = "take", ![c].idx = 0]
    BY DEF ClearPlace
  <1>2. /\ TypeOK /\ RingInv /\ Apart /\ Kept /\ MessagesInPlace
        /\ cons \in [Consumers -> [at : ConsumerSteps, idx : Places, val : Places \union {Empty}]]
        /\ queue \in [Places -> Places \union {Empty}]
        /\ k \in Places /\ head \in Places
        /\ UNCHANGED <<tail, head, hasData, storage, prod, broken>>
    BY DEF QueueInv, TypeOK, ClearPlace
  <1>3. /\ cons'[c].at = "take" /\ cons'[c].val = cons[c].val
        /\ \A d \in Consumers : d # c => cons'[d] = cons[d]
        /\ queue'[k] = Empty
        /\ \A i \in Places : i # k => queue'[i] = queue[i]
    BY <1>1, <1>2
  <1>4. /\ \A p \in Producers : (Holding(p)' <=> Holding(p)) /\ (Placed(p)' <=> Placed(p))
        /\ \A d \in Consumers : (Taking(d)' <=> Taking(d)) /\ cons'[d].val = cons[d].val
        /\ ClearingAt(c, k)
        /\ \A i \in Places : ClearingAt(c, i) => i = k
        /\ \A d \in Consumers, i \in Places : ClearingAt(d, i)' <=> ClearingAt(d, i) /\ d # c
        /\ \A i \in Places : Pending(i)' <=> Pending(i)
    BY <1>1, <1>2, <1>3 DEF Holding, Placed, Taking, ClearingAt, Pending
  <1>5. /\ ~Pending(k)
        /\ \A p \in Producers : Placed(p) => head # k
        /\ \A d \in Consumers : ClearingAt(d, k) => d = c
    BY <1>2, <1>4 DEF RingInv
  <1>6. /\ ~Published(k)
        /\ \A i \in Places : Published(i)' <=> Published(i)
        /\ \A i \in Places : Published(i) => queue'[i] = queue[i]
    BY <1>2, <1>3, <1>4, <1>5 DEF Published
  <1>7. RingInv'
    <2>1. RingInv /\ UNCHANGED <<tail, head, prod, broken>>
      BY <1>2
    <2>2. ASSUME NEW d \in Consumers, NEW i \in Places, ClearingAt(d, i)'
          PROVE  /\ queue'[i] = cons'[d].val
                 /\ ~Pending(i)'
                 /\ \A p \in Producers : Placed(p)' => i # head'
      <3>1. ClearingAt(d, i) /\ i # k
        BY <1>4, <1>5, <2>2
      <3> QED BY <1>3, <1>4, <2>1, <3>1 DEF RingInv
    <2>3. \A i \in Places : Pending(i)' => queue'[i] # Empty
      BY <1>3, <1>4, <1>5, <2>1 DEF RingInv
    <2>4. \A p \in Producers : Placed(p)' =>
             queue'[head'] = prod'[p].slot /\ Next1(head') # tail'
      BY <1>2, <1>3, <1>4, <1>5, <2>1 DEF RingInv
    <2>5. \A d, e \in Consumers, i \in Places : ClearingAt(d, i)' /\ ClearingAt(e, i)' => d = e
      BY <1>4, <2>1 DEF RingInv
    <2>6. \A i \in Places : Published(i)' =>
             Pending(i)' \/ (i = head' /\ \E p \in Producers : Placed(p)')
      BY <1>4, <1>6, <2>1 DEF RingInv
    <2>7. /\ \A d \in Consumers : Taking(d)' => cons'[d].val # Empty
          /\ \A p, q \in Producers : Placed(p)' /\ Placed(q)' => p = q
          /\ ~broken'
      BY <1>4, <2>1 DEF RingInv
    <2> QED BY <2>2, <2>3, <2>4, <2>5, <2>6, <2>7 DEF RingInv
  <1>8. Apart'
    <2>1. Apart /\ UNCHANGED <<hasData, prod>>
      BY <1>2
    <2> QED BY <1>4, <1>6, <2>1 DEF Apart
  <1>9. Kept'
    <2>1. Kept /\ UNCHANGED <<hasData, prod>>
      BY <1>2
    <2> QED BY <1>4, <1>6, <2>1 DEF Kept
  <1>10. MessagesInPlace'
    <2>1. MessagesInPlace /\ UNCHANGED <<storage, prod>>
      BY <1>2
    <2> QED BY <1>4, <1>6, <2>1 DEF MessagesInPlace
  <1> QED BY <1>7, <1>8, <1>9, <1>10

LEMMA FreeSlotKeeps ==
    ASSUME QueueInv, NEW c \in Consumers, FreeSlot(c)
    PROVE  RingInv' /\ Apart' /\ Kept' /\ MessagesInPlace'
  <1> DEFINE s == cons[c].val
  <1>1. /\ cons[c].at = "free" /\ hasData' = [hasData EXCEPT ![s] = FALSE]
        /\ cons' = [cons EXCEPT ![c] = IdleConsumer]
    BY DEF FreeSlot
  <1>2. /\ TypeOK /\ RingInv /\ Apart /\ Kept /\ MessagesInPlace
        /\ cons \in [Consumers -> [at : ConsumerSteps, idx : Places, val : Places \union {Empty}]]
        /\ hasData \in [Places -> BOOLEAN]
        /\ head \in Places
        /\ UNCHANGED <<tail, head, queue, storage, prod, broken>>
    BY DEF QueueInv, TypeOK, FreeSlot
  <1>3. /\ IdleConsumer.at = "read tail" /\ cons'[c] = IdleConsumer
        /\ \A d \in Consumers : d # c => cons'[d] = cons[d]
        /\ \A t \in Places : hasData'[t] = (hasData[t] /\ t # s)
    BY <1>1, <1>2 DEF IdleConsumer
  <1>4. /\ \A p \in Producers : (Holding(p)' <=> Holding(p)) /\ (Placed(p)' <=> Placed(p))
        /\ Taking(c) /\ s \in Places /\ s # Empty
        /\ \A d \in Consumers : Taking(d)' <=> Taking(d) /\ d # c
        /\ \A d \in Consumers : Taking(d)' => cons'[d] = cons[d]
        /\ \A d \in Consumers, i \in Places : ClearingAt(d, i)' <=> ClearingAt(d, i)
        /\ \A d \in Consumers, i \in Places : ClearingAt(d, i) => d # c
        /\ \A i \in Places : (Pending(i)' <=> Pending(i)) /\ (Published(i)' <=> Published(i))
    <2>1. Taking(c) /\ s \in Places /\ s # Empty
      BY <1>1, <1>2, NoPlaceIsEmpty DEF Taking, RingInv
    <2>2. /\ \A p \in Producers : (Holding(p)' <=> Holding(p)) /\ (Placed(p)' <=> Placed(p))
          /\ \A i \in Places : Pending(i)' <=> Pending(i)
      BY <1>2 DEF Holding, Placed, Pending
    <2>3. \A d \in Consumers : Taking(d)' <=> Taking(d) /\ d # c
      BY <1>3 DEF Taking
    <2>4. \A d \in Consumers, i \in Places :
            (ClearingAt(d, i)' <=> ClearingAt(d, i)) /\ (ClearingAt(d, i) => d # c)
      <3>1. cons[c].at # "clear" /\ cons'[c].at # "clear"
        BY <1>1, <1>3
      <3>2. \A d \in Consumers : d # c => cons'[d] = cons[d]
        BY <1>3
      <3> QED BY <3>1, <3>2 DEF ClearingAt
    <2>5. \A i \in Places : Published(i)' <=> Published(i)
      BY <1>2, <2>4 DEF Published
    <2> QED BY <1>3, <2>1, <2>2, <2>3, <2>4, <2>5
  <1>5. RingInv'
    <2>1. RingInv /\ UNCHANGED <<tail, head, queue, prod, broken>>
      BY <1>2
    <2>2. \A d \in Consumers, i \in Places : ClearingAt(d, i)' => cons'[d] = cons[d] /\ ClearingAt(d, i)
      BY <1>3, <1>4
    <2> QED BY <1>2, <1>4, <2>1, <2>2 DEF RingInv
  <1>6. /\ \A p \in Producers : Holding(p) => prod[p].slot # s /\ prod[p].slot \in Places
        /\ \A i \in Places : Published(i) => queue[i] # s /\ queue[i] \in Places
        /\ \A d \in Consumers : Taking(d) /\ d # c => cons[d].val # s /\ cons[d].val \in Places
    BY <1>2, <1>4, RecordTypes DEF Apart, Published, RingInv
  <1>7. Apart'
    <2>1. Apart /\ UNCHANGED <<queue, prod>>
      BY <1>2
    <2>2. \A d \in Consumers : Taking(d)' => Taking(d) /\ d # c /\ cons'[d].val = cons[d].val
      BY <1>3, <1>4
    <2>3. ASSUME NEW p \in Producers, Holding(p)'
          PROVE  hasData'[prod'[p].slot]
      <3>1. hasData[prod[p].slot] /\ prod[p].slot \in Places /\ prod[p].slot # s
        BY <1>4, <1>6, <2>1, <2>3 DEF Apart
      <3> QED BY <1>3, <2>1, <3>1
    <2>4. ASSUME NEW i \in Places, Published(i)'
          PROVE  hasData'[queue'[i]]
      <3>1. hasData[queue[i]] /\ queue[i] \in Places /\ queue[i] # s
        BY <1>4, <1>6, <2>1, <2>4 DEF Apart
      <3> QED BY <1>3, <2>1, <3>1
    <2>5. ASSUME NEW d \in Consumers, Taking(d)'
          PROVE  hasData'[cons'[d].val]
      <3>1. hasData[cons[d].val] /\ cons[d].val \in Places /\ cons[d].val # s
        BY <1>6, <2>2, <2>5, <2>1, NoPlaceIsEmpty DEF Apart
      <3> QED BY <1>3, <2>2, <2>5, <3>1
    <2> QED BY <1>4, <2>1, <2>2, <2>3, <2>4, <2>5 DEF Apart
  <1>8. Kept'
    <2> SUFFICES ASSUME NEW t \in Places, hasData'[t]
                 PROVE  \/ \E p \in Producers : Holding(p)' /\ prod'[p].slot = t
                        \/ \E i \in Places : Published(i)' /\ queue'[i] = t
                        \/ \E d \in Consumers : Taking(d)' /\ cons'[d].val = t
      BY DEF Kept
    <2>1. hasData[t] /\ t # s
      BY <1>3
    <2>2. ASSUME NEW d \in Consumers, Taking(d), cons[d].val = t
          PROVE  Taking(d)' /\ cons'[d].val = t
      BY <1>3, <1>4, <2>1, <2>2
    <2>3. UNCHANGED <<queue, prod>> /\ Kept
      BY <1>2
    <2> QED BY <1>4, <2>1, <2>2, <2>3 DEF Kept
  <1>9. MessagesInPlace'
    <2>1. MessagesInPlace /\ UNCHANGED <<queue, storage, prod>>
      BY <1>2
    <2>2. \A d \in Consumers : Taking(d)' => Taking(d) /\ cons'[d].val = cons[d].val
      BY <1>3, <1>4
    <2> QED BY <1>4, <2>1, <2>2 DEF MessagesInPlace
  <1> QED BY <1>5, <1>7, <1>8, <1>9

\* As long as nobody is late the invariant holds, for any number of threads.
LEMMA NextQueue == QueueInv /\ [PunctualNext]_vars => QueueInv'
  <1> SUFFICES ASSUME QueueInv, [PunctualNext]_vars PROVE QueueInv'
    OBVIOUS
  <1>1. TypeOK'
    BY NextTypes DEF QueueInv, PunctualNext
  <1>2. CASE UNCHANGED vars
    <2>1. UNCHANGED <<memory, cons, broken, prod>>
      BY <1>2 DEF vars, memory
    <2>2. RingInv' /\ Apart' /\ Kept'
      BY <2>1, LookingProducer DEF QueueInv, Holding, Placed
    <2>3. MessagesInPlace'
      BY <2>1 DEF QueueInv, MessagesInPlace, Taking, ClearingAt, Published, memory
    <2> QED BY <1>1, <2>2, <2>3 DEF QueueInv
  <1>3. ASSUME NEW p \in Producers, NEW m \in Messages, Enqueue(p, m) PROVE QueueInv'
    BY <1>1, <1>3, QuietProducer DEF QueueInv
  <1>4. ASSUME NEW p \in Producers, ProducerStep(p) \/ GiveUp(p), PunctualNext PROVE QueueInv'
    <2>1. CASE PlaceIndex(p)
      BY <1>1, <1>4, <2>1, PlaceKeeps DEF QueueInv, PunctualNext, Punctual
    <2>2. CASE AllocateSlot(p)
      BY <1>1, <2>2, AllocateKeeps DEF QueueInv
    <2>3. CASE Construct(p)
      BY <1>1, <2>3, ConstructKeeps DEF QueueInv
    <2>4. CASE AdvanceHead(p)
      BY <1>1, <2>4, AdvanceKeeps DEF QueueInv
    <2>5. CASE ReleaseSlot(p)
      BY <1>1, <2>5, ReleaseKeeps DEF QueueInv
    <2> QED BY <1>1, <1>4, <2>1, <2>2, <2>3, <2>4, <2>5, QuietProducer DEF QueueInv, ProducerStep
  <1>5. ASSUME NEW c \in Consumers, ConsumerStep(c), PunctualNext PROVE QueueInv'
    <2>1. CASE Claim(c)
      BY <1>1, <1>5, <2>1, ClaimKeeps DEF QueueInv, PunctualNext, Punctual
    <2>2. CASE ClearPlace(c)
      BY <1>1, <2>2, ClearPlaceKeeps DEF QueueInv
    <2>3. CASE FreeSlot(c)
      BY <1>1, <2>3, FreeSlotKeeps DEF QueueInv
    <2> QED BY <1>1, <1>5, <2>1, <2>2, <2>3, QuietConsumer DEF QueueInv, ConsumerStep
  <1> QED BY <1>2, <1>3, <1>4, <1>5 DEF PunctualNext, Next

\* A set without two different members has no member or one.
LEMMA OneOrNone ==
    ASSUME NEW S, \A x, y \in S : x = y
    PROVE  Cardinality(S) = IF S = {} THEN 0 ELSE 1
  <1>1. CASE S = {}
    BY <1>1, FS_EmptySet
  <1>2. CASE S # {}
    <2>1. PICK x \in S : TRUE
      BY <1>2
    <2>2. S = {x}
      BY <2>1
    <2> QED BY <1>2, <2>2, FS_Singleton
  <1> QED BY <1>1, <1>2

\* The owners of a slot, counted: there is one at most, and then the flag is set.
LEMMA CountedOwners ==
    ASSUME TypeOK, Apart, NEW s \in Places
    PROVE  LET owned == \/ \E p \in Producers : Holding(p) /\ prod[p].slot = s
                        \/ \E i \in Places : Published(i) /\ queue[i] = s
                        \/ \E c \in Consumers : Taking(c) /\ cons[c].val = s
           IN  OwnerCount(s) = (IF owned THEN 1 ELSE 0) /\ (owned => hasData[s])
  <1> DEFINE H == {p \in Producers : Holding(p) /\ prod[p].slot = s}
             P == {i \in Places : queue[i] = s
                     /\ ~ \E c \in Consumers : cons[c].at = "clear" /\ cons[c].idx = i}
             T == {c \in Consumers : Taking(c) /\ cons[c].val = s}
  <1>1. s # Empty
    BY NoPlaceIsEmpty
  <1>2. P = {i \in Places : Published(i) /\ queue[i] = s}
    BY <1>1 DEF Published, ClearingAt
  <1>3. /\ \A x, y \in H : x = y
        /\ \A x, y \in P : x = y
        /\ \A x, y \in T : x = y
    <2> HIDE DEF P
    <2> QED BY <1>1, <1>2 DEF Apart
  <1>4. /\ H # {} => P = {} /\ T = {}
        /\ P # {} => T = {}
    <2> HIDE DEF P
    <2> QED BY <1>1, <1>2 DEF Apart
  <1>5. H # {} \/ P # {} \/ T # {} => hasData[s]
    <2> HIDE DEF P
    <2> QED BY <1>1, <1>2 DEF Apart
  <1>6. OwnerCount(s) = Cardinality(H) + Cardinality(P) + Cardinality(T)
    BY DEF OwnerCount
  <1> DEFINE owned == \/ \E p \in Producers : Holding(p) /\ prod[p].slot = s
                      \/ \E i \in Places : Published(i) /\ queue[i] = s
                      \/ \E c \in Consumers : Taking(c) /\ cons[c].val = s
  <1>7. owned <=> H # {} \/ P # {} \/ T # {}
    <2>1. P # {} <=> \E i \in Places : Published(i) /\ queue[i] = s
      BY <1>2
    <2> QED BY <2>1
  <1> HIDE DEF H, P, T, owned
  <1>8. /\ Cardinality(H) = IF H = {} THEN 0 ELSE 1
        /\ Cardinality(P) = IF P = {} THEN 0 ELSE 1
        /\ Cardinality(T) = IF T = {} THEN 0 ELSE 1
    BY <1>3, OneOrNone
  <1>9. OwnerCount(s) = IF owned THEN 1 ELSE 0
    BY <1>4, <1>6, <1>7, <1>8
  <1> QED BY <1>5, <1>7, <1>9 DEF owned

LEMMA PunctualOwners == QueueInv => OneOwnerPerSlot
  <1> SUFFICES ASSUME QueueInv, NEW s \in Places
               PROVE  OwnerCount(s) = IF hasData[s] THEN 1 ELSE 0
    BY DEF OneOwnerPerSlot
  <1> QED BY CountedOwners DEF QueueInv, Kept

-----------------------------------------------------------------------------
(* Late threads.  With a single consumer no two owners share a slot, even     *)
(* when the ring has lost its order.                                         *)

\* What the consumer has read of a place is still there, if there was anything.
Seen ==
    \A c \in Consumers : cons[c].at \in {"claim", "clear"} =>
        cons[c].val \in {Empty, queue[cons[c].idx]}

LEMMA LateProducer ==
    ASSUME TypeOK, Apart, Seen, NEW p \in Producers,
           \/ \E m \in Messages : Enqueue(p, m)
           \/ ProducerStep(p) \/ GiveUp(p)
    PROVE  Apart' /\ Seen'
  <1> DEFINE s == prod[p].slot
  <1>1. /\ prod \in [Producers -> [at : ProducerSteps, msg : Messages \union {NoMessage},
                                   slot : Places, idx : Places]]
        /\ queue \in [Places -> Places \union {Empty}]
        /\ hasData \in [Places -> BOOLEAN]
        /\ s \in Places /\ s # Empty
    BY NoPlaceIsEmpty DEF TypeOK
  <1>2. /\ \A q \in Producers : q # p => prod'[q] = prod[q]
        /\ UNCHANGED cons
    BY <1>1 DEF Enqueue, ProducerStep, GiveUp, AllocateSlot, SkipSlot, Construct, ReadHead, CheckFull,
          PlaceIndex, PlaceTaken, RereadHead, AdvanceHead, HeadMoved, ReleaseSlot, Retry, Step
  <1>3. /\ \A q \in Producers : q # p => (Holding(q)' <=> Holding(q))
        /\ \A c \in Consumers : Taking(c)' <=> Taking(c)
        /\ \A c \in Consumers, i \in Places : ClearingAt(c, i)' <=> ClearingAt(c, i)
    BY <1>2 DEF Holding, Taking, ClearingAt
  <1>4. CASE AllocateSlot(p)
    <2>1. /\ ~hasData[s] /\ \A t \in Places : hasData'[t] <=> hasData[t] \/ t = s
          /\ prod'[p].slot = s
          /\ UNCHANGED queue
      BY <1>1, <1>4 DEF AllocateSlot, Allocatable, Step
    <2>2. /\ \A q \in Producers : Holding(q) => prod[q].slot # s
          /\ \A i \in Places : Published(i) => queue[i] # s
          /\ \A c \in Consumers : Taking(c) => cons[c].val # s
      BY <1>1, <2>1 DEF Apart
    <2>3. \A i \in Places : Published(i)' <=> Published(i)
      BY <1>3, <2>1 DEF Published
    <2>4. \A q \in Producers : Holding(q)' =>
             prod'[q].slot = prod[q].slot /\ (q = p \/ Holding(q))
      BY <1>2, <1>3, <2>1
    <2>5. \A q \in Producers : prod[q].slot \in Places
      BY RecordTypes
    <2>6. \A i \in Places : Published(i) => queue[i] \in Places
      BY <1>1 DEF Published
    <2>7. \A c \in Consumers : cons[c].val # Empty => cons[c].val \in Places
      BY RecordTypes
    <2>8. Apart'
      BY <1>2, <1>3, <2>1, <2>2, <2>3, <2>4, <2>5, <2>6, <2>7 DEF Apart
    <2>9. Seen'
      BY <1>2, <2>1 DEF Seen
    <2> QED BY <2>8, <2>9
  <1>5. CASE ReleaseSlot(p)
    <2>1. /\ \A t \in Places : hasData'[t] <=> hasData[t] /\ t # s
          /\ UNCHANGED queue
          /\ Holding(p) /\ ~Holding(p)'
      BY <1>1, <1>5 DEF ReleaseSlot, Holding
    <2>2. /\ \A q \in Producers : Holding(q)' => q # p /\ Holding(q) /\ prod'[q] = prod[q]
          /\ \A i \in Places : Published(i)' <=> Published(i)
      BY <1>2, <1>3, <2>1 DEF Published
    <2>3. /\ \A q \in Producers : Holding(q)' => prod[q].slot # s /\ prod[q].slot \in Places
          /\ \A i \in Places : Published(i) => queue[i] # s /\ queue[i] \in Places
          /\ \A c \in Consumers : Taking(c) => cons[c].val # s
      BY <1>1, <2>1, <2>2 DEF Apart, Published
    <2>4. \A c \in Consumers : cons[c].val # Empty => cons[c].val \in Places
      BY RecordTypes
    <2>5. \A q \in Producers : Holding(q)' => hasData'[prod'[q].slot]
      <3>1. \A q \in Producers : Holding(q)' => hasData[prod[q].slot]
        BY <2>2 DEF Apart
      <3> QED BY <2>1, <2>2, <2>3, <3>1
    <2>6. \A i \in Places : Published(i)' => hasData'[queue'[i]]
      <3>1. \A i \in Places : Published(i)' => hasData[queue[i]]
        BY <2>2 DEF Apart
      <3> QED BY <2>1, <2>2, <2>3, <3>1
    <2>7. \A c \in Consumers : Taking(c)' /\ cons'[c].val # Empty => hasData'[cons'[c].val]
      <3>1. \A c \in Consumers : Taking(c)' /\ cons[c].val # Empty => hasData[cons[c].val]
        BY <1>3 DEF Apart
      <3> QED BY <1>2, <1>3, <2>1, <2>3, <2>4, <3>1
    <2>8. Apart'
      BY <1>2, <1>3, <2>1, <2>2, <2>5, <2>6, <2>7 DEF Apart
    <2>9. Seen'
      BY <1>2, <2>1 DEF Seen
    <2> QED BY <2>8, <2>9
  <1>6. CASE PlaceIndex(p)
    <2> DEFINE k == prod[p].idx
    <2>1. /\ k \in Places /\ queue[k] = Empty /\ queue'[k] = s
          /\ \A i \in Places : i # k => queue'[i] = queue[i]
          /\ UNCHANGED hasData
          /\ Holding(p) /\ ~Holding(p)'
      BY <1>1, <1>6 DEF PlaceIndex, Step, Holding
    <2>2. /\ \A q \in Producers : Holding(q)' => q # p /\ Holding(q) /\ prod'[q] = prod[q]
          /\ \A i \in Places : Published(i)' =>
                \/ i = k /\ queue'[i] = s
                \/ i # k /\ Published(i) /\ queue'[i] = queue[i]
      BY <1>2, <1>3, <2>1 DEF Published
    <2>3. /\ \A q \in Producers : Holding(q)' => prod[q].slot # s
          /\ \A i \in Places : Published(i) => queue[i] # s
          /\ \A c \in Consumers : Taking(c) => cons[c].val # s
          /\ hasData[s]
      BY <2>1, <2>2 DEF Apart
    <2>4. Apart'
      BY <1>2, <1>3, <2>1, <2>2, <2>3 DEF Apart
    <2>5. Seen'
      <3>1. \A c \in Consumers : cons[c].idx \in Places
        BY RecordTypes
      <3> QED BY <1>2, <2>1, <3>1 DEF Seen
    <2> QED BY <2>4, <2>5
  <1>7. CASE ~(AllocateSlot(p) \/ ReleaseSlot(p) \/ PlaceIndex(p))
    <2>1. /\ UNCHANGED <<queue, hasData>>
          /\ Holding(p)' => Holding(p) /\ prod'[p].slot = prod[p].slot
      <3>1. CASE (\E m \in Messages : Enqueue(p, m)) \/ GiveUp(p) \/ AdvanceHead(p)
        <4>1. UNCHANGED <<queue, hasData>>
          BY <3>1 DEF Enqueue, GiveUp, AdvanceHead, memory
        <4>2. CASE GiveUp(p) \/ AdvanceHead(p)
          <5>1. prod'[p] = IdleProducer
            BY <1>1, <4>2 DEF GiveUp, AdvanceHead
          <5>2. IdleProducer.at = "idle"
            BY DEF IdleProducer
          <5> QED BY <4>1, <5>1, <5>2 DEF Holding
        <4>3. ASSUME NEW m \in Messages, Enqueue(p, m)
              PROVE  ~Holding(p)'
          <5>1. prod'[p] = [IdleProducer EXCEPT !.at = "allocate", !.msg = m]
            BY <1>1, <4>3 DEF Enqueue
          <5>2. prod'[p].at = "allocate"
            BY <5>1 DEF IdleProducer
          <5> QED BY <5>2 DEF Holding
        <4> QED BY <3>1, <4>1, <4>2, <4>3
      <3>2. CASE SkipSlot(p)
        <4>1. prod'[p].at \in {"refused", "allocate"} /\ UNCHANGED <<queue, hasData>>
          BY <1>1, <3>2 DEF SkipSlot, memory
        <4> QED BY <4>1 DEF Holding
      <3>3. CASE Construct(p) \/ CheckFull(p) \/ PlaceTaken(p) \/ HeadMoved(p) \/ Retry(p)
        <4>1. PICK from, to \in ProducerSteps : Step(p, from, to) /\ (to \in {"allocate", "reread head"} \/ from \in {"construct", "check full", "place"})
          BY <3>3 DEF Construct, CheckFull, PlaceTaken, HeadMoved, Retry, ProducerSteps
        <4>2. UNCHANGED <<queue, hasData>>
          BY <3>3 DEF Construct, CheckFull, PlaceTaken, HeadMoved, Retry, memory
        <4> QED BY <1>1, <4>1, <4>2 DEF Step, Holding
      <3>4. CASE ReadHead(p) \/ RereadHead(p)
        BY <1>1, <3>4 DEF ReadHead, RereadHead, Holding, memory
      <3> QED BY <1>7, <3>1, <3>2, <3>3, <3>4 DEF ProducerStep
    <2>2. /\ \A q \in Producers : Holding(q)' => Holding(q) /\ prod'[q].slot = prod[q].slot
          /\ \A i \in Places : Published(i)' <=> Published(i)
      BY <1>2, <1>3, <2>1 DEF Published
    <2>3. Apart'
      BY <1>2, <1>3, <2>1, <2>2 DEF Apart
    <2>4. Seen'
      BY <1>2, <2>1 DEF Seen
    <2> QED BY <2>3, <2>4
  <1> QED BY <1>4, <1>5, <1>6, <1>7

LEMMA LateConsumer ==
    ASSUME TypeOK, Apart, Seen, NEW c \in Consumers, ConsumerStep(c),
           \A d \in Consumers : d # c => cons[d].at = "read tail"
    PROVE  Apart' /\ Seen'
  <1> DEFINE s == cons[c].val
             k == cons[c].idx
  <1>1. /\ cons \in [Consumers -> [at : ConsumerSteps, idx : Places, val : Places \union {Empty}]]
        /\ queue \in [Places -> Places \union {Empty}]
        /\ hasData \in [Places -> BOOLEAN]
        /\ k \in Places /\ s \in Places \union {Empty}
    BY DEF TypeOK
  <1>2. /\ \A d \in Consumers : d # c => cons'[d] = cons[d]
        /\ UNCHANGED prod
    BY <1>1 DEF ConsumerStep, ReadTail, CheckEmpty, ReadPlace, Claim, ClaimLost, ClearPlace,
                TakeMessage, FreeSlot
  <1>3. /\ \A d \in Consumers : Taking(d) \/ Taking(d)' => d = c
        /\ \A d \in Consumers, i \in Places : ClearingAt(d, i) \/ ClearingAt(d, i)' => d = c
        /\ \A d \in Consumers : d # c => cons'[d].at = "read tail"
        /\ \A p \in Producers : Holding(p)' <=> Holding(p)
    BY <1>2 DEF Taking, ClearingAt, Holding
  <1>4. IdleConsumer.at = "read tail"
    BY DEF IdleConsumer
  <1>5. CASE Claim(c)
    <2>1. /\ cons[c].at = "claim" /\ cons'[c].at = "clear" /\ cons'[c].val = s /\ cons'[c].idx = k
          /\ UNCHANGED <<queue, hasData>>
          /\ s \in {Empty, queue[k]}
      BY <1>1, <1>5 DEF Claim, Seen
    <2>2. \A i \in Places : Published(i) <=> queue[i] # Empty
      <3>1. \A d \in Consumers, i \in Places : ~ClearingAt(d, i)
        BY <1>3, <2>1 DEF ClearingAt
      <3> QED BY <3>1 DEF Published
    <2>3. \A i \in Places : Published(i)' => Published(i) /\ i # k
      <3>1. \A i \in Places : i = k => ClearingAt(c, i)'
        BY <2>1 DEF ClearingAt
      <3>2. \A i \in Places : Published(i)' => queue[i] # Empty /\ i # k
        BY <2>1, <3>1 DEF Published
      <3> QED BY <2>2, <3>2
    <2>4. s # Empty => Published(k) /\ queue[k] = s
      BY <1>1, <2>1, <2>2
    <2>5. \A d \in Consumers : Taking(d)' => d = c /\ cons'[d].val = s
      BY <1>3, <2>1
    <2>6. \A p \in Producers : Holding(p) => prod[p].slot # Empty
      BY RecordTypes, NoPlaceIsEmpty
    <2>7. \A i \in Places : Published(i) => queue[i] # Empty
      BY <2>2
    <2>8. /\ \A i \in Places : Published(i)' => queue[i] # s
          /\ \A p \in Producers : Holding(p) => prod[p].slot # s
          /\ s # Empty => hasData[s]
      BY <1>1, <2>3, <2>4, <2>6, <2>7 DEF Apart
    <2>10. UNCHANGED <<queue, hasData, prod>>
      BY <1>2, <2>1
    <2>11. Apart'
      BY <1>3, <2>3, <2>5, <2>8, <2>10 DEF Apart
    <2>9. Seen'
      BY <1>3, <2>1 DEF Seen
    <2> QED BY <2>9, <2>11
  <1>6. CASE ClearPlace(c)
    <2>1. /\ cons[c].at = "clear" /\ cons'[c].at = "take" /\ cons'[c].val = s
          /\ queue'[k] = Empty /\ \A i \in Places : i # k => queue'[i] = queue[i]
          /\ UNCHANGED hasData
      BY <1>1, <1>6 DEF ClearPlace
    <2>2. \A i \in Places : Published(i)' => Published(i) /\ queue'[i] = queue[i]
      <3>1. \A i \in Places : ClearingAt(c, i) => i = k
        BY DEF ClearingAt
      <3> QED BY <1>3, <2>1, <3>1 DEF Published
    <2>3. \A d \in Consumers : Taking(d)' => Taking(d) /\ cons'[d].val = cons[d].val
      BY <1>3, <2>1 DEF Taking
    <2>4. Apart'
      <3>1. UNCHANGED <<hasData, prod>>
        BY <1>2, <2>1
      <3>2. \A i, j \in Places : Published(i)' /\ Published(j)' /\ queue'[i] = queue'[j] => i = j
        BY <2>2 DEF Apart
      <3>3. ASSUME NEW i \in Places, NEW d \in Consumers, Published(i)', Taking(d)'
            PROVE  cons'[d].val # queue'[i]
        <4>1. Published(i) /\ Taking(d) /\ queue'[i] = queue[i] /\ cons'[d].val = cons[d].val
          BY <2>2, <2>3, <3>3
        <4> QED BY <4>1 DEF Apart
      <3>4. ASSUME NEW p \in Producers, NEW i \in Places, Holding(p)', Published(i)'
            PROVE  queue'[i] # prod'[p].slot
        <4>1. Published(i) /\ Holding(p) /\ queue'[i] = queue[i]
          BY <1>3, <2>2, <3>4
        <4> QED BY <3>1, <4>1 DEF Apart
      <3>6. ASSUME NEW p \in Producers, NEW d \in Consumers, Holding(p)', Taking(d)'
            PROVE  cons'[d].val # prod'[p].slot
        <4>1. Holding(p) /\ Taking(d) /\ cons'[d].val = cons[d].val
          BY <1>3, <2>3, <3>6
        <4> QED BY <3>1, <4>1 DEF Apart
      <3>7. ASSUME NEW d \in Consumers, Taking(d)', cons'[d].val # Empty
            PROVE  hasData'[cons'[d].val]
        <4>1. Taking(d) /\ cons'[d].val = cons[d].val
          BY <2>3, <3>7
        <4> QED BY <3>1, <3>7, <4>1 DEF Apart
      <3>5. \A i \in Places : Published(i)' => hasData'[queue'[i]]
        BY <2>2, <3>1 DEF Apart
      <3> QED BY <1>3, <2>3, <3>1, <3>2, <3>3, <3>4, <3>5, <3>6, <3>7 DEF Apart
    <2>5. Seen'
      BY <1>3, <2>1 DEF Seen
    <2> QED BY <2>4, <2>5
  <1>7. CASE FreeSlot(c)
    <2>1. /\ cons[c].at = "free" /\ cons'[c].at = "read tail"
          /\ \A t \in Places : hasData'[t] <=> hasData[t] /\ t # s
          /\ UNCHANGED queue
      BY <1>1, <1>4, <1>7 DEF FreeSlot
    <2>2. /\ \A d \in Consumers : ~Taking(d)' /\ d # c => ~Taking(d)
          /\ \A d \in Consumers : ~Taking(d)'
          /\ Taking(c)
          /\ \A i \in Places : Published(i)' <=> Published(i)
      <3>1. \A d \in Consumers, i \in Places : ~ClearingAt(d, i) /\ ~ClearingAt(d, i)'
        BY <1>3, <2>1 DEF ClearingAt
      <3>2. Taking(c) /\ ~Taking(c)'
        BY <2>1 DEF Taking
      <3>3. \A i \in Places : Published(i)' <=> Published(i)
        BY <2>1, <3>1 DEF Published
      <3> QED BY <1>3, <3>2, <3>3
    <2>3. /\ \A p \in Producers : Holding(p) => prod[p].slot # s /\ prod[p].slot \in Places
          /\ \A i \in Places : Published(i) => queue[i] # s /\ queue[i] \in Places
      BY <1>1, <2>2, RecordTypes DEF Apart, Published
    <2>4. \A p \in Producers : Holding(p)' => hasData'[prod'[p].slot]
      <3>1. \A p \in Producers : Holding(p)' => hasData[prod[p].slot]
        BY <1>3 DEF Apart
      <3> QED BY <1>2, <1>3, <2>1, <2>3, <3>1
    <2>5. \A i \in Places : Published(i)' => hasData'[queue'[i]]
      <3>1. \A i \in Places : Published(i)' => hasData[queue[i]]
        BY <2>2 DEF Apart
      <3> QED BY <2>1, <2>2, <2>3, <3>1
    <2>6. Apart'
      BY <1>2, <1>3, <2>1, <2>2, <2>4, <2>5 DEF Apart
    <2>7. Seen'
      BY <1>3, <2>1 DEF Seen
    <2> QED BY <2>6, <2>7
  <1>8. CASE ReadTail(c) \/ CheckEmpty(c) \/ ReadPlace(c) \/ ClaimLost(c) \/ TakeMessage(c)
    <2>1. /\ UNCHANGED <<queue, hasData>>
          /\ Taking(c)' <=> Taking(c)
          /\ (cons'[c].at = "clear") <=> (cons[c].at = "clear")
          /\ Taking(c) => cons'[c].val = s /\ cons'[c].idx = k
          /\ cons'[c].at = "claim" => cons'[c].val = queue[cons'[c].idx]
      <3>1. UNCHANGED <<queue, hasData>>
        BY <1>8 DEF ReadTail, CheckEmpty, ReadPlace, ClaimLost, TakeMessage, memory
      <3>2. CASE ReadTail(c)
        BY <1>1, <3>1, <3>2 DEF ReadTail, Taking
      <3>3. CASE CheckEmpty(c)
        BY <1>1, <1>4, <3>1, <3>3 DEF CheckEmpty, Taking
      <3>4. CASE ReadPlace(c)
        BY <1>1, <3>1, <3>4 DEF ReadPlace, Taking
      <3>5. CASE ClaimLost(c)
        BY <1>1, <1>4, <3>1, <3>5 DEF ClaimLost, Taking
      <3>6. CASE TakeMessage(c)
        BY <1>1, <3>1, <3>6 DEF TakeMessage, Taking
      <3> QED BY <1>8, <3>1, <3>2, <3>3, <3>4, <3>5, <3>6
    <2>2. \A d \in Consumers, i \in Places : ClearingAt(d, i)' <=> ClearingAt(d, i)
      BY <1>2, <1>3, <2>1 DEF ClearingAt, Taking
    <2>3. \A i \in Places : Published(i)' <=> Published(i)
      BY <2>1, <2>2 DEF Published
    <2>4. \A d \in Consumers : Taking(d)' => Taking(d) /\ cons'[d].val = cons[d].val
      BY <1>3, <2>1
    <2>5. Apart'
      <3>1. UNCHANGED <<queue, hasData, prod>>
        BY <1>2, <2>1
      <3> QED BY <1>3, <2>3, <2>4, <3>1 DEF Apart
    <2>6. Seen'
      BY <1>3, <2>1 DEF Seen, Taking
    <2> QED BY <2>5, <2>6
  <1> QED BY <1>5, <1>6, <1>7, <1>8 DEF ConsumerStep

\* The threads of a queue: several at one end and one at the other.  What is
\* left when a thread has been late is left only where one thread dequeues.
SharedInv ==
    /\ TypeOK
    /\ \/ \E p \in Producers : threads = {p} \union Consumers
       \/ \E c \in Consumers : threads = {c} \union Producers
    /\ \A c \in Consumers \ threads : cons[c].at = "read tail"
    /\ ~late => QueueInv
    /\ late \in BOOLEAN
    /\ ~ManyConsumers => Apart /\ Seen

LEMMA SharedInitial == SharedInit => SharedInv
  <1> SUFFICES ASSUME SharedInit PROVE SharedInv
    OBVIOUS
  <1>1. QueueInv
    BY InitQueue DEF SharedInit
  <1>2. \A c \in Consumers : cons[c].at = "read tail"
    BY DEF SharedInit, Init, IdleConsumer
  <1>3. Seen
    BY <1>2 DEF Seen
  <1> QED BY <1>1, <1>2, <1>3 DEF SharedInit, SharedInv, QueueInv

LEMMA SharedStep == SharedInv /\ [SharedNext]_sharedVars => SharedInv'
  <1> SUFFICES ASSUME SharedInv, [SharedNext]_sharedVars PROVE SharedInv'
    OBVIOUS
  <1>1. CASE UNCHANGED sharedVars
    <2>1. UNCHANGED vars /\ UNCHANGED <<threads, late, cons, prod, queue, hasData>>
      BY <1>1 DEF sharedVars, vars
    <2>2. TypeOK' /\ (ManyConsumers' <=> ManyConsumers)
      BY <2>1, NextTypes DEF SharedInv, ManyConsumers
    <2>3. ~late' => QueueInv'
      BY <2>1, NextQueue DEF SharedInv
    <2>4. Apart /\ Seen => Apart' /\ Seen'
      <3>1. /\ \A p \in Producers : Holding(p)' <=> Holding(p)
            /\ \A c \in Consumers : Taking(c)' <=> Taking(c)
            /\ \A i \in Places : Published(i)' <=> Published(i)
        BY <2>1 DEF Holding, Taking, Published, ClearingAt
      <3>2. Apart => Apart'
        BY <2>1, <3>1 DEF Apart
      <3>3. Seen => Seen'
        BY <2>1 DEF Seen
      <3> QED BY <3>2, <3>3
    <2> QED BY <2>1, <2>2, <2>3, <2>4 DEF SharedInv
  <1>2. CASE SharedNext
    <2>1. /\ Next /\ UNCHANGED threads
          /\ \A c \in Consumers \ threads : cons'[c] = cons[c]
          /\ late' = (late \/ ~Punctual)
      BY <1>2 DEF SharedNext
    <2>2. TypeOK' /\ (ManyConsumers' <=> ManyConsumers)
      BY <2>1, NextTypes DEF SharedInv, ManyConsumers
    <2>3. ~late' => QueueInv'
      BY <2>1, NextQueue DEF SharedInv, PunctualNext
    <2>4. late' \in BOOLEAN
      BY <2>1
    <2>5. ASSUME ~ManyConsumers PROVE Apart' /\ Seen'
      <3>1. PICK c \in Consumers : threads = {c} \union Producers
        BY <2>5 DEF SharedInv, ManyConsumers
      <3>2. \A d \in Consumers : d # c => d \in Consumers \ threads
        BY <3>1, SharedAssumption
      <3>3. \A d \in Consumers : d # c => cons[d].at = "read tail" /\ cons'[d] = cons[d]
        BY <2>1, <3>2 DEF SharedInv
      <3>4. TypeOK /\ Apart /\ Seen
        BY <2>5 DEF SharedInv
      <3>5. CASE \E p \in Producers : (\E m \in Messages : Enqueue(p, m)) \/ ProducerStep(p) \/ GiveUp(p)
        BY <3>4, <3>5, LateProducer
      <3>6. ASSUME NEW d \in Consumers, ConsumerStep(d) PROVE Apart' /\ Seen'
        <4>1. CASE d = c
          BY <3>3, <3>4, <3>6, <4>1, LateConsumer
        <4>2. CASE d # c
          <5>1. cons[d].at = "read tail" /\ cons'[d] = cons[d]
            BY <3>3, <4>2
          <5>2. ReadTail(d)
            BY <3>6, <5>1 DEF ConsumerStep, CheckEmpty, ReadPlace, Claim, ClaimLost, ClearPlace,
                              TakeMessage, FreeSlot
          <5>3. cons'[d].at = "check empty"
            BY <3>4, <5>2 DEF ReadTail, TypeOK
          <5> QED BY <5>1, <5>3
        <4> QED BY <4>1, <4>2
      <3> QED BY <2>1, <3>5, <3>6 DEF Next
    <2> QED BY <2>1, <2>2, <2>3, <2>4, <2>5 DEF SharedInv
  <1> QED BY <1>1, <1>2

\* With several threads at one end and one at the other, no message is
\* overwritten, read by two threads, freed while it is in use or forgotten in
\* its slot while nobody is late; and late producers still never make two
\* threads share a slot, however many they are and however long the queue is.
THEOREM SlotsStayApart == SharedSpec => []SlotsHaveOneOwner
  <1>1. SharedInv => SlotsHaveOneOwner
    <2> SUFFICES ASSUME SharedInv PROVE SlotsHaveOneOwner
      OBVIOUS
    <2>1. ~late => OneOwnerPerSlot
      BY PunctualOwners DEF SharedInv
    <2>2. ASSUME ~ManyConsumers, NEW s \in Places
          PROVE  OwnerCount(s) = 0 \/ (OwnerCount(s) = 1 /\ hasData[s])
      BY <2>2, CountedOwners DEF SharedInv
    <2> QED BY <2>1, <2>2 DEF SlotsHaveOneOwner
  <1> QED
    BY <1>1, SharedInitial, SharedStep, PTL DEF SharedSpec

-----------------------------------------------------------------------------
(* The queue implements AbstractQueue *)

LEMMA ModOnce ==
    ASSUME NEW x \in Nat, x < Length + Length
    PROVE  x % Length = IF x < Length THEN x ELSE x - Length
  BY QueueAssumption

\* Where the k-th message is, and what a step of m_Head or m_Tail does to it.
LEMMA Positions ==
    ASSUME TypeOK
    PROVE  /\ Size \in Nat /\ Size < Length
           /\ Size = 0 <=> tail = head
           /\ \A k \in 1 .. Size : /\ (tail + k - 1) % Length \in Places
                                   /\ Pending((tail + k - 1) % Length)
           /\ tail # head => (tail + 1 - 1) % Length = tail
           /\ (tail + Size) % Length = head
           /\ Next1(head) # tail => Size < Length - 1
           /\ \A k \in 1 .. Size : (Next1(tail) + k - 1) % Length = (tail + k) % Length
  <1>1. /\ Length \in Nat /\ Length > 1
        /\ tail \in Nat /\ tail < Length /\ head \in Nat /\ head < Length
    BY QueueAssumption DEF TypeOK, Places
  <1>2. Size \in Nat /\ Size < Length /\ (Size = 0 <=> tail = head)
    BY <1>1 DEF Size
  <1>3. \A k \in 0 .. Size : (tail + k) % Length = IF tail + k < Length THEN tail + k ELSE tail + k - Length
    BY <1>1, <1>2, ModOnce
  <1>4. ASSUME NEW k \in 1 .. Size
        PROVE  /\ (tail + k - 1) % Length \in Places
               /\ Pending((tail + k - 1) % Length)
    <2>1. k - 1 \in 0 .. Size /\ tail + k - 1 = tail + (k - 1)
      BY <1>1, <1>2
    <2>2. (tail + k - 1) % Length = IF tail + (k - 1) < Length THEN tail + (k - 1) ELSE tail + (k - 1) - Length
      BY <1>3, <2>1
    <2> DEFINE i == (tail + k - 1) % Length
    <2> HIDE DEF i
    <2>3. i = IF tail + (k - 1) < Length THEN tail + (k - 1) ELSE tail + (k - 1) - Length
      BY <2>2 DEF i
    <2>4. i \in Places /\ Pending(i)
      BY <1>1, <1>2, <2>1, <2>3 DEF Pending, Places, Size
    <2> QED BY <2>4 DEF i
  <1>5. tail # head => (tail + 1 - 1) % Length = tail
    <2>1. tail + 1 - 1 = tail + 0
      BY <1>1
    <2> QED BY <1>1, <1>2, <1>3, <2>1
  <1>6. (tail + Size) % Length = head
    <2>1. (tail + Size) % Length = IF tail + Size < Length THEN tail + Size ELSE tail + Size - Length
      BY <1>2, <1>3
    <2> QED BY <1>1, <2>1 DEF Size
  <1>7. Next1(head) # tail => Size < Length - 1
    <2>1. Next1(head) = IF head = Length - 1 THEN 0 ELSE head + 1
      BY Next1IsCircular DEF TypeOK
    <2> QED BY <1>1, <2>1 DEF Size
  <1>8. ASSUME NEW k \in 1 .. Size
        PROVE  (Next1(tail) + k - 1) % Length = (tail + k) % Length
    <2>1. Next1(tail) = IF tail = Length - 1 THEN 0 ELSE tail + 1
      BY Next1IsCircular DEF TypeOK
    <2>2. (tail + k) % Length = IF tail + k < Length THEN tail + k ELSE tail + k - Length
      BY <1>2, <1>3
    <2>3. CASE tail = Length - 1
      <3>1. Next1(tail) + k - 1 \in Nat /\ Next1(tail) + k - 1 = k - 1 /\ k - 1 < Length
        BY <1>1, <1>2, <2>1, <2>3
      <3>2. (k - 1) % Length = k - 1
        BY <1>1, <3>1, ModOnce
      <3> QED BY <1>1, <1>2, <2>2, <2>3, <3>1, <3>2
    <2>4. CASE tail # Length - 1
      <3>1. Next1(tail) + k - 1 = tail + k
        BY <1>1, <2>1, <2>4
      <3> QED BY <3>1
    <2> QED BY <2>3, <2>4
  <1> QED BY <1>2, <1>4, <1>5, <1>6, <1>7, <1>8

\* The places from m_Tail to m_Head belong to nobody else.
LEMMA PendingArePublished ==
    ASSUME QueueInv, NEW i \in Places, Pending(i)
    PROVE  Published(i) /\ queue[i] \in Places /\ storage[queue[i]] \in Messages
  <1>1. Published(i)
    BY DEF QueueInv, RingInv, Published
  <1> QED BY <1>1 DEF QueueInv, MessagesInPlace, TypeOK, Published

ItemsInOrder ==
    /\ Items \in Seq(Messages)
    /\ Len(Items) = Size
    /\ \A k \in 1 .. Size : Items[k] = storage[queue[(tail + k - 1) % Length]]

LEMMA ItemsAreMessages == QueueInv => ItemsInOrder
  <1> SUFFICES ASSUME QueueInv PROVE ItemsInOrder
    OBVIOUS
  <1>1. /\ Size \in Nat
        /\ \A k \in 1 .. Size : /\ (tail + k - 1) % Length \in Places
                                /\ Pending((tail + k - 1) % Length)
    BY Positions DEF QueueInv
  <1>2. \A k \in 1 .. Size : storage[queue[(tail + k - 1) % Length]] \in Messages
    BY <1>1, PendingArePublished
  <1>3. Items \in [1 .. Size -> Messages]
    BY <1>2 DEF Items
  <1>4. Items \in Seq(Messages)
    BY <1>1, <1>3, SeqDef
  <1>5. Len(Items) = Size
    BY <1>1, <1>3, <1>4, LenProperties
  <1> QED BY <1>4, <1>5 DEF Items, ItemsInOrder

\* What waits in the ring is not disturbed by a step that leaves its ends and
\* the storage behind its places alone.
LEMMA SameItems ==
    ASSUME QueueInv, UNCHANGED <<tail, head>>,
           \A i \in Places : Pending(i) =>
              queue'[i] = queue[i] /\ storage'[queue[i]] = storage[queue[i]]
    PROVE  Items' = Items
  <1>1. Size' = Size
    BY DEF Size
  <1>2. \A k \in 1 .. Size : storage'[queue'[(tail' + k - 1) % Length]]
                                = storage[queue[(tail + k - 1) % Length]]
    BY Positions DEF QueueInv
  <1> QED BY <1>1, <1>2 DEF Items

LEMMA QueueInitial == Init => Abstract!AbstractInit
  <1> SUFFICES ASSUME Init PROVE Abstract!AbstractInit
    OBVIOUS
  <1>1. /\ \A p \in Producers : prod[p].at = "idle" /\ prod[p].msg = NoMessage
        /\ \A c \in Consumers : ~Taking(c)
        /\ tail = 0 /\ head = 0
    <2>1. IdleProducer.at = "idle" /\ IdleProducer.msg = NoMessage /\ IdleConsumer.at = "read tail"
      BY DEF IdleProducer, IdleConsumer
    <2> QED BY <2>1 DEF Init, Taking
  <1>2. Items = <<>>
    <2>1. QueueInv /\ Size = 0
      BY <1>1, InitQueue DEF Size
    <2>2. Items \in Seq(Messages) /\ Len(Items) = 0
      BY <2>1, ItemsAreMessages DEF ItemsInOrder
    <2> QED BY <2>2, EmptySeq, SeqEqual
  <1> QED BY <1>1, <1>2 DEF Abstract!AbstractInit

\* A step that is none of the queue's: the ends of the ring stay, and so does
\* what anybody waits for or holds.
LEMMA QuietStep ==
    ASSUME QueueInv, UNCHANGED <<tail, head>>,
           \A i \in Places : Pending(i) =>
              queue'[i] = queue[i] /\ storage'[queue[i]] = storage[queue[i]],
           \A p \in Producers : /\ prod'[p].msg = prod[p].msg
                                /\ (prod'[p].at = "refused") <=> (prod[p].at = "refused"),
           \A c \in Consumers : /\ Taking(c)' <=> Taking(c)
                                /\ Taking(c) => storage'[cons'[c].val] = storage[cons[c].val]
    PROVE  UNCHANGED Abstract!abstractVars
  <1>1. Items' = Items
    BY SameItems
  <1> QED BY <1>1 DEF Abstract!abstractVars

\* Nobody looks into a slot before the producer that has allocated it.
LEMMA StorageOfOthers ==
    ASSUME QueueInv, NEW p \in Producers,
           Holding(p) \/ ~hasData[prod[p].slot],
           \A t \in Places : t # prod[p].slot => storage'[t] = storage[t]
    PROVE  /\ \A i \in Places : Pending(i) => storage'[queue[i]] = storage[queue[i]]
           /\ \A c \in Consumers : Taking(c) => storage'[cons[c].val] = storage[cons[c].val]
  <1>1. ASSUME NEW i \in Places, Pending(i)
        PROVE  storage'[queue[i]] = storage[queue[i]]
    <2>1. Published(i) /\ queue[i] \in Places
      BY <1>1, PendingArePublished
    <2>2. queue[i] # prod[p].slot
      BY <2>1 DEF QueueInv, Apart
    <2> QED BY <2>1, <2>2
  <1>2. ASSUME NEW c \in Consumers, Taking(c)
        PROVE  storage'[cons[c].val] = storage[cons[c].val]
    <2>1. cons[c].val \in Places /\ cons[c].val # Empty
      BY <1>2, RecordTypes DEF QueueInv, RingInv
    <2>2. cons[c].val # prod[p].slot
      BY <1>2, <2>1 DEF QueueInv, Apart
    <2> QED BY <2>1, <2>2
  <1> QED BY <1>1, <1>2

LEMMA ProducerImplements ==
    ASSUME QueueInv, NEW p \in Producers, ProducerStep(p) \/ GiveUp(p),
           PlaceIndex(p) => InOrderPlace(p)
    PROVE  [Abstract!AbstractNext]_(Abstract!abstractVars)
  <1>1. /\ prod \in [Producers -> [at : ProducerSteps, msg : Messages \union {NoMessage},
                                   slot : Places, idx : Places]]
        /\ queue \in [Places -> Places \union {Empty}]
        /\ storage \in [Places -> Messages \union {NoMessage}]
        /\ hasData \in [Places -> BOOLEAN]
        /\ prod[p].slot \in Places /\ head \in Places /\ tail \in Places
        /\ \A q \in Producers : (prod[q].msg = NoMessage) <=> (prod[q].at = "idle")
        /\ NoMessage \notin Messages
    BY QueueAssumption DEF QueueInv, TypeOK, MessagesInPlace
  <1>2. /\ \A q \in Producers : q # p => prod'[q] = prod[q]
        /\ UNCHANGED cons
    BY <1>1 DEF ProducerStep, GiveUp, AllocateSlot, SkipSlot, Construct, ReadHead, CheckFull,
          PlaceIndex, PlaceTaken, RereadHead, AdvanceHead, HeadMoved, ReleaseSlot, Retry, Step
  <1>3. \A c \in Consumers : Taking(c)' <=> Taking(c)
    BY <1>2 DEF Taking
  <1>4. CASE AllocateSlot(p) \/ Construct(p)
    <2>1. /\ Holding(p) \/ ~hasData[prod[p].slot]
          /\ \A t \in Places : t # prod[p].slot => storage'[t] = storage[t]
          /\ prod'[p].msg = prod[p].msg /\ prod'[p].at # "refused" /\ prod[p].at # "refused"
          /\ UNCHANGED <<tail, head, queue>>
      <3>1. CASE AllocateSlot(p)
        BY <1>1, <3>1 DEF AllocateSlot, Step, Allocatable
      <3>2. CASE Construct(p)
        BY <1>1, <3>2 DEF Construct, Step, Holding
      <3> QED BY <1>4, <3>1, <3>2
    <2>2. \A q \in Producers : /\ prod'[q].msg = prod[q].msg
                               /\ (prod'[q].at = "refused") <=> (prod[q].at = "refused")
      BY <1>2, <2>1
    <2> QED BY <1>2, <1>3, <2>1, <2>2, StorageOfOthers, QuietStep
  <1>5. CASE PlaceIndex(p)
    <2>1. /\ prod'[p].msg = prod[p].msg /\ prod'[p].at # "refused" /\ prod[p].at # "refused"
          /\ \A i \in Places : i # head => queue'[i] = queue[i]
          /\ UNCHANGED <<tail, head, storage>>
      BY <1>1, <1>5 DEF PlaceIndex, Step, InOrderPlace
    <2>2. ~Pending(head)
      BY <1>1 DEF Pending, Places
    <2>3. \A q \in Producers : /\ prod'[q].msg = prod[q].msg
                               /\ (prod'[q].at = "refused") <=> (prod[q].at = "refused")
      BY <1>2, <2>1
    <2> QED BY <1>2, <1>3, <2>1, <2>2, <2>3, QuietStep
  <1>6. CASE ReadHead(p) \/ CheckFull(p) \/ PlaceTaken(p) \/ RereadHead(p) \/ HeadMoved(p)
    <2>1. /\ prod'[p].msg = prod[p].msg /\ prod'[p].at # "refused" /\ prod[p].at # "refused"
          /\ UNCHANGED memory
      <3>1. CASE ReadHead(p) \/ RereadHead(p)
        BY <1>1, <3>1 DEF ReadHead, RereadHead
      <3>2. CASE CheckFull(p)
        BY <1>1, <3>2 DEF CheckFull, Step
      <3>3. CASE PlaceTaken(p) \/ HeadMoved(p)
        BY <1>1, <3>3 DEF PlaceTaken, HeadMoved, Step
      <3> QED BY <1>6, <3>1, <3>2, <3>3
    <2>2. \A q \in Producers : /\ prod'[q].msg = prod[q].msg
                               /\ (prod'[q].at = "refused") <=> (prod[q].at = "refused")
      BY <1>2, <2>1
    <2>3. UNCHANGED <<tail, head, queue, storage>>
      BY <2>1 DEF memory
    <2> QED BY <1>2, <1>3, <2>2, <2>3, QuietStep
  <1>7. CASE SkipSlot(p) /\ prod'[p].at # "refused"
    <2>1. /\ prod'[p].msg = prod[p].msg /\ prod[p].at # "refused"
          /\ UNCHANGED memory
      BY <1>1, <1>7 DEF SkipSlot
    <2>2. \A q \in Producers : /\ prod'[q].msg = prod[q].msg
                               /\ (prod'[q].at = "refused") <=> (prod[q].at = "refused")
      BY <1>2, <1>7, <2>1
    <2>3. UNCHANGED <<tail, head, queue, storage>>
      BY <2>1 DEF memory
    <2> QED BY <1>2, <1>3, <2>2, <2>3, QuietStep
  <1>8. CASE (SkipSlot(p) /\ prod'[p].at = "refused") \/ ReleaseSlot(p)
    <2>1. /\ prod'[p].msg = prod[p].msg /\ prod[p].at # "refused" /\ prod[p].at # "idle"
          /\ prod'[p].at = "refused"
          /\ UNCHANGED <<tail, head, queue, storage>>
      <3>1. CASE SkipSlot(p)
        BY <1>1, <1>8, <3>1 DEF SkipSlot, memory, ReleaseSlot
      <3>2. CASE ReleaseSlot(p)
        BY <1>1, <3>2 DEF ReleaseSlot, IdleProducer
      <3> QED BY <1>8, <3>1, <3>2
    <2>2. Items' = Items
      BY <2>1, SameItems
    <2>3. Abstract!Refuse(p)
      BY <1>1, <1>2, <1>3, <2>1, <2>2 DEF Abstract!Refuse
    <2> QED BY <2>3 DEF Abstract!AbstractNext
  <1>9. CASE Retry(p)
    <2>1. /\ prod'[p].msg = prod[p].msg /\ prod[p].at = "refused" /\ prod'[p].at # "refused"
          /\ UNCHANGED <<tail, head, queue, storage>>
      BY <1>1, <1>9 DEF Retry, Step, memory
    <2>2. Items' = Items
      BY <2>1, SameItems
    <2>3. Abstract!TryAgain(p)
      BY <1>1, <1>2, <1>3, <2>1, <2>2 DEF Abstract!TryAgain
    <2> QED BY <2>3 DEF Abstract!AbstractNext
  <1>10. CASE GiveUp(p)
    <2>1. /\ prod'[p] = IdleProducer /\ prod[p].at = "refused"
          /\ UNCHANGED <<tail, head, queue, storage>>
      BY <1>1, <1>10 DEF GiveUp, memory
    <2>2. prod'[p].msg = NoMessage /\ prod'[p].at = "idle"
      BY <2>1 DEF IdleProducer
    <2>3. Items' = Items
      BY <2>1, SameItems
    <2>4. Abstract!Drop(p)
      BY <1>1, <1>2, <1>3, <2>1, <2>2, <2>3 DEF Abstract!Drop
    <2> QED BY <2>4 DEF Abstract!AbstractNext
  <1>11. CASE AdvanceHead(p)
    <2>1. /\ prod'[p] = IdleProducer /\ prod[p].at = "advance" /\ head' = Next1(head)
          /\ UNCHANGED <<tail, queue, storage>>
      BY <1>1, <1>11 DEF AdvanceHead
    <2>2. prod'[p].msg = NoMessage /\ prod'[p].at = "idle"
      BY <2>1 DEF IdleProducer
    <2>3. /\ queue[head] = prod[p].slot /\ Next1(head) # tail
          /\ storage[queue[head]] = prod[p].msg /\ prod[p].msg \in Messages
      <3>1. queue[head] = prod[p].slot /\ Next1(head) # tail
        BY <2>1 DEF QueueInv, RingInv, Placed
      <3>2. storage[prod[p].slot] = prod[p].msg
        BY <2>1 DEF QueueInv, MessagesInPlace
      <3>3. prod[p].msg # NoMessage /\ prod[p].msg \in Messages \union {NoMessage}
        BY <1>1, <2>1
      <3> QED BY <3>1, <3>2, <3>3
    <2>4. Size \in Nat /\ Size < Length - 1 /\ (tail + Size) % Length = head
      BY <2>3, Positions DEF QueueInv
    <2>5. Items' = Append(Items, prod[p].msg)
      <3>1. Items \in Seq(Messages) /\ Len(Items) = Size
            /\ \A k \in 1 .. Size : Items[k] = storage[queue[(tail + k - 1) % Length]]
        BY ItemsAreMessages DEF ItemsInOrder
      <3>2. QueueInv'
        BY <1>1, <1>11, AdvanceKeeps, NextTypes DEF QueueInv, Next, ProducerStep, RingInv
      <3>3. /\ Items' \in Seq(Messages) /\ Len(Items') = Size'
            /\ \A k \in 1 .. Size' : Items'[k] = storage[queue[(tail + k - 1) % Length]]
        <4>1. (QueueInv => ItemsInOrder)'
          BY ItemsAreMessages, PTL
        <4> QED BY <2>1, <3>2, <4>1 DEF ItemsInOrder
      <3>4. Size' = Size + 1
        <4>1. Next1(head) = IF head = Length - 1 THEN 0 ELSE head + 1
          BY <1>1, Next1IsCircular
        <4> QED BY <1>1, <2>1, <2>3, <4>1, QueueAssumption DEF Size, Places
      <3>5. /\ Append(Items, prod[p].msg) \in Seq(Messages)
            /\ Len(Append(Items, prod[p].msg)) = Size + 1
            /\ \A k \in 1 .. Size : Append(Items, prod[p].msg)[k] = Items[k]
            /\ Append(Items, prod[p].msg)[Size + 1] = prod[p].msg
        BY <2>3, <3>1, AppendProperties
      <3>6. Items'[Size + 1] = prod[p].msg
        <4>1. tail + (Size + 1) - 1 = tail + Size /\ Size + 1 \in 1 .. Size'
          BY <1>1, <2>4, <3>4 DEF Places
        <4> QED BY <2>3, <2>4, <3>3, <4>1
      <3>7. \A k \in 1 .. Size + 1 : Items'[k] = Append(Items, prod[p].msg)[k]
        BY <2>4, <3>1, <3>3, <3>4, <3>5, <3>6
      <3> QED BY <3>3, <3>4, <3>5, <3>7, SeqEqual
    <2>6. Len(Items) = Size
      BY ItemsAreMessages DEF ItemsInOrder
    <2>7. Abstract!Accept(p)
      <3>1. [q \in Producers |-> prod'[q].msg] = [[q \in Producers |-> prod[q].msg] EXCEPT ![p] = NoMessage]
        BY <1>2, <2>2
      <3>2. {q \in Producers : prod'[q].at = "refused"} = {q \in Producers : prod[q].at = "refused"}
        BY <1>2, <2>1, <2>2
      <3>3. [c \in Consumers |-> IF Taking(c) THEN storage[cons[c].val] ELSE NoMessage]'
              = [c \in Consumers |-> IF Taking(c) THEN storage[cons[c].val] ELSE NoMessage]
        BY <1>2, <1>3, <2>1
      <3> QED BY <1>1, <2>1, <2>4, <2>5, <2>6, <3>1, <3>2, <3>3 DEF Abstract!Accept
    <2> QED BY <2>7 DEF Abstract!AbstractNext
  <1> QED BY <1>4, <1>5, <1>6, <1>7, <1>8, <1>9, <1>10, <1>11 DEF ProducerStep

LEMMA ConsumerImplements ==
    ASSUME QueueInv, NEW c \in Consumers, ConsumerStep(c), Claim(c) => FreshClaim(c)
    PROVE  [Abstract!AbstractNext]_(Abstract!abstractVars)
  <1>1. /\ cons \in [Consumers -> [at : ConsumerSteps, idx : Places, val : Places \union {Empty}]]
        /\ queue \in [Places -> Places \union {Empty}]
        /\ tail \in Places /\ head \in Places
        /\ NoMessage \notin Messages
    BY QueueAssumption DEF QueueInv, TypeOK
  <1>2. /\ \A d \in Consumers : d # c => cons'[d] = cons[d]
        /\ UNCHANGED <<prod, storage>>
    BY <1>1 DEF ConsumerStep, ReadTail, CheckEmpty, ReadPlace, Claim, ClaimLost, ClearPlace,
                TakeMessage, FreeSlot, memory
  <1>3. /\ \A d \in Consumers : d # c => (Taking(d)' <=> Taking(d))
        /\ \A d \in Consumers : Taking(d) => storage[cons[d].val] \in Messages
    BY <1>2 DEF Taking, QueueInv, MessagesInPlace
  <1>4. IdleConsumer.at = "read tail"
    BY DEF IdleConsumer
  <1>5. CASE Claim(c)
    <2>1. /\ cons[c].at = "claim" /\ cons'[c].at = "clear" /\ cons'[c].val = queue[tail]
          /\ tail' = Next1(tail) /\ tail # head
          /\ UNCHANGED <<head, queue>>
      BY <1>1, <1>5 DEF Claim, FreshClaim
    <2>2. ~Taking(c) /\ Taking(c)'
      BY <2>1 DEF Taking
    <2>3. /\ Size \in Nat /\ Size # 0 /\ (tail + 1 - 1) % Length = tail
          /\ \A k \in 1 .. Size : (Next1(tail) + k - 1) % Length = (tail + k) % Length
      BY <2>1, Positions DEF QueueInv
    <2>4. /\ Items \in Seq(Messages) /\ Len(Items) = Size
          /\ \A k \in 1 .. Size : Items[k] = storage[queue[(tail + k - 1) % Length]]
      BY ItemsAreMessages DEF ItemsInOrder
    <2>5. Items # <<>> /\ Head(Items) = storage[queue[tail]]
      <3>1. Items # <<>>
        BY <2>3, <2>4, EmptySeq
      <3>2. Items[1] = storage[queue[tail]]
        BY <2>3, <2>4
      <3> QED BY <2>4, <3>1, <3>2
    <2>6. Items' = Tail(Items)
      <3>1. QueueInv'
        BY <1>1, <1>5, ClaimKeeps, NextTypes DEF QueueInv, Next, ConsumerStep, RingInv
      <3>2. /\ Items' \in Seq(Messages) /\ Len(Items') = Size'
            /\ \A k \in 1 .. Size' : Items'[k] = storage[queue[(Next1(tail) + k - 1) % Length]]
        <4>1. (QueueInv => ItemsInOrder)'
          BY ItemsAreMessages, PTL
        <4> QED BY <1>2, <2>1, <3>1, <4>1 DEF ItemsInOrder
      <3>3. Size' = Size - 1
        <4>1. Next1(tail) = IF tail = Length - 1 THEN 0 ELSE tail + 1
          BY <1>1, Next1IsCircular
        <4>2. /\ Length \in Nat /\ Length > 1
              /\ tail \in Nat /\ tail < Length /\ head \in Nat /\ head < Length
          BY <1>1, QueueAssumption DEF Places
        <4>3. tail' = (IF tail = Length - 1 THEN 0 ELSE tail + 1) /\ head' = head /\ tail # head
          BY <2>1, <4>1
        <4> QED BY <4>2, <4>3 DEF Size
      <3>4. /\ Tail(Items) \in Seq(Messages) /\ Len(Tail(Items)) = Size - 1
            /\ \A k \in 1 .. Size - 1 : Tail(Items)[k] = Items[k + 1]
        BY <2>4, <2>5, HeadTailProperties
      <3>5. ASSUME NEW k \in 1 .. Size - 1 PROVE Items'[k] = Tail(Items)[k]
        <4>1. k \in 1 .. Size /\ k + 1 \in 1 .. Size /\ tail + (k + 1) - 1 = tail + k
          BY <1>1, <2>3 DEF Places
        <4>2. Items'[k] = storage[queue[(tail + k) % Length]]
          BY <2>3, <3>2, <3>3, <4>1
        <4>3. Items[k + 1] = storage[queue[(tail + k) % Length]]
          BY <2>4, <4>1
        <4> QED BY <3>4, <4>2, <4>3
      <3> QED BY <2>3, <3>2, <3>3, <3>4, <3>5, SeqEqual
    <2>7. Abstract!Take(c)
      <3>1. [d \in Consumers |-> IF Taking(d) THEN storage[cons[d].val] ELSE NoMessage]'
              = [[d \in Consumers |-> IF Taking(d) THEN storage[cons[d].val] ELSE NoMessage]
                    EXCEPT ![c] = Head(Items)]
        BY <1>2, <1>3, <2>1, <2>2, <2>5
      <3> QED BY <1>2, <2>2, <2>5, <2>6, <3>1 DEF Abstract!Take
    <2> QED BY <2>7 DEF Abstract!AbstractNext
  <1>6. CASE FreeSlot(c)
    <2>1. /\ cons[c].at = "free" /\ cons'[c].at = "read tail"
          /\ UNCHANGED <<tail, head, queue>>
      BY <1>1, <1>4, <1>6 DEF FreeSlot
    <2>2. Taking(c) /\ ~Taking(c)'
      BY <2>1 DEF Taking
    <2>3. Items' = Items
      BY <1>2, <2>1, SameItems
    <2>4. Abstract!Return(c)
      <3>1. [d \in Consumers |-> IF Taking(d) THEN storage[cons[d].val] ELSE NoMessage]'
              = [[d \in Consumers |-> IF Taking(d) THEN storage[cons[d].val] ELSE NoMessage]
                    EXCEPT ![c] = NoMessage]
        BY <1>2, <1>3, <2>1, <2>2
      <3> QED BY <1>1, <1>2, <1>3, <2>2, <2>3, <3>1 DEF Abstract!Return
    <2> QED BY <2>4 DEF Abstract!AbstractNext
  <1>7. CASE ClearPlace(c)
    <2> DEFINE k == cons[c].idx
    <2>1. /\ cons[c].at = "clear" /\ cons'[c].at = "take" /\ cons'[c].val = cons[c].val
          /\ \A i \in Places : i # k => queue'[i] = queue[i]
          /\ UNCHANGED <<tail, head>>
          /\ k \in Places
      BY <1>1, <1>7 DEF ClearPlace
    <2>2. ~Pending(k)
      <3>1. ClearingAt(c, k)
        BY <2>1 DEF ClearingAt
      <3> QED BY <2>1, <3>1 DEF QueueInv, RingInv
    <2>3. \A d \in Consumers : (Taking(d)' <=> Taking(d)) /\ cons'[d].val = cons[d].val
      BY <1>2, <1>3, <2>1 DEF Taking
    <2> QED BY <1>2, <2>1, <2>2, <2>3, QuietStep
  <1>8. CASE ReadTail(c) \/ CheckEmpty(c) \/ ReadPlace(c) \/ ClaimLost(c) \/ TakeMessage(c)
    <2>1. UNCHANGED memory
      BY <1>8 DEF ReadTail, CheckEmpty, ReadPlace, ClaimLost, TakeMessage
    <2>2. UNCHANGED <<tail, head, queue>>
      BY <2>1 DEF memory
    <2>3. (Taking(c)' <=> Taking(c)) /\ (Taking(c) => cons'[c].val = cons[c].val)
      <3>1. CASE ReadTail(c)
        BY <1>1, <3>1 DEF ReadTail, Taking
      <3>2. CASE CheckEmpty(c)
        BY <1>1, <1>4, <3>2 DEF CheckEmpty, Taking
      <3>3. CASE ReadPlace(c)
        BY <1>1, <3>3 DEF ReadPlace, Taking
      <3>4. CASE ClaimLost(c)
        BY <1>1, <1>4, <3>4 DEF ClaimLost, Taking
      <3>5. CASE TakeMessage(c)
        BY <1>1, <3>5 DEF TakeMessage, Taking
      <3> QED BY <1>8, <3>1, <3>2, <3>3, <3>4, <3>5
    <2>4. \A d \in Consumers : (Taking(d)' <=> Taking(d)) /\ (Taking(d) => cons'[d].val = cons[d].val)
      BY <1>2, <1>3, <2>3
    <2> QED BY <1>2, <2>2, <2>4, QuietStep
  <1> QED BY <1>5, <1>6, <1>7, <1>8 DEF ConsumerStep

LEMMA CallImplements ==
    ASSUME QueueInv, NEW p \in Producers, NEW m \in Messages, Enqueue(p, m)
    PROVE  [Abstract!AbstractNext]_(Abstract!abstractVars)
  <1>1. /\ prod \in [Producers -> [at : ProducerSteps, msg : Messages \union {NoMessage},
                                   slot : Places, idx : Places]]
        /\ prod[p].at = "idle" /\ prod[p].msg = NoMessage
        /\ prod' = [prod EXCEPT ![p] = [IdleProducer EXCEPT !.at = "allocate", !.msg = m]]
        /\ UNCHANGED <<tail, head, queue, storage, cons>>
    BY DEF QueueInv, TypeOK, MessagesInPlace, Enqueue, memory
  <1>2. /\ prod'[p].at = "allocate" /\ prod'[p].msg = m
        /\ \A q \in Producers : q # p => prod'[q] = prod[q]
    BY <1>1 DEF IdleProducer
  <1>3. Items' = Items
    BY <1>1, SameItems
  <1>4. \A c \in Consumers : Taking(c)' <=> Taking(c)
    BY <1>1 DEF Taking
  <1>5. Abstract!Call(p, m)
    <2>1. [q \in Producers |-> prod'[q].msg] = [[q \in Producers |-> prod[q].msg] EXCEPT ![p] = m]
      BY <1>2
    <2>2. {q \in Producers : prod'[q].at = "refused"} = {q \in Producers : prod[q].at = "refused"}
      BY <1>1, <1>2
    <2>3. [c \in Consumers |-> IF Taking(c) THEN storage[cons[c].val] ELSE NoMessage]'
            = [c \in Consumers |-> IF Taking(c) THEN storage[cons[c].val] ELSE NoMessage]
      BY <1>1, <1>4
    <2> QED BY <1>1, <1>3, <2>1, <2>2, <2>3 DEF Abstract!Call
  <1> QED BY <1>5 DEF Abstract!AbstractNext

LEMMA StepImplements ==
    QueueInv /\ [PunctualNext]_vars => [Abstract!AbstractNext]_(Abstract!abstractVars)
  <1> SUFFICES ASSUME QueueInv, [PunctualNext]_vars
               PROVE  [Abstract!AbstractNext]_(Abstract!abstractVars)
    OBVIOUS
  <1>1. CASE UNCHANGED vars
    <2>1. UNCHANGED <<tail, head, queue, storage, prod, cons>>
      BY <1>1 DEF vars
    <2>2. \A c \in Consumers : Taking(c)' <=> Taking(c)
      BY <2>1 DEF Taking
    <2> QED BY <2>1, <2>2, QuietStep
  <1>2. CASE PunctualNext
    BY <1>2, CallImplements, ProducerImplements, ConsumerImplements
       DEF PunctualNext, Punctual, Next
  <1> QED BY <1>1, <1>2

\* With several threads at one end and one at the other, Enqueue and TryDequeue
\* implement a bounded first-in first-out queue as long as nobody is late: for
\* any number of threads and any length, no message is lost, doubled or
\* overtaken, and at most Length - 1 wait.
THEOREM QueueIsImplemented == SharedSpec => ImplementsQueue
  <1>1. SharedInit => Abstract!AbstractInit
    BY QueueInitial DEF SharedInit
  <1>2. SharedInv /\ [SharedNext]_sharedVars =>
          [late' \/ Abstract!AbstractNext]_(Abstract!abstractVars)
    <2> SUFFICES ASSUME SharedInv, [SharedNext]_sharedVars, ~late'
                 PROVE  [Abstract!AbstractNext]_(Abstract!abstractVars)
      OBVIOUS
    <2>1. ~late /\ [PunctualNext]_vars
      <3>1. CASE SharedNext
        <4>1. Next /\ late' = (late \/ ~Punctual)
          BY <3>1 DEF SharedNext
        <4>2. ~late /\ Punctual
          BY <4>1
        <4> QED BY <4>1, <4>2 DEF PunctualNext
      <3>2. CASE UNCHANGED sharedVars
        BY <3>2 DEF sharedVars
      <3> QED BY <3>1, <3>2
    <2>2. QueueInv
      BY <2>1 DEF SharedInv
    <2> QED BY <2>1, <2>2, StepImplements
  <1> QED
    BY <1>1, <1>2, SharedInitial, SharedStep, PTL DEF SharedSpec, ImplementsQueue

\* Between one producer and one consumer, who are never late, it is that queue
\* without reservation.
THEOREM AloneIsAQueue == OneOfEach => (Spec => Abstract!AbstractSpec)
  <1> SUFFICES ASSUME OneOfEach PROVE Spec => Abstract!AbstractSpec
    OBVIOUS
  <1>1. AloneInv /\ QueueInv /\ [Next]_vars => (AloneInv /\ QueueInv)'
    BY NextAlone, StepPunctual, NextQueue
  <1>2. AloneInv /\ QueueInv /\ [Next]_vars => [Abstract!AbstractNext]_(Abstract!abstractVars)
    BY StepPunctual, StepImplements
  <1>3. Init => AloneInv /\ QueueInv /\ Abstract!AbstractInit
    BY InitAlone, InitQueue, QueueInitial
  <1> QED
    BY <1>1, <1>2, <1>3, PTL DEF Spec, Abstract!AbstractSpec

-----------------------------------------------------------------------------
(* Why a call is refused *)

\* While the producer owns no slot and the ring is not full, the places in use
\* and the slot that the consumer holds are less than all slots.
LEMMA SomeSlotIsFree ==
    ASSUME QueueInv, OneOfEach, ~IsFull,
           \A p \in Producers : ~Holding(p) /\ ~Placed(p)
    PROVE  \E s \in Places : ~hasData[s]
  <1> SUFFICES ASSUME \A s \in Places : hasData[s] PROVE FALSE
    OBVIOUS
  <1> DEFINE T == Places \ {Next1(head)}
             placed(s) == {i \in T : Published(i) /\ queue[i] = s}
             f == [s \in Places |-> IF placed(s) = {} THEN head ELSE CHOOSE i \in placed(s) : TRUE]
  <1>1. /\ Length \in Nat /\ Length > 1 /\ head \in Places /\ tail \in Places
        /\ Next1(head) = IF head = Length - 1 THEN 0 ELSE head + 1
        /\ Next1(head) \in Places
        /\ Next1(head) # tail
    BY QueueAssumption, Next1IsCircular, Next1Type DEF QueueInv, TypeOK, IsFull
  <1>2. head \in T /\ ~Pending(head) /\ ~Pending(Next1(head))
    <2>1. head # Next1(head)
      BY <1>1 DEF Places
    <2>2. ~Pending(head)
      BY <1>1 DEF Pending, Places
    <2> DEFINE n == Next1(head)
    <2> HIDE DEF n
    <2>3. n = (IF head = Length - 1 THEN 0 ELSE head + 1) /\ n # tail
      BY <1>1 DEF n
    <2>4. ~Pending(n)
      BY <1>1, <2>3 DEF Pending, Places
    <2> QED BY <1>1, <2>1, <2>2, <2>4 DEF n
  <1>3. \A i \in Places : Published(i) => Pending(i) /\ i \in T /\ i # head
    BY <1>2 DEF QueueInv, RingInv
  <1>4. ASSUME NEW s \in Places, placed(s) = {}
        PROVE  \E c \in Consumers : Taking(c) /\ cons[c].val = s
    BY <1>3, <1>4 DEF QueueInv, Kept
  <1>5. f \in [Places -> T]
    BY <1>2
  <1>6. /\ IsFiniteSet(Places) /\ Cardinality(Places) = Length
        /\ IsFiniteSet(T) /\ Cardinality(T) = Length - 1
    <2>1. IsFiniteSet(Places) /\ Cardinality(Places) = Length
      BY <1>1, FS_Interval DEF Places
    <2> QED BY <1>1, <2>1, FS_RemoveElement
  <1> HIDE DEF f, T
  <1>7. PICK x, y \in Places : x # y /\ f[x] = f[y]
    BY <1>1, <1>5, <1>6, FS_PigeonHole
  <1>8. \A s \in Places : IF placed(s) = {} THEN f[s] = head
                          ELSE f[s] # head /\ f[s] \in Places /\ queue[f[s]] = s
    <2>1. ASSUME NEW s \in Places, placed(s) # {}
          PROVE  f[s] # head /\ f[s] \in Places /\ queue[f[s]] = s
      <3>1. f[s] \in placed(s)
        BY <2>1 DEF f
      <3> QED BY <1>3, <3>1 DEF T
    <2> QED BY <2>1 DEF f
  <1>9. CASE placed(x) = {} /\ placed(y) = {}
    <2>1. PICK c, d \in Consumers : cons[c].val = x /\ cons[d].val = y
      BY <1>4, <1>9
    <2> QED BY <1>7, <2>1 DEF OneOfEach
  <1>10. CASE placed(x) # {} \/ placed(y) # {}
    <2> HIDE DEF placed
    <2> QED BY <1>7, <1>8, <1>10
  <1> QED BY <1>9, <1>10

\* An attempt that has met no full ring still has a slot before it that it can
\* allocate, unless slots are spoilt, and so it is not refused.
AttemptInv ==
    /\ \A p \in Producers : prod[p].at = "release" => p \in sawFull
    /\ \A p \in Producers : prod[p].at = "refused" => prod[p].slot = 0
    /\ \A p \in Producers : prod[p].at = "allocate" /\ p \notin sawFull /\ SpoiltSlots = {} =>
          \E s \in Places : prod[p].slot <= s /\ Allocatable(s)
    /\ RefusedOnlyWhenFull

\* Spoilt slots stay spoilt, and the consumer takes nothing from an attempt.
LEMMA SpoiltForGood ==
    ASSUME QueueInv, [Next]_vars
    PROVE  SpoiltSlots \subseteq SpoiltSlots'
  <1> SUFFICES ASSUME NEW s \in Places, ~hasData[s], storage[s] \in Dirty
               PROVE  ~hasData'[s] /\ storage'[s] \in Dirty
    BY DEF SpoiltSlots
  <1>1. /\ hasData \in [Places -> BOOLEAN]
        /\ storage \in [Places -> Messages \union {NoMessage}]
        /\ \A p \in Producers : Holding(p) => hasData[prod[p].slot]
    BY DEF QueueInv, TypeOK, Apart
  <1>2. CASE \E p \in Producers : AllocateSlot(p)
    BY <1>1, <1>2 DEF AllocateSlot, Allocatable
  <1>3. CASE \E p \in Producers : Construct(p)
    BY <1>1, <1>3 DEF Construct, Step, Holding
  <1>4. CASE \E p \in Producers : ReleaseSlot(p)
    BY <1>1, <1>4 DEF ReleaseSlot
  <1>5. CASE \E c \in Consumers : FreeSlot(c)
    BY <1>1, <1>5 DEF FreeSlot
  <1>6. CASE UNCHANGED <<hasData, storage>>
    BY <1>6
  <1>7. \/ UNCHANGED <<hasData, storage>>
        \/ \E p \in Producers : AllocateSlot(p) \/ Construct(p) \/ ReleaseSlot(p)
        \/ \E c \in Consumers : FreeSlot(c)
    <2>1. CASE UNCHANGED vars
      BY <2>1 DEF vars
    <2>2. ASSUME NEW p \in Producers,
                 (\E m \in Messages : Enqueue(p, m)) \/ ProducerStep(p) \/ GiveUp(p)
          PROVE  <1>7
      BY <2>2 DEF Enqueue, ProducerStep, GiveUp, SkipSlot, ReadHead, CheckFull, PlaceIndex,
                  PlaceTaken, RereadHead, AdvanceHead, HeadMoved, Retry, memory
    <2>3. ASSUME NEW c \in Consumers, ConsumerStep(c) PROVE <1>7
      BY <2>3 DEF ConsumerStep, ReadTail, CheckEmpty, ReadPlace, Claim, ClaimLost, ClearPlace,
                  TakeMessage, memory
    <2> QED BY <2>1, <2>2, <2>3 DEF Next
  <1> QED BY <1>2, <1>3, <1>4, <1>5, <1>6, <1>7

LEMMA AttemptStep ==
    ASSUME OneOfEach, ~Spurious, AloneInv, QueueInv, AttemptInv,
           [Next /\ Attempt]_historyVars
    PROVE  AttemptInv'
  <1>1. SpoiltSlots \subseteq SpoiltSlots'
    <2>1. [Next]_vars
      BY DEF historyVars
    <2> QED BY <2>1, SpoiltForGood
  <1>2. CASE UNCHANGED historyVars
    <2>1. UNCHANGED <<tail, head, prod, hasData, storage, sawFull>>
      BY <1>2 DEF historyVars, vars
    <2> QED
      BY <2>1 DEF AttemptInv, RefusedOnlyWhenFull, SpoiltSlots, Allocatable
  <1>3. ASSUME Next, Attempt PROVE AttemptInv'
    <2>0. /\ prod \in [Producers -> [at : ProducerSteps, msg : Messages \union {NoMessage},
                                     slot : Places, idx : Places]]
          /\ hasData \in [Places -> BOOLEAN]
          /\ Length \in Nat /\ Length > 1
      BY QueueAssumption DEF AloneInv, TypeOK
    <2>1. \A p \in Producers : p \in sawFull' <=>
            /\ prod'[p].at # "idle"
            /\ \/ IsFull'
               \/ p \in sawFull /\ ~(prod[p].at = "refused" /\ prod'[p].at = "allocate")
      BY <1>3 DEF Attempt
    <2>2. ASSUME NEW c \in Consumers, ConsumerStep(c) PROVE AttemptInv'
      <3>1. /\ UNCHANGED <<prod, storage>>
            /\ \A s \in Places : ~hasData[s] => ~hasData'[s]
        BY <2>0, <2>2 DEF ConsumerStep, ReadTail, CheckEmpty, ReadPlace, Claim, ClaimLost, ClearPlace,
                    TakeMessage, FreeSlot, memory
      <3>2. \A p \in Producers : p \in sawFull /\ prod[p].at # "idle" => p \in sawFull'
        BY <2>1, <3>1
      <3>3. \A s \in Places : Allocatable(s) => Allocatable(s)'
        BY <3>1 DEF Allocatable
      <3> QED BY <1>1, <3>1, <3>2, <3>3 DEF AttemptInv, RefusedOnlyWhenFull
    <2>3. ASSUME NEW p \in Producers,
                 (\E m \in Messages : Enqueue(p, m)) \/ ProducerStep(p) \/ GiveUp(p)
          PROVE  AttemptInv'
      <3>0. Producers = {p}
        BY DEF OneOfEach
      <3> SUFFICES
            /\ prod'[p].at = "release" => p \in sawFull'
            /\ prod'[p].at = "refused" => prod'[p].slot = 0
            /\ prod'[p].at = "allocate" /\ p \notin sawFull' /\ SpoiltSlots' = {} =>
                  \E s \in Places : prod'[p].slot <= s /\ Allocatable(s)'
            /\ prod'[p].at = "refused" => p \in sawFull' \/ SpoiltSlots' # {}
        BY <3>0 DEF AttemptInv, RefusedOnlyWhenFull
      <3>1. CASE SkipSlot(p)
        <4>1. /\ prod[p].at = "allocate" /\ ~Allocatable(prod[p].slot)
              /\ UNCHANGED <<tail, head, hasData, storage>>
          BY <3>1 DEF SkipSlot, memory
        <4>2. /\ p \in sawFull => p \in sawFull'
              /\ SpoiltSlots' = {} => SpoiltSlots = {}
          <5>1. prod'[p].at # "idle"
            BY <2>0, <3>1 DEF SkipSlot
          <5> QED BY <1>1, <2>1, <4>1, <5>1
        <4>3. CASE p \in sawFull \/ SpoiltSlots # {}
          BY <2>0, <3>1, <4>1, <4>2, <4>3, <1>1 DEF SkipSlot
        <4>4. CASE p \notin sawFull /\ SpoiltSlots = {}
          <5>1. PICK s \in Places : prod[p].slot <= s /\ Allocatable(s)
            BY <4>1, <4>4 DEF AttemptInv
          <5>2. prod[p].slot \in Nat /\ s \in Nat /\ s < Length /\ prod[p].slot # s
            BY <2>0, <4>1, <5>1 DEF Places
          <5>3. prod[p].slot # Length - 1
            BY <2>0, <5>1, <5>2
          <5>4. prod'[p].at = "allocate" /\ prod'[p].slot = prod[p].slot + 1
            BY <2>0, <3>1, <5>3 DEF SkipSlot
          <5>5. Allocatable(s)'
            BY <4>1, <5>1 DEF Allocatable
          <5>6. prod'[p].slot <= s
            BY <5>1, <5>2, <5>4
          <5> QED BY <5>4, <5>5, <5>6
        <4> QED BY <4>3, <4>4
      <3>2. CASE Retry(p) \/ \E m \in Messages : Enqueue(p, m)
        <4>1. /\ prod[p].at \in {"idle", "refused"} /\ prod'[p].at = "allocate"
              /\ prod'[p].slot = 0
              /\ UNCHANGED <<tail, head, hasData, storage>>
          <5>1. CASE Retry(p)
            BY <2>0, <5>1 DEF Retry, Step, memory, AttemptInv
          <5>2. ASSUME NEW m \in Messages, Enqueue(p, m) PROVE <4>1
            <6>1. prod'[p] = [IdleProducer EXCEPT !.at = "allocate", !.msg = m]
              BY <2>0, <5>2 DEF Enqueue
            <6>2. prod'[p].at = "allocate" /\ prod'[p].slot = 0
              BY <6>1 DEF IdleProducer
            <6> QED BY <5>2, <6>2 DEF Enqueue, memory
          <5> QED BY <3>2, <5>1, <5>2
        <4>2. ASSUME p \notin sawFull', SpoiltSlots' = {}
              PROVE  \E s \in Places : prod'[p].slot <= s /\ Allocatable(s)'
          <5>1. ~IsFull
            BY <2>1, <4>1, <4>2 DEF IsFull
          <5>2. \A q \in Producers : ~Holding(q) /\ ~Placed(q)
            BY <3>0, <4>1 DEF Holding, Placed
          <5>3. PICK s \in Places : ~hasData[s]
            BY <5>1, <5>2, SomeSlotIsFree
          <5>4. Allocatable(s)
            BY <1>1, <4>2, <5>3 DEF SpoiltSlots, Allocatable
          <5>5. Allocatable(s)' /\ prod'[p].slot <= s
            BY <2>0, <4>1, <5>4 DEF Allocatable, Places
          <5> QED BY <5>5
        <4> QED BY <4>1, <4>2
      <3>3. CASE CheckFull(p)
        <4>1. /\ prod[p].idx = head
              /\ prod'[p].at = (IF Next1(head) = tail THEN "release" ELSE "place")
              /\ UNCHANGED <<tail, head>>
          BY <2>0, <3>3 DEF CheckFull, Step, memory, AloneInv, ProducerUpToDate
        <4>2. prod'[p].at = "release" => IsFull'
          BY <4>1 DEF IsFull
        <4> QED BY <2>1, <4>1, <4>2
      <3>4. CASE ReleaseSlot(p)
        <4>1. prod[p].at = "release"
          BY <3>4 DEF ReleaseSlot
        <4>2. prod'[p] = [IdleProducer EXCEPT !.at = "refused", !.msg = prod[p].msg]
          BY <2>0, <3>4 DEF ReleaseSlot
        <4>3. prod'[p].at = "refused" /\ prod'[p].slot = 0
          BY <4>2 DEF IdleProducer
        <4> QED BY <2>1, <4>1, <4>3 DEF AttemptInv
      <3>5. CASE AllocateSlot(p) \/ Construct(p) \/ ReadHead(p) \/ PlaceIndex(p) \/ PlaceTaken(p)
                 \/ RereadHead(p) \/ AdvanceHead(p) \/ HeadMoved(p) \/ GiveUp(p)
        <4>1. prod'[p].at \notin {"release", "refused", "allocate"}
          <5>1. CASE AllocateSlot(p) \/ Construct(p) \/ PlaceIndex(p) \/ PlaceTaken(p) \/ HeadMoved(p)
            <6>1. CASE AllocateSlot(p)
              BY <2>0, <6>1 DEF AllocateSlot, Step
            <6>2. CASE Construct(p)
              BY <2>0, <6>2 DEF Construct, Step
            <6>3. CASE PlaceIndex(p)
              BY <2>0, <6>3 DEF PlaceIndex, Step
            <6>4. CASE PlaceTaken(p) \/ HeadMoved(p)
              BY <2>0, <6>4 DEF PlaceTaken, HeadMoved, Step
            <6> QED BY <5>1, <6>1, <6>2, <6>3, <6>4
          <5>2. CASE ReadHead(p) \/ RereadHead(p)
            BY <2>0, <5>2 DEF ReadHead, RereadHead
          <5>3. CASE AdvanceHead(p) \/ GiveUp(p)
            <6>1. prod'[p] = IdleProducer
              BY <2>0, <5>3 DEF AdvanceHead, GiveUp
            <6> QED BY <6>1 DEF IdleProducer
          <5> QED BY <3>5, <5>1, <5>2, <5>3
        <4> QED BY <4>1
      <3> QED BY <2>3, <3>1, <3>2, <3>3, <3>4, <3>5 DEF ProducerStep
    <2> QED BY <1>3, <2>2, <2>3 DEF Next
  <1> QED BY <1>2, <1>3

\* With one thread at each end and compare-exchanges that fail only for a
\* reason, Enqueue answers false only if the queue was full at some moment of
\* the call or slots are spoilt, for any length of the queue.
THEOREM RefusedForAReason ==
    OneOfEach /\ ~Spurious => (AttemptSpec => []RefusedOnlyWhenFull)
  <1> SUFFICES ASSUME OneOfEach, ~Spurious PROVE AttemptSpec => []RefusedOnlyWhenFull
    OBVIOUS
  <1> DEFINE I == AloneInv /\ QueueInv /\ AttemptInv
  <1>1. AttemptInit => I
    <2> SUFFICES ASSUME AttemptInit PROVE I
      OBVIOUS
    <2>1. \A p \in Producers : prod[p].at = "idle"
      BY DEF AttemptInit, Init, IdleProducer
    <2>2. AttemptInv
      BY <2>1 DEF AttemptInv, RefusedOnlyWhenFull
    <2> QED BY <2>2, InitAlone, InitQueue DEF AttemptInit
  <1>2. I /\ [Next /\ Attempt]_historyVars => I'
    <2> SUFFICES ASSUME I, [Next /\ Attempt]_historyVars PROVE I'
      OBVIOUS
    <2>1. [Next]_vars
      BY DEF historyVars
    <2>2. AloneInv' /\ QueueInv'
      BY <2>1, NextAlone, StepPunctual, NextQueue
    <2> QED BY <2>2, AttemptStep
  <1>3. I => RefusedOnlyWhenFull
    BY DEF AttemptInv
  <1> QED
    BY <1>1, <1>2, <1>3, PTL DEF AttemptSpec
=============================================================================
