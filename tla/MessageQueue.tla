---------------------------- MODULE MessageQueue ----------------------------
(***************************************************************************)
(* The lock-free queue between threads, at the grain of its accesses to    *)
(* shared memory: src/Foundation/Thread/MessageQueue.h.                    *)
(*                                                                         *)
(* A message is stored in a slot of m_Array, and the index of that slot is *)
(* published in a place of the ring m_Queue between m_Tail and m_Head.     *)
(* Each step of a thread is one load, store or compare-exchange of shared  *)
(* memory, in the order the code makes them; memory is sequentially        *)
(* consistent.  A producer is a thread inside Enqueue with what its caller *)
(* does next, a consumer a thread inside TryDequeue.                       *)
(***************************************************************************)
EXTENDS Integers, FiniteSets, Sequences

CONSTANTS
    Producers, Consumers,   \* the threads that call Enqueue and TryDequeue
    Messages,
    NoMessage,              \* what storage holds after the flag was set
    Length,                 \* m_Length
    Dirty,          \* messages whose first three bytes are not all zero
    Persistent,     \* producers that call again until Enqueue answers true
    Spurious        \* may compare_exchange_weak fail without reason?

ASSUME QueueAssumption ==
    /\ Length \in Nat /\ Length > 1
    /\ NoMessage \notin Messages
    /\ Dirty \subseteq Messages
    /\ Persistent \subseteq Producers
    /\ Spurious \in BOOLEAN

VARIABLES
    tail,       \* m_Tail
    head,       \* m_Head
    queue,      \* m_Queue
    hasData,    \* m_HasData of each slot
    storage,    \* m_Data of each slot: the last message that was put there
    prod,       \* each producer's place in the code and its locals
    cons,       \* each consumer's place in the code and its locals
    broken      \* a consumer used the index -1

memory == <<tail, head, queue, hasData, storage>>
vars == <<tail, head, queue, hasData, storage, prod, cons, broken>>

Places == 0 .. Length - 1
Empty == -1
Next1(i) == (i + 1) % Length

ProducerSteps ==
    {"idle", "allocate", "construct", "read head", "check full", "place",
     "reread head", "advance", "release", "refused"}
ConsumerSteps ==
    {"read tail", "check empty", "read place", "claim", "clear", "take", "free"}

IdleProducer == [at |-> "idle", msg |-> NoMessage, slot |-> 0, idx |-> 0]
IdleConsumer == [at |-> "read tail", idx |-> 0, val |-> Empty]

Init ==
    /\ tail = 0
    /\ head = 0
    /\ queue = [i \in Places |-> Empty]
    /\ hasData = [s \in Places |-> FALSE]
    /\ storage = [s \in Places |-> NoMessage]
    /\ prod = [p \in Producers |-> IdleProducer]
    /\ cons = [c \in Consumers |-> IdleConsumer]
    /\ broken = FALSE

-----------------------------------------------------------------------------
(* Enqueue *)

Step(p, from, to) ==
    /\ prod[p].at = from
    /\ prod' = [prod EXCEPT ![p].at = to]

\* The four bytes that AllocateArraySlot compares with zero are the flag and
\* the first three bytes of the message that was there last.
Allocatable(s) == ~hasData[s] /\ storage[s] \notin Dirty

Enqueue(p, m) ==
    /\ prod[p].at = "idle"
    /\ prod' = [prod EXCEPT ![p] = [IdleProducer EXCEPT !.at = "allocate", !.msg = m]]
    /\ UNCHANGED <<memory, cons, broken>>

\* Mutant of AllocateSlot: the flag is set without a look at its old value.
AllocateSlotBlindly(p) ==
    /\ Step(p, "allocate", "construct")
    /\ hasData' = [hasData EXCEPT ![prod[p].slot] = TRUE]
    /\ storage' = [storage EXCEPT ![prod[p].slot] = NoMessage]
    /\ UNCHANGED <<tail, head, queue, cons, broken>>

AllocateSlot(p) ==
    /\ Step(p, "allocate", "construct")
    /\ Allocatable(prod[p].slot)
    /\ hasData' = [hasData EXCEPT ![prod[p].slot] = TRUE]
    /\ storage' = [storage EXCEPT ![prod[p].slot] = NoMessage]
    /\ UNCHANGED <<tail, head, queue, cons, broken>>

SkipSlot(p) ==
    /\ prod[p].at = "allocate"
    /\ Spurious \/ ~Allocatable(prod[p].slot)
    /\ prod' = IF prod[p].slot = Length - 1
               THEN [prod EXCEPT ![p].at = "refused", ![p].slot = 0]
               ELSE [prod EXCEPT ![p].slot = @ + 1]
    /\ UNCHANGED <<memory, cons, broken>>

Construct(p) ==
    /\ Step(p, "construct", "read head")
    /\ storage' = [storage EXCEPT ![prod[p].slot] = prod[p].msg]
    /\ UNCHANGED <<tail, head, queue, hasData, cons, broken>>

ReadHead(p) ==
    /\ prod[p].at = "read head"
    /\ prod' = [prod EXCEPT ![p].at = "check full", ![p].idx = head]
    /\ UNCHANGED <<memory, cons, broken>>

\* Mutant of CheckFull: room is never asked for.
CheckFullNever(p) ==
    /\ Step(p, "check full", "place")
    /\ UNCHANGED <<memory, cons, broken>>

\* Mutant of CheckFull: a ring with one place left counts as full.
CheckFullEarly(p) ==
    /\ Step(p, "check full",
            IF tail \in {Next1(prod[p].idx), Next1(Next1(prod[p].idx))}
            THEN "release" ELSE "place")
    /\ UNCHANGED <<memory, cons, broken>>

CheckFull(p) ==
    /\ Step(p, "check full", IF Next1(prod[p].idx) = tail THEN "release" ELSE "place")
    /\ UNCHANGED <<memory, cons, broken>>

PlaceIndex(p) ==
    /\ Step(p, "place", "reread head")
    /\ queue[prod[p].idx] = Empty
    /\ queue' = [queue EXCEPT ![prod[p].idx] = prod[p].slot]
    /\ UNCHANGED <<tail, head, hasData, storage, cons, broken>>

PlaceTaken(p) ==
    /\ Step(p, "place", "read head")
    /\ Spurious \/ queue[prod[p].idx] # Empty
    /\ UNCHANGED <<memory, cons, broken>>

RereadHead(p) ==
    /\ prod[p].at = "reread head"
    /\ prod' = [prod EXCEPT ![p].at = "advance", ![p].idx = head]
    /\ UNCHANGED <<memory, cons, broken>>

\* The message is in the queue, and Enqueue answers true.
AdvanceHead(p) ==
    /\ prod[p].at = "advance"
    /\ head = prod[p].idx
    /\ head' = Next1(head)
    /\ prod' = [prod EXCEPT ![p] = IdleProducer]
    /\ UNCHANGED <<tail, queue, hasData, storage, cons, broken>>

HeadMoved(p) ==
    /\ Step(p, "advance", "reread head")
    /\ Spurious \/ head # prod[p].idx
    /\ UNCHANGED <<memory, cons, broken>>

\* The message is moved back to the caller, who is told that the queue is full.
ReleaseSlot(p) ==
    /\ prod[p].at = "release"
    /\ hasData' = [hasData EXCEPT ![prod[p].slot] = FALSE]
    /\ prod' = [prod EXCEPT ![p] = [IdleProducer EXCEPT !.at = "refused", !.msg = prod[p].msg]]
    /\ UNCHANGED <<tail, head, queue, storage, cons, broken>>

Retry(p) ==
    /\ Step(p, "refused", "allocate")
    /\ UNCHANGED <<memory, cons, broken>>

GiveUp(p) ==
    /\ prod[p].at = "refused"
    /\ p \notin Persistent
    /\ prod' = [prod EXCEPT ![p] = IdleProducer]
    /\ UNCHANGED <<memory, cons, broken>>
-----------------------------------------------------------------------------
(* TryDequeue *)

ReadTail(c) ==
    /\ cons[c].at = "read tail"
    /\ cons' = [cons EXCEPT ![c].at = "check empty", ![c].idx = tail]
    /\ UNCHANGED <<memory, prod, broken>>

CheckEmpty(c) ==
    /\ cons[c].at = "check empty"
    /\ cons' = IF cons[c].idx = head
               THEN [cons EXCEPT ![c] = IdleConsumer]
               ELSE [cons EXCEPT ![c].at = "read place"]
    /\ UNCHANGED <<memory, prod, broken>>

ReadPlace(c) ==
    /\ cons[c].at = "read place"
    /\ cons' = [cons EXCEPT ![c].at = "claim", ![c].val = queue[cons[c].idx]]
    /\ UNCHANGED <<memory, prod, broken>>

Claim(c) ==
    /\ cons[c].at = "claim"
    /\ tail = cons[c].idx
    /\ tail' = Next1(tail)
    /\ cons' = [cons EXCEPT ![c].at = "clear"]
    /\ UNCHANGED <<head, queue, hasData, storage, prod, broken>>

ClaimLost(c) ==
    /\ cons[c].at = "claim"
    /\ Spurious \/ tail # cons[c].idx
    /\ cons' = [cons EXCEPT ![c] = IdleConsumer]
    /\ UNCHANGED <<memory, prod, broken>>

\* Mutant of ClearPlace: the slot is freed before the message is moved out.
ClearPlaceFrees(c) ==
    /\ cons[c].at = "clear"
    /\ queue' = [queue EXCEPT ![cons[c].idx] = Empty]
    /\ hasData' = [hasData EXCEPT ![cons[c].val] = FALSE]
    /\ cons' = [cons EXCEPT ![c].at = "take", ![c].idx = 0]
    /\ UNCHANGED <<tail, head, storage, prod, broken>>

ClearPlace(c) ==
    /\ cons[c].at = "clear"
    /\ queue' = [queue EXCEPT ![cons[c].idx] = Empty]
    /\ cons' = [cons EXCEPT ![c].at = "take", ![c].idx = 0]
    /\ UNCHANGED <<tail, head, hasData, storage, prod, broken>>

\* Moves the message out and destroys it; its first bytes stay as they are.
TakeMessage(c) ==
    /\ cons[c].at = "take"
    /\ broken' = (cons[c].val = Empty)
    /\ cons' = [cons EXCEPT ![c].at = "free"]
    /\ UNCHANGED <<memory, prod>>

\* Mutant of FreeSlot: m_HasData stays set.
FreeSlotKeepsFlag(c) ==
    /\ cons[c].at = "free"
    /\ cons' = [cons EXCEPT ![c] = IdleConsumer]
    /\ UNCHANGED <<memory, prod, broken>>

FreeSlot(c) ==
    /\ cons[c].at = "free"
    /\ hasData' = [hasData EXCEPT ![cons[c].val] = FALSE]
    /\ cons' = [cons EXCEPT ![c] = IdleConsumer]
    /\ UNCHANGED <<tail, head, queue, storage, prod, broken>>
-----------------------------------------------------------------------------
ProducerStep(p) ==
    \/ AllocateSlot(p) \/ SkipSlot(p) \/ Construct(p)
    \/ ReadHead(p) \/ CheckFull(p) \/ PlaceIndex(p) \/ PlaceTaken(p)
    \/ RereadHead(p) \/ AdvanceHead(p) \/ HeadMoved(p) \/ ReleaseSlot(p)
    \/ Retry(p)

ConsumerStep(c) ==
    \/ ReadTail(c) \/ CheckEmpty(c) \/ ReadPlace(c) \/ Claim(c) \/ ClaimLost(c)
    \/ ClearPlace(c) \/ TakeMessage(c) \/ FreeSlot(c)

\* Nothing is said of a program that has used the index -1.
Next ==
    /\ ~broken
    /\ \/ \E p \in Producers :
            \/ \E m \in Messages : Enqueue(p, m)
            \/ ProducerStep(p)
            \/ GiveUp(p)
       \/ \E c \in Consumers : ConsumerStep(c)

Spec == Init /\ [][Next]_vars

-----------------------------------------------------------------------------
(* Punctual threads.  Nothing in the code keeps a thread from sleeping       *)
(* between its read of m_Head or m_Queue and its compare-exchange while the  *)
(* others take the queue past that place; compare-exchange does not notice.  *)

\* A producer fills the place after the newest message, and there is room.
InOrderPlace(p) == prod[p].idx = head /\ Next1(head) # tail

\* A consumer takes the oldest message, with the index it has read.
FreshClaim(c) == cons[c].idx # head /\ cons[c].val = queue[cons[c].idx]

Punctual ==
    /\ \A p \in Producers : PlaceIndex(p) => InOrderPlace(p)
    /\ \A c \in Consumers : Claim(c) => FreshClaim(c)

PunctualNext == Next /\ Punctual

-----------------------------------------------------------------------------
(* Properties *)

TypeOK ==
    /\ tail \in Places
    /\ head \in Places
    /\ queue \in [Places -> Places \union {Empty}]
    /\ hasData \in [Places -> BOOLEAN]
    /\ storage \in [Places -> Messages \union {NoMessage}]
    /\ prod \in [Producers -> [at : ProducerSteps, msg : Messages \union {NoMessage},
                               slot : Places, idx : Places]]
    /\ cons \in [Consumers -> [at : ConsumerSteps, idx : Places,
                               val : Places \union {Empty}]]
    /\ broken \in BOOLEAN

Holding(p) == prod[p].at \in {"construct", "read head", "check full", "place", "release"}
Taking(c) == cons[c].at \in {"clear", "take", "free"}

\* Who may touch slot s: a producer until it publishes the index, a place of
\* the ring, or the consumer that has claimed the place.
OwnerCount(s) ==
    Cardinality({p \in Producers : Holding(p) /\ prod[p].slot = s})
      + Cardinality({i \in Places : queue[i] = s
            /\ ~ \E c \in Consumers : cons[c].at = "clear" /\ cons[c].idx = i})
      + Cardinality({c \in Consumers : Taking(c) /\ cons[c].val = s})

\* No message is overwritten, read by two threads, freed while it is in use or
\* forgotten in its slot.
OneOwnerPerSlot ==
    \A s \in Places : OwnerCount(s) = IF hasData[s] THEN 1 ELSE 0

\* A single producer and a single consumer, as the two ends of m_ModifiedFiles,
\* cannot be late: the compare-exchanges always find what the thread has read.
AlwaysPunctual == [][PunctualNext]_vars

-----------------------------------------------------------------------------
(* Refinement: a message enters the queue when m_Head passes it and leaves   *)
(* it when m_Tail does.                                                      *)

Size == IF tail <= head THEN head - tail ELSE head + Length - tail

\* The messages between m_Tail and m_Head, oldest first.
Items == [k \in 1 .. Size |-> storage[queue[(tail + k - 1) % Length]]]

Abstract == INSTANCE AbstractQueue WITH
    Capacity <- Length - 1,
    items    <- Items,
    sending  <- [p \in Producers |-> prod[p].msg],
    refused  <- {p \in Producers : prod[p].at = "refused"},
    taking   <- [c \in Consumers |->
                    IF Taking(c) THEN storage[cons[c].val] ELSE NoMessage]
=============================================================================
