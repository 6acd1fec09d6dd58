------------------------- MODULE MessageQueueShared -------------------------
(***************************************************************************)
(* The message queue with several threads at one end and one at the other, *)
(* as m_LoadRequests (the main thread enqueues, the loader threads         *)
(* dequeue) and m_LoadResponses (the other way round).                     *)
(*                                                                         *)
(* Threads may be late.  As long as none has been, the queue is the one    *)
(* AbstractQueue describes.  Afterwards only the producers' case is        *)
(* followed any further, to see what is left.                              *)
(***************************************************************************)
EXTENDS MessageQueue

\* No thread is at both ends of one queue.
ASSUME SharedAssumption == Producers \intersect Consumers = {}

VARIABLES
    threads,    \* the threads that use this queue
    late        \* history: a compare-exchange has succeeded on an old view

sharedVars == <<vars, threads, late>>

SharedInit ==
    /\ Init
    /\ late = FALSE
    /\ \/ \E p \in Producers : threads = {p} \union Consumers
       \/ \E c \in Consumers : threads = {c} \union Producers

ManyConsumers == Consumers \subseteq threads

SharedNext ==
    /\ ~(late /\ ManyConsumers)
    /\ Next
    /\ \A p \in Producers \ threads : prod'[p] = prod[p]
    /\ \A c \in Consumers \ threads : cons'[c] = cons[c]
    /\ late' = (late \/ ~Punctual)
    /\ UNCHANGED threads

SharedSpec == SharedInit /\ [][SharedNext]_sharedVars

\* Enqueue and TryDequeue implement the bounded first-in first-out queue for as
\* long as their threads are punctual: no message is lost, doubled or
\* overtaken, and at most Length - 1 wait.
ImplementsQueue ==
    /\ Abstract!AbstractInit
    /\ [][late' \/ Abstract!AbstractNext]_(Abstract!abstractVars)

\* No message is overwritten, read by two threads, freed while it is in use or
\* forgotten in its slot, and no slot is lost for good.  Late producers spoil
\* the order of the ring and may lose a slot or a message, but still no two
\* threads share a slot.
SlotsHaveOneOwner ==
    IF ~late THEN OneOwnerPerSlot
    ELSE ManyConsumers \/ \A s \in Places : OwnerCount(s) = 0 \/ (OwnerCount(s) = 1 /\ hasData[s])
=============================================================================
