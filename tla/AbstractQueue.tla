--------------------------- MODULE AbstractQueue ---------------------------
(***************************************************************************)
(* What MessageQueue promises its callers: a bounded first-in first-out    *)
(* queue between threads.  A producer that was told "full" may try again   *)
(* or give up.  MessageQueue.tla is shown to implement this module.        *)
(***************************************************************************)
EXTENDS Naturals, Sequences

CONSTANTS Producers, Consumers, Messages, NoMessage, Capacity

VARIABLES
    items,     \* the messages in the queue, oldest first
    sending,   \* per producer the message of its call of Enqueue, or NoMessage
    refused,   \* the producers whose last attempt was answered false
    taking     \* per consumer the message its call of TryDequeue returns

abstractVars == <<items, sending, refused, taking>>

AbstractInit ==
    /\ items = <<>>
    /\ sending = [p \in Producers |-> NoMessage]
    /\ refused = {}
    /\ taking = [c \in Consumers |-> NoMessage]

Call(p, m) ==
    /\ sending[p] = NoMessage
    /\ sending' = [sending EXCEPT ![p] = m]
    /\ UNCHANGED <<items, refused, taking>>

Accept(p) ==
    /\ sending[p] # NoMessage /\ p \notin refused
    /\ Len(items) < Capacity
    /\ items' = Append(items, sending[p])
    /\ sending' = [sending EXCEPT ![p] = NoMessage]
    /\ UNCHANGED <<refused, taking>>

Refuse(p) ==
    /\ sending[p] # NoMessage /\ p \notin refused
    /\ refused' = refused \union {p}
    /\ UNCHANGED <<items, sending, taking>>

TryAgain(p) ==
    /\ p \in refused
    /\ refused' = refused \ {p}
    /\ UNCHANGED <<items, sending, taking>>

Drop(p) ==
    /\ p \in refused
    /\ refused' = refused \ {p}
    /\ sending' = [sending EXCEPT ![p] = NoMessage]
    /\ UNCHANGED <<items, taking>>

Take(c) ==
    /\ taking[c] = NoMessage
    /\ items # <<>>
    /\ taking' = [taking EXCEPT ![c] = Head(items)]
    /\ items' = Tail(items)
    /\ UNCHANGED <<sending, refused>>

Return(c) ==
    /\ taking[c] # NoMessage
    /\ taking' = [taking EXCEPT ![c] = NoMessage]
    /\ UNCHANGED <<items, sending, refused>>

AbstractNext ==
    \/ \E p \in Producers :
              \/ \E m \in Messages : Call(p, m)
              \/ Accept(p) \/ Refuse(p) \/ TryAgain(p) \/ Drop(p)
    \/ \E c \in Consumers : Take(c) \/ Return(c)

AbstractSpec == AbstractInit /\ [][AbstractNext]_abstractVars
=============================================================================
