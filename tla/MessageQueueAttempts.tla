------------------------ MODULE MessageQueueAttempts ------------------------
(***************************************************************************)
(* What an answer of MessageQueue says about the attempt it ends.  The     *)
(* history variable sawFull holds the producers that have met, since their *)
(* attempt began, a moment at which the ring was full.                     *)
(***************************************************************************)
EXTENDS MessageQueue

VARIABLE sawFull

historyVars == <<vars, sawFull>>

IsFull == Next1(head) = tail

\* An attempt begins with the search for a slot.
Attempt ==
    sawFull' = {p \in Producers :
        /\ prod'[p].at # "idle"
        /\ \/ IsFull'
           \/ p \in sawFull /\ ~(prod[p].at = "refused" /\ prod'[p].at = "allocate")}

AttemptInit == Init /\ sawFull = {}

AttemptSpec == AttemptInit /\ [][Next /\ Attempt]_historyVars

\* Every thread goes on running.
Fairness ==
    /\ \A p \in Producers : WF_historyVars(ProducerStep(p) /\ Attempt)
    /\ \A c \in Consumers : WF_historyVars(ConsumerStep(c) /\ Attempt)

FairAttemptSpec == AttemptSpec /\ Fairness

\* Slots that are free and will never be allocated again, because of the bytes
\* their last message has left.
SpoiltSlots == {s \in Places : ~hasData[s] /\ storage[s] \in Dirty}

\* With one thread at each end Enqueue answers false only if the queue was
\* full at some moment of the call, or slots are spoilt: a caller that does not
\* try again, as ReloadThread, gives up a message for nothing else.
RefusedOnlyWhenFull ==
    \A p \in Producers : prod[p].at = "refused" => p \in sawFull \/ SpoiltSlots # {}

\* A message handed to Enqueue by a caller that tries until it is accepted is
\* taken out in the end (RequestFileLoad and LoadThread call this way), unless
\* every slot has been spoilt.
EveryMessageArrives ==
    \A p \in Persistent, m \in Messages :
        prod[p].msg = m
            ~> \/ \E c \in Consumers : Taking(c) /\ storage[cons[c].val] = m
               \/ SpoiltSlots = Places
=============================================================================
