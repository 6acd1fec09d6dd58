----------------------------- MODULE Semaphore ------------------------------
(***************************************************************************)
(* The counting semaphore made of a mutex and a condition variable:        *)
(* src/Foundation/Thread/Semaphore.cpp.                                    *)
(*                                                                         *)
(* A step is what a thread does between two acquisitions of the mutex.  A  *)
(* thread that waits on the condition variable sleeps until it is notified *)
(* or wakes by itself (spuriously, or by the timeout of WaitOne(ms), which *)
(* the loop treats alike), and then has to acquire the mutex again.        *)
(***************************************************************************)
EXTENDS Integers, FiniteSets

CONSTANT Threads    \* the threads that call WaitOne

ASSUME ThreadsAssumption == IsFiniteSet(Threads)

VARIABLES
    count,      \* m_Count
    sleeping,   \* threads asleep on m_ConditionVariable
    woken       \* threads that were woken and want the mutex again

semaphoreVars == <<count, sleeping, woken>>

SemaphoreInit == count = 0 /\ sleeping = {} /\ woken = {}

WaitOne(t) ==
    /\ t \notin sleeping \union woken
    /\ IF count = 0
       THEN sleeping' = sleeping \union {t} /\ UNCHANGED <<count, woken>>
       ELSE count' = count - 1 /\ UNCHANGED <<sleeping, woken>>

\* The while loop of WaitOne, with the mutex held again.
Recheck(t) ==
    /\ t \in woken
    /\ woken' = woken \ {t}
    /\ IF count = 0
       THEN sleeping' = sleeping \union {t} /\ UNCHANGED count
       ELSE count' = count - 1 /\ UNCHANGED sleeping

WakeUnasked(t) ==
    /\ t \in sleeping
    /\ sleeping' = sleeping \ {t}
    /\ woken' = woken \union {t}
    /\ UNCHANGED count

NotifyOne ==
    \/ sleeping = {} /\ UNCHANGED <<sleeping, woken>>
    \/ \E t \in sleeping : sleeping' = sleeping \ {t} /\ woken' = woken \union {t}

NotifyAll == sleeping' = {} /\ woken' = woken \union sleeping

\* Mutant of Release: a single thread is notified, whatever the amount.
ReleaseNotifiesOnce(amount) == count' = count + amount /\ NotifyOne

Release(amount) ==
    /\ count' = count + amount
    /\ IF amount = 1 THEN NotifyOne ELSE NotifyAll

\* The threads that wait, and whoever releases.
SemaphoreNext ==
    \/ \E t \in Threads : WaitOne(t) \/ Recheck(t) \/ WakeUnasked(t)
    \/ \E amount \in Nat : Release(amount)

SemaphoreSpec == SemaphoreInit /\ [][SemaphoreNext]_semaphoreVars
-----------------------------------------------------------------------------
SemaphoreTypeOK ==
    /\ count \in Nat
    /\ sleeping \subseteq Threads
    /\ woken \subseteq Threads
    /\ sleeping \intersect woken = {}

\* No wakeup is lost: while somebody sleeps, there are at least as many
\* threads on their way to a permit as there are permits.
SleepersNotForgotten == sleeping # {} => count <= Cardinality(woken)
=============================================================================
