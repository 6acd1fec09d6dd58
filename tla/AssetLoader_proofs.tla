------------------------- MODULE AssetLoader_proofs -------------------------
(***************************************************************************)
(* No request of the asset loader is left in the queue without a permit or *)
(* a thread that is about to look for it, for any files, any number of     *)
(* threads and any length of the queues; no loader thread is left asleep   *)
(* while there are permits that nobody is on the way to; and references    *)
(* and requests are counted right, so nobody is left with a pointer to an  *)
(* asset that is gone.                                                     *)
(***************************************************************************)
EXTENDS AssetLoader, CollectionLemmas

-----------------------------------------------------------------------------
(* No wakeup of the semaphore is lost, for any set of threads.  A           *)
(* notification moves one sleeper among the woken threads for each permit,  *)
(* unless it runs out of sleepers, and then there is nobody to forget.      *)

\* The invariant is inductive once the types are known: the sets of threads
\* have to be disjoint and finite for their members to be counted.
SemaphoreInv == SemaphoreTypeOK /\ SleepersNotForgotten

\* One thread more or less among the woken ones changes their number by one.
LEMMA CountWoken ==
    ASSUME SemaphoreTypeOK, NEW t
    PROVE  /\ Cardinality(woken) \in Nat
           /\ t \in woken => Cardinality(woken \ {t}) = Cardinality(woken) - 1
           /\ t \notin woken => Cardinality(woken \union {t}) = Cardinality(woken) + 1
  <1>1. IsFiniteSet(woken)
    BY ThreadsAssumption, FS_Subset DEF SemaphoreTypeOK
  <1> QED
    BY <1>1, FS_CardinalityType, FS_RemoveElement, FS_AddElement

LEMMA SemaphoreInitInv == SemaphoreInit => SemaphoreInv
  BY DEF SemaphoreInit, SemaphoreInv, SemaphoreTypeOK, SleepersNotForgotten

LEMMA SemaphoreNextInv == SemaphoreInv /\ [SemaphoreNext]_semaphoreVars => SemaphoreInv'
  <1> SUFFICES ASSUME SemaphoreInv, [SemaphoreNext]_semaphoreVars PROVE SemaphoreInv'
    OBVIOUS
  <1> USE DEF SemaphoreInv
  <1>1. ASSUME NEW t \in Threads, WaitOne(t) PROVE SemaphoreInv'
    <2>1. SemaphoreTypeOK'
      BY <1>1 DEF WaitOne, SemaphoreTypeOK
    <2>2. Cardinality(woken) \in Nat
      BY CountWoken
    <2>3. CASE count = 0
      <3>1. count' = 0 /\ woken' = woken
        BY <1>1, <2>3 DEF WaitOne
      <3> QED BY <2>1, <2>2, <3>1 DEF SleepersNotForgotten
    <2>4. CASE count # 0
      <3>1. count' = count - 1 /\ woken' = woken /\ sleeping' = sleeping
        BY <1>1, <2>4 DEF WaitOne
      <3> QED BY <2>1, <2>2, <3>1 DEF SemaphoreTypeOK, SleepersNotForgotten
    <2> QED BY <2>3, <2>4
  <1>2. ASSUME NEW t \in Threads, Recheck(t) PROVE SemaphoreInv'
    <2>1. SemaphoreTypeOK'
      BY <1>2 DEF Recheck, SemaphoreTypeOK
    <2>2. /\ Cardinality(woken) \in Nat
          /\ Cardinality(woken') = Cardinality(woken) - 1
      BY <1>2, CountWoken DEF Recheck
    <2>3. Cardinality(woken') \in Nat
      BY <2>1, CountWoken, FS_Subset, FS_CardinalityType, ThreadsAssumption DEF SemaphoreTypeOK
    <2>4. CASE count = 0
      <3>1. count' = 0
        BY <1>2, <2>4 DEF Recheck
      <3> QED BY <2>1, <2>3, <3>1 DEF SleepersNotForgotten
    <2>5. CASE count # 0
      <3>1. count' = count - 1 /\ sleeping' = sleeping
        BY <1>2, <2>5 DEF Recheck
      <3> QED BY <2>1, <2>2, <3>1 DEF SemaphoreTypeOK, SleepersNotForgotten
    <2> QED BY <2>4, <2>5
  <1>3. ASSUME NEW t \in Threads, WakeUnasked(t) PROVE SemaphoreInv'
    <2>1. SemaphoreTypeOK'
      BY <1>3 DEF WakeUnasked, SemaphoreTypeOK
    <2>2. t \notin woken
      BY <1>3 DEF WakeUnasked, SemaphoreTypeOK
    <2>3. /\ Cardinality(woken) \in Nat
          /\ Cardinality(woken') = Cardinality(woken) + 1
      BY <1>3, <2>2, CountWoken DEF WakeUnasked
    <2>4. SleepersNotForgotten'
      BY <1>3, <2>3 DEF WakeUnasked, SemaphoreTypeOK, SleepersNotForgotten
    <2> QED BY <2>1, <2>4
  <1>4. ASSUME NEW amount \in Nat, Release(amount) PROVE SemaphoreInv'
    <2>1. SemaphoreTypeOK'
      BY <1>4, ThreadsAssumption DEF Release, NotifyOne, NotifyAll, SemaphoreTypeOK
    <2>2. CASE amount = 1
      <3>1. CASE sleeping = {} /\ UNCHANGED <<sleeping, woken>>
        BY <2>1, <3>1 DEF SleepersNotForgotten
      <3>2. ASSUME NEW t \in sleeping,
                   sleeping' = sleeping \ {t} /\ woken' = woken \union {t}
            PROVE  SemaphoreInv'
        <4>1. t \notin woken
          BY DEF SemaphoreTypeOK
        <4>2. /\ Cardinality(woken) \in Nat
              /\ Cardinality(woken') = Cardinality(woken) + 1
          BY <3>2, <4>1, CountWoken
        <4>3. count' = count + 1
          BY <1>4, <2>2 DEF Release
        <4> QED
          BY <2>1, <4>2, <4>3 DEF SemaphoreTypeOK, SleepersNotForgotten
      <3> QED
        BY <1>4, <2>2, <3>1, <3>2 DEF Release, NotifyOne
    <2>3. CASE amount # 1
      BY <1>4, <2>1, <2>3 DEF Release, NotifyAll, SleepersNotForgotten
    <2> QED BY <2>2, <2>3
  <1>5. CASE UNCHANGED semaphoreVars
    BY <1>5 DEF semaphoreVars, SemaphoreTypeOK, SleepersNotForgotten
  <1> QED BY <1>1, <1>2, <1>3, <1>4, <1>5 DEF SemaphoreNext

\* While a thread sleeps in WaitOne there are never more permits than threads
\* that were woken for them, whoever else calls WaitOne and Release.
THEOREM NobodyIsForgotten == SemaphoreSpec => []SleepersNotForgotten
  <1>1. SemaphoreSpec => []SemaphoreInv
    BY SemaphoreInitInv, SemaphoreNextInv, PTL DEF SemaphoreSpec
  <1> QED
    BY <1>1, PTL DEF SemaphoreInv

-----------------------------------------------------------------------------
(* The loader.                                                              *)

\* A thread that took a permit stands for one request until it has taken one.
CoverInv == PipelineTypes /\ SleepersNotForgotten /\ RequestsAreCovered

LEMMA CountIsNatural == \A b \in BOOLEAN : Count(b) \in {0, 1}
  BY DEF Count

LEMMA DequeuedType ==
    ASSUME NEW S, NEW F, NEW q \in [items : Seq(S), fresh : F], q.items # <<>>
    PROVE  /\ Dequeued(q) \in [items : Seq(S), fresh : F]
           /\ Len(Dequeued(q).items) = Len(q.items) - 1
           /\ Head(q.items) \in S
  BY DEF Dequeued

LEMMA EnqueuedType ==
    ASSUME NEW S, NEW slots \in Nat, NEW q \in [items : Seq(S), fresh : 0 .. slots], NEW x \in S, HasRoom(q, slots)
    PROVE  /\ Enqueued(q, x) \in [items : Seq(S), fresh : 0 .. slots]
           /\ Len(Enqueued(q, x).items) = Len(q.items) + 1
  BY DEF Enqueued, HasRoom

LEMMA AttemptedType ==
    ASSUME NEW S, NEW slots \in Nat, NEW q \in [items : Seq(S), fresh : 0 .. slots]
    PROVE  /\ Attempted(q) \in [items : Seq(S), fresh : 0 .. slots]
           /\ Attempted(q).items = q.items
  BY DEF Attempted

\* One thread more or less that is about to look changes their number by one.
LEMMA CountLooking ==
    ASSUME PipelineTypes, NEW t \in Threads, NEW r,
           thread' = [thread EXCEPT ![t] = r]
    PROVE  /\ Cardinality(Looking) \in Nat /\ Cardinality(Looking') \in Nat
           /\ thread[t].at # "dequeue" /\ r.at = "dequeue"
                => Cardinality(Looking') = Cardinality(Looking) + 1
           /\ thread[t].at = "dequeue" /\ r.at # "dequeue"
                => Cardinality(Looking') = Cardinality(Looking) - 1
           /\ (thread[t].at = "dequeue") = (r.at = "dequeue")
                => Cardinality(Looking') = Cardinality(Looking)
  <1>1. IsFiniteSet(Looking) /\ IsFiniteSet(Looking')
    <2>1. Looking \subseteq Threads /\ Looking' \subseteq Threads
      BY DEF Looking
    <2> QED BY <2>1, FS_Subset, ThreadsAssumption
  <1>2. ASSUME thread[t].at # "dequeue", r.at = "dequeue"
        PROVE  Cardinality(Looking') = Cardinality(Looking) + 1
    <2>1. Looking' = Looking \union {t} /\ t \notin Looking
      BY <1>2 DEF Looking, PipelineTypes
    <2> QED BY <2>1, <1>1, FS_AddElement
  <1>3. ASSUME thread[t].at = "dequeue", r.at # "dequeue"
        PROVE  Cardinality(Looking') = Cardinality(Looking) - 1
    <2>1. Looking' = Looking \ {t} /\ t \in Looking
      BY <1>3 DEF Looking, PipelineTypes
    <2> QED BY <2>1, <1>1, FS_RemoveElement
  <1>4. ASSUME (thread[t].at = "dequeue") = (r.at = "dequeue")
        PROVE  Cardinality(Looking') = Cardinality(Looking)
    <2>1. Looking' = Looking
      BY <1>4 DEF Looking, PipelineTypes
    <2> QED BY <2>1
  <1> QED BY <1>1, <1>2, <1>3, <1>4, FS_CardinalityType

LEMMA LookingIsFinite == Cardinality(Looking) \in Nat
  <1>1. IsFiniteSet(Looking)
    <2>1. Looking \subseteq Threads
      BY DEF Looking
    <2> QED BY <2>1, FS_Subset, ThreadsAssumption
  <1> QED BY <1>1, FS_CardinalityType

\* Every step of the loader is a step of its semaphore, or leaves it alone.
LEMMA StepsOfTheSemaphore == [Next]_vars => [SemaphoreNext]_semaphoreVars
  <1> SUFFICES ASSUME [Next]_vars PROVE [SemaphoreNext]_semaphoreVars
    OBVIOUS
  <1>1. CASE UNCHANGED vars
    BY <1>1 DEF vars
  <1>2. CASE MainStep
    <2>1. CASE SignalRequest
      BY <2>1 DEF SignalRequest, SemaphoreNext
    <2>2. CASE UNCHANGED semaphoreVars
      BY <2>2
    <2> QED
      BY <1>2, <2>1, <2>2 DEF MainStep, EnqueueRequest, RetryRequest, BeginResponses,
        TakeResponse, FinishResponse, EndResponses, EndShutDown
  <1>3. CASE BeginShutDown
    <2>1. Cardinality(Threads) \in Nat
      BY ThreadsAssumption, FS_CardinalityType
    <2> QED BY <1>3, <2>1 DEF BeginShutDown, SemaphoreNext
  <1>4. CASE \E a \in Assets : LoadExisting(a) \/ LoadNew(a) \/ DropReference(a)
    BY <1>4 DEF LoadExisting, LoadNew, DropReference
  <1>5. ASSUME NEW t \in Threads, ThreadStep(t) \/ WakeSpuriously(t)
        PROVE  [SemaphoreNext]_semaphoreVars
    <2>1. CASE WaitOne(t) \/ Recheck(t) \/ WakeUnasked(t)
      BY <2>1 DEF SemaphoreNext
    <2>2. CASE UNCHANGED semaphoreVars
      BY <2>2
    <2> QED
      BY <1>5, <2>1, <2>2 DEF ThreadStep, TestRunning, WaitForRequest, WakeUp, WakeSpuriously,
        DequeueRequest, NoMoreRequests, LoadFile, EnqueueResponse, RetryResponse
  <1> QED BY <1>1, <1>2, <1>3, <1>4, <1>5 DEF Next

\* Who is notified was asleep, so the threads in WaitOne stay the same.
LEMMA ReleaseKeepsThreads ==
    ASSUME NEW amount, Release(amount)
    PROVE  sleeping' \union woken' = sleeping \union woken
  BY DEF Release, NotifyOne, NotifyAll

LEMMA InitCovered == Init => CoverInv
  <1> SUFFICES ASSUME Init PROVE CoverInv
    OBVIOUS
  <1>1. PipelineTypes
    BY AssetLoaderAssumption DEF Init, PipelineTypes, NewQueue, NoCall, IdleThread, CallPlaces,
      ThreadPlaces, SemaphoreInit, SemaphoreTypeOK
  <1>2. Len(requests.items) = 0 /\ count = 0 /\ Count(call.at = "signal") = 0
    BY DEF Init, NewQueue, NoCall, Count, SemaphoreInit
  <1>3. SleepersNotForgotten
    BY SemaphoreInitInv DEF Init, SemaphoreInv
  <1> QED BY <1>1, <1>2, <1>3, LookingIsFinite DEF CoverInv, RequestsAreCovered

\* The main thread, and what it does to queue, semaphore and call.
LEMMA MainCovered ==
    ASSUME CoverInv, SemaphoreInv',
           \/ MainStep \/ BeginShutDown
           \/ \E a \in Assets : LoadExisting(a) \/ LoadNew(a) \/ DropReference(a)
    PROVE  CoverInv'
  <1> USE DEF CoverInv, SemaphoreInv, semaphoreVars
  <1>0. Cardinality(Looking) \in Nat /\ (thread' = thread => Looking' = Looking)
    BY LookingIsFinite DEF Looking
  <1>1. CASE UNCHANGED <<call, requests, responses, semaphoreVars, thread>>
    BY <1>1, <1>0 DEF PipelineTypes, RequestsAreCovered, semaphoreVars
  <1>2. ASSUME NEW a \in Assets, LoadNew(a) PROVE CoverInv'
    <2>1. PipelineTypes'
      BY <1>2 DEF LoadNew, PipelineTypes, CallPlaces
    <2>2. call.at = "none" /\ call'.at = "enqueue"
      BY <1>2 DEF LoadNew, InUserCode, NoCall
    <2> QED BY <1>0, <1>2, <2>1, <2>2 DEF LoadNew, RequestsAreCovered, Count
  <1>3. CASE EnqueueRequest
    <2>1. call.asset \in Assets /\ call' = [call EXCEPT !.at = "signal"]
      BY <1>3 DEF EnqueueRequest, PipelineTypes
    <2>2. /\ requests' \in [items : Seq(Assets), fresh : 0 .. RequestSlots]
          /\ Len(requests'.items) = Len(requests.items) + 1
      BY <1>3, <2>1, EnqueuedType, AssetLoaderAssumption DEF EnqueueRequest, PipelineTypes
    <2>3. PipelineTypes'
      BY <1>3, <2>1, <2>2 DEF EnqueueRequest, PipelineTypes, CallPlaces
    <2>4. call.at = "enqueue" /\ call'.at = "signal"
      BY <1>3, <2>1 DEF EnqueueRequest, PipelineTypes
    <2>5. /\ Count(call.at = "signal") = 0 /\ Count(call'.at = "signal") = 1
          /\ count' = count /\ count \in Nat /\ Len(requests.items) \in Nat /\ Looking' = Looking
      BY <1>0, <1>3, <2>4 DEF EnqueueRequest, Count, PipelineTypes, SemaphoreTypeOK
    <2>6. RequestsAreCovered'
      BY <1>0, <2>2, <2>5 DEF RequestsAreCovered
    <2> QED BY <2>3, <2>6
  <1>4. CASE RetryRequest
    <2>1. /\ requests' \in [items : Seq(Assets), fresh : 0 .. RequestSlots]
          /\ requests'.items = requests.items
      BY <1>4, AttemptedType, AssetLoaderAssumption DEF RetryRequest, PipelineTypes
    <2>2. PipelineTypes'
      BY <1>4, <2>1 DEF RetryRequest, PipelineTypes
    <2> QED BY <1>0, <1>4, <2>1, <2>2 DEF RetryRequest, RequestsAreCovered
  <1>5. CASE SignalRequest
    <2>1. PipelineTypes'
      BY <1>5, ReleaseKeepsThreads DEF SignalRequest, PipelineTypes, NoCall, CallPlaces
    <2>2. call.at = "signal" /\ call'.at = "none" /\ count' = count + 1
      BY <1>5 DEF SignalRequest, NoCall, Release
    <2> QED BY <1>0, <1>5, <2>1, <2>2 DEF SignalRequest, RequestsAreCovered, Count, PipelineTypes
  <1>6. CASE TakeResponse
    <2>1. responses' \in [items : Seq([asset : Assets, data : BOOLEAN]), fresh : 0 .. ResponseSlots]
      BY <1>6, DequeuedType DEF TakeResponse, PipelineTypes
    <2>2. PipelineTypes'
      BY <1>6, <2>1 DEF TakeResponse, PipelineTypes
    <2> QED BY <1>0, <1>6, <2>2 DEF TakeResponse, RequestsAreCovered
  <1>7. CASE BeginShutDown
    <2>1. Cardinality(Threads) \in Nat
      BY ThreadsAssumption, FS_CardinalityType
    <2>2. PipelineTypes'
      BY <1>7, ReleaseKeepsThreads DEF BeginShutDown, PipelineTypes
    <2>3. Len(requests.items) \in Nat /\ count \in Nat /\ count' = count + Cardinality(Threads)
      BY <1>7 DEF PipelineTypes, SemaphoreTypeOK, BeginShutDown, Release
    <2> QED BY <1>0, <1>7, <2>1, <2>2, <2>3 DEF BeginShutDown, RequestsAreCovered, Count
  <1> QED
    BY <1>1, <1>2, <1>3, <1>4, <1>5, <1>6, <1>7
    DEF MainStep, LoadExisting, DropReference, BeginResponses, FinishResponse,
        EndResponses, EndShutDown

\* A loader thread.  It stops standing for a request by taking one, or where
\* there is none.
LEMMA ThreadCovered ==
    ASSUME CoverInv, SemaphoreInv', NEW t \in Threads, ThreadStep(t) \/ WakeSpuriously(t)
    PROVE  CoverInv'
  <1> USE DEF CoverInv, SemaphoreInv, semaphoreVars
  <1>0. /\ Len(requests.items) \in Nat /\ count \in Nat
        /\ Count(call.at = "signal") \in {0, 1}
    BY DEF PipelineTypes, SemaphoreTypeOK, Count
  <1>1. CASE TestRunning(t)
    <2>1. PICK r : r = IdleThread(IF running THEN "wait" ELSE "ended")
      OBVIOUS
    <2>2. r.at # "dequeue" /\ thread' = [thread EXCEPT ![t] = r] /\ thread[t].at = "loop"
      BY <1>1, <2>1 DEF TestRunning, IdleThread
    <2>3. PipelineTypes'
      BY <1>1, <2>1, <2>2 DEF TestRunning, PipelineTypes, IdleThread, ThreadPlaces
    <2>4. Cardinality(Looking') = Cardinality(Looking) /\ Cardinality(Looking) \in Nat
      BY <2>2, CountLooking
    <2> QED BY <1>1, <2>3, <2>4 DEF TestRunning, RequestsAreCovered
  <1>2. CASE WaitForRequest(t) \/ WakeUp(t)
    <2>1. /\ thread[t].at = "wait" /\ Woken(t)
          /\ sleeping' \union woken' \subseteq sleeping \union woken \union {t}
          /\ t \in sleeping' \union woken' <=> count = 0
          /\ count' = IF count = 0 THEN 0 ELSE count - 1
      BY <1>2 DEF WaitForRequest, WakeUp, WaitOne, Recheck, PipelineTypes, SemaphoreTypeOK
    <2>2. PICK r : /\ r = [thread[t] EXCEPT !.at = IF count = 0 THEN "wait" ELSE "dequeue"]
                   /\ thread' = [thread EXCEPT ![t] = r]
      BY <2>1 DEF Woken
    <2>3. /\ r \in [at : ThreadPlaces, asset : Assets \union {None}, data : BOOLEAN]
          /\ r.at = IF count = 0 THEN "wait" ELSE "dequeue"
      BY <2>2 DEF PipelineTypes, ThreadPlaces
    <2>4. PipelineTypes'
      BY <1>2, <2>1, <2>2, <2>3 DEF WaitForRequest, WakeUp, PipelineTypes
    <2>5. CASE count = 0
      <3>1. Cardinality(Looking') = Cardinality(Looking)
        BY <2>1, <2>2, <2>3, <2>5, CountLooking
      <3> QED BY <1>2, <2>1, <2>4, <2>5, <3>1 DEF WaitForRequest, WakeUp, RequestsAreCovered
    <2>6. CASE count # 0
      <3>1. /\ Cardinality(Looking') = Cardinality(Looking) + 1
            /\ Cardinality(Looking) \in Nat
        BY <2>1, <2>2, <2>3, <2>6, CountLooking
      <3> QED BY <1>0, <1>2, <2>1, <2>4, <2>6, <3>1 DEF WaitForRequest, WakeUp, RequestsAreCovered
    <2> QED BY <2>5, <2>6
  <1>3. CASE DequeueRequest(t)
    <2>1. /\ requests' \in [items : Seq(Assets), fresh : 0 .. RequestSlots]
          /\ Len(requests'.items) = Len(requests.items) - 1
          /\ Head(requests.items) \in Assets
      <3>1. /\ requests \in [items : Seq(Assets), fresh : 0 .. RequestSlots]
            /\ requests.items # <<>> /\ requests' = Dequeued(requests)
        BY <1>3 DEF DequeueRequest, PipelineTypes
      <3> QED BY <3>1, DequeuedType
    <2>2. PipelineTypes'
      BY <1>3, <2>1 DEF DequeueRequest, PipelineTypes, ThreadPlaces
    <2>3. PICK r : /\ r.at # "dequeue" /\ thread[t].at = "dequeue"
                   /\ thread' = [thread EXCEPT ![t] = r]
      BY <1>3 DEF DequeueRequest
    <2>4. /\ Cardinality(Looking') = Cardinality(Looking) - 1
          /\ Cardinality(Looking) \in Nat
      BY <2>3, CountLooking
    <2> QED BY <1>0, <1>3, <2>1, <2>2, <2>4 DEF DequeueRequest, RequestsAreCovered
  <1>4. CASE NoMoreRequests(t)
    <2>1. PipelineTypes'
      BY <1>4 DEF NoMoreRequests, PipelineTypes, IdleThread, ThreadPlaces
    <2>2. Cardinality(Looking') \in Nat
      BY <1>4, CountLooking DEF NoMoreRequests
    <2>3. Len(requests.items) = 0
      BY <1>4 DEF NoMoreRequests
    <2> QED BY <1>0, <1>4, <2>1, <2>2, <2>3 DEF NoMoreRequests, RequestsAreCovered
  <1>5. CASE LoadFile(t)
    <2>1. PICK data \in BOOLEAN : thread' = [thread EXCEPT ![t].at = "answer", ![t].data = data]
      BY <1>5 DEF LoadFile
    <2>2. PICK r : r = [thread[t] EXCEPT !.at = "answer", !.data = data]
      OBVIOUS
    <2>3. thread[t].at = "load" /\ thread[t].asset \in Assets
          /\ thread[t] \in [at : ThreadPlaces, asset : Assets \union {None}, data : BOOLEAN]
      BY <1>5 DEF LoadFile, PipelineTypes
    <2>4. r.at = "answer" /\ r.asset = thread[t].asset
          /\ r \in [at : ThreadPlaces, asset : Assets \union {None}, data : BOOLEAN]
      BY <2>2, <2>3 DEF ThreadPlaces
    <2>5. thread' = [thread EXCEPT ![t] = r]
      BY <2>1, <2>2 DEF PipelineTypes
    <2>6. UNCHANGED <<call, requests, responses, semaphoreVars>>
      BY <1>5 DEF LoadFile
    <2>7. PipelineTypes'
      BY <2>3, <2>4, <2>5, <2>6 DEF PipelineTypes
    <2>8. Cardinality(Looking') = Cardinality(Looking) /\ Cardinality(Looking) \in Nat
      BY <2>3, <2>4, <2>5, CountLooking
    <2> QED BY <2>7, <2>8, <2>6 DEF RequestsAreCovered
  <1>6. CASE EnqueueResponse(t)
    <2>1. Response(thread[t].asset, thread[t].data) \in [asset : Assets, data : BOOLEAN]
      BY <1>6 DEF EnqueueResponse, Response, PipelineTypes
    <2>2. responses' \in [items : Seq([asset : Assets, data : BOOLEAN]), fresh : 0 .. ResponseSlots]
      BY <1>6, <2>1, EnqueuedType, AssetLoaderAssumption DEF EnqueueResponse, PipelineTypes
    <2>3. PipelineTypes'
      BY <1>6, <2>2 DEF EnqueueResponse, PipelineTypes, IdleThread, ThreadPlaces
    <2>4. /\ Cardinality(Looking) \in Nat /\ Cardinality(Looking') \in Nat
          /\ Cardinality(Looking) <= Cardinality(Looking')
      <3>1. PICK r : thread[t].at # "dequeue" /\ thread' = [thread EXCEPT ![t] = r]
        BY <1>6 DEF EnqueueResponse
      <3>2. \/ Cardinality(Looking') = Cardinality(Looking) + 1
            \/ Cardinality(Looking') = Cardinality(Looking)
        BY <3>1, CountLooking
      <3> QED BY <3>1, <3>2, LookingIsFinite, CountLooking
    <2> QED BY <1>0, <1>6, <2>3, <2>4 DEF EnqueueResponse, RequestsAreCovered
  <1>7. CASE RetryResponse(t)
    <2>1. responses' \in [items : Seq([asset : Assets, data : BOOLEAN]), fresh : 0 .. ResponseSlots]
      BY <1>7, AttemptedType, AssetLoaderAssumption DEF RetryResponse, PipelineTypes
    <2>2. PipelineTypes'
      BY <1>7, <2>1 DEF RetryResponse, PipelineTypes
    <2> QED BY <1>7, <2>2 DEF RetryResponse, RequestsAreCovered, Looking
  <1>8. CASE WakeSpuriously(t)
    <2>1. PipelineTypes'
      BY <1>8 DEF WakeSpuriously, WakeUnasked, PipelineTypes
    <2> QED BY <1>8, <2>1 DEF WakeSpuriously, WakeUnasked, RequestsAreCovered, Looking
  <1> QED BY <1>1, <1>2, <1>3, <1>4, <1>5, <1>6, <1>7, <1>8 DEF ThreadStep

LEMMA NextCovered == CoverInv /\ [Next]_vars => CoverInv'
  <1> SUFFICES ASSUME CoverInv, [Next]_vars PROVE CoverInv'
    OBVIOUS
  <1>1. SemaphoreInv'
    <2>1. SemaphoreInv
      BY DEF CoverInv, PipelineTypes, SemaphoreInv
    <2> QED BY <2>1, StepsOfTheSemaphore, SemaphoreNextInv
  <1>2. CASE UNCHANGED vars
    BY <1>1, <1>2 DEF CoverInv, SemaphoreInv, vars, semaphoreVars, PipelineTypes, RequestsAreCovered, Looking
  <1> QED BY <1>1, <1>2, MainCovered, ThreadCovered DEF Next

\* Every request in m_LoadRequests has a permit, a coming Release or a thread
\* that is about to dequeue; threads that end on unreadable files and ShutDown
\* do not change that.
THEOREM NoRequestIsForgotten == Spec => []RequestsAreCovered
  <1>1. Spec => []CoverInv
    BY InitCovered, NextCovered, PTL DEF Spec
  <1> QED
    BY <1>1, PTL DEF CoverInv

\* While a loader thread sleeps on m_LoadSemaphore there are never more permits
\* than loader threads that were woken for them: the requests and ShutDown
\* release it while threads come and go, also by ending.
THEOREM NoWakeUpIsLost == Spec => []SleepersNotForgotten
  <1>1. Spec => []CoverInv
    BY InitCovered, NextCovered, PTL DEF Spec
  <1> QED
    BY <1>1, PTL DEF CoverInv

-----------------------------------------------------------------------------
(* References and requests.                                                 *)

AssetRecord == [refs : Nat, state : States, error : BOOLEAN]
AssetTypes(as) == DOMAIN as \subseteq Assets /\ \A a \in DOMAIN as : as[a] \in AssetRecord

\* The parts of InFlight, and the pointer that the main thread has while it
\* runs the callbacks.
Answers(a) == {r \in [asset : Assets, data : BOOLEAN] : r.asset = a}
InCall(c, a) == Count(c.at = "enqueue" /\ c.asset = a)
InRequests(q, a) == Occurrences(q.items, {a})
InThreads(th, a) == Cardinality({t \in Threads : th[t].asset = a})
InResponses(q, a) == Occurrences(q.items, Answers(a))
OnStack(m, a) == Count(m.at = "callbacks" /\ m.asset = a)

Flight(c, q, th, rs, a) == InCall(c, a) + InRequests(q, a) + InThreads(th, a) + InResponses(rs, a)

\* u references are held, f requests are on their way, k callbacks run.
Balanced(as, u, f, k, a) ==
    IF a \in DOMAIN as
    THEN as[a].refs = u + f + k /\ f = Count(as[a].state = "loading")
    ELSE u = 0 /\ f = 0 /\ k = 0

\* The asset of a call is loading, because only the main thread could take the
\* answer and it is in the call.
RefInv ==
    /\ PipelineTypes
    /\ AssetTypes(assets)
    /\ users \in [Assets -> Nat]
    /\ main \in [at : MainPlaces, asset : Assets \union {None}]
    /\ main.at = "callbacks" => main.asset \in Assets
    /\ \A t \in Threads : thread[t].at \notin {"load", "answer"} => thread[t].asset = None
    /\ call.at # "none" => call.asset \in DOMAIN assets /\ assets[call.asset].state = "loading"
    /\ \A a \in Assets :
          Balanced(assets, users[a], Flight(call, requests, thread, responses, a), OnStack(main, a), a)

LEMMA PartsAreNatural ==
    ASSUME NEW a, NEW c, NEW th, NEW m,
           NEW q, q.items \in Seq(Assets),
           NEW rs, rs.items \in Seq([asset : Assets, data : BOOLEAN])
    PROVE  /\ InCall(c, a) \in {0, 1} /\ OnStack(m, a) \in {0, 1}
           /\ InRequests(q, a) \in Nat /\ InResponses(rs, a) \in Nat
           /\ InThreads(th, a) \in Nat /\ IsFiniteSet({t \in Threads : th[t].asset = a})
<1>1. IsFiniteSet({t \in Threads : th[t].asset = a})
  BY FS_Subset, ThreadsAssumption
<1>2. InThreads(th, a) \in Nat
  BY <1>1, FS_CardinalityType DEF InThreads
<1>3. InRequests(q, a) \in Nat /\ InResponses(rs, a) \in Nat
  BY OccurrencesAreNatural DEF InRequests, InResponses
<1> QED BY <1>1, <1>2, <1>3 DEF InCall, OnStack, Count

\* One thread takes up or gives up an asset.
Held(th, next, t, r, a) ==
    /\ r.asset = a /\ th[t].asset # a => InThreads(next, a) = InThreads(th, a) + 1
    /\ r.asset # a /\ th[t].asset = a => InThreads(next, a) = InThreads(th, a) - 1
    /\ (r.asset = a <=> th[t].asset = a) => InThreads(next, a) = InThreads(th, a)

LEMMA HoldingChanges ==
    ASSUME NEW th, th \in [Threads -> [at : ThreadPlaces, asset : Assets \union {None}, data : BOOLEAN]],
           NEW t \in Threads, NEW r, NEW a \in Assets, NEW next, next = [th EXCEPT ![t] = r]
    PROVE  Held(th, next, t, r, a)
  <1> DEFINE old == {x \in Threads : th[x].asset = a}
             new == {x \in Threads : next[x].asset = a}
  <1>1. IsFiniteSet(old) /\ Cardinality(old) \in Nat
    <2>1. old \subseteq Threads
      OBVIOUS
    <2> QED BY <2>1, FS_Subset, FS_CardinalityType, ThreadsAssumption
  <1>2. t \in old <=> th[t].asset = a
    OBVIOUS
  <1>3. new = IF r.asset = a THEN old \union {t} ELSE old \ {t}
    OBVIOUS
  <1> HIDE DEF old, new
  <1>4. Cardinality(old \union {t}) = IF t \in old THEN Cardinality(old) ELSE Cardinality(old) + 1
    BY <1>1, FS_AddElement
  <1>5. Cardinality(old \ {t}) = IF t \in old THEN Cardinality(old) - 1 ELSE Cardinality(old)
    BY <1>1, FS_RemoveElement
  <1>6. Cardinality(new) = Cardinality(old) + Count(r.asset = a) - Count(th[t].asset = a)
    BY <1>1, <1>2, <1>3, <1>4, <1>5 DEF Count
  <1>7. InThreads(next, a) = InThreads(th, a) + Count(r.asset = a) - Count(th[t].asset = a)
    BY <1>6 DEF InThreads, old, new
  <1>8. InThreads(th, a) \in Nat
    BY <1>1 DEF InThreads, old
  <1> QED BY <1>7, <1>8 DEF Count, Held

LEMMA RequestsChange ==
    ASSUME NEW q, q.items \in Seq(Assets), NEW a
    PROVE  /\ \A x \in Assets : InRequests(Enqueued(q, x), a) = InRequests(q, a) + Count(x = a)
           /\ InRequests(Attempted(q), a) = InRequests(q, a)
           /\ q.items # <<>> => InRequests(Dequeued(q), a) = InRequests(q, a) - Count(Head(q.items) = a)
  <1>1. ASSUME NEW x \in Assets PROVE InRequests(Enqueued(q, x), a) = InRequests(q, a) + Count(x = a)
    <2>1. Enqueued(q, x).items = Append(q.items, x)
      BY DEF Enqueued
    <2>2. Occurrences(Append(q.items, x), {a}) = Occurrences(q.items, {a}) + IF x \in {a} THEN 1 ELSE 0
      BY OccurrencesAfterAppend
    <2> QED BY <2>1, <2>2 DEF InRequests, Count
  <1>2. InRequests(Attempted(q), a) = InRequests(q, a)
    BY DEF Attempted, InRequests
  <1>3. ASSUME q.items # <<>>
        PROVE  InRequests(Dequeued(q), a) = InRequests(q, a) - Count(Head(q.items) = a)
    <2>1. Dequeued(q).items = Tail(q.items)
      BY DEF Dequeued
    <2>2. Occurrences(Tail(q.items), {a})
            = Occurrences(q.items, {a}) - IF Head(q.items) \in {a} THEN 1 ELSE 0
      BY <1>3, OccurrencesAfterTail
    <2> QED BY <2>1, <2>2 DEF InRequests, Count
  <1> QED BY <1>1, <1>2, <1>3

Answer == [asset : Assets, data : BOOLEAN]

LEMMA ResponseAdded ==
    ASSUME NEW q, q.items \in Seq(Answer), NEW a, NEW x \in Answer
    PROVE  InResponses(Enqueued(q, x), a) = InResponses(q, a) + Count(x.asset = a)
  <1>1. Enqueued(q, x).items = Append(q.items, x)
    BY DEF Enqueued
  <1>2. Occurrences(Append(q.items, x), Answers(a))
          = Occurrences(q.items, Answers(a)) + IF x \in Answers(a) THEN 1 ELSE 0
    BY OccurrencesAfterAppend
  <1>3. x \in Answers(a) <=> x.asset = a
    BY DEF Answers, Answer
  <1> QED BY <1>1, <1>2, <1>3 DEF InResponses, Count

LEMMA ResponseTaken ==
    ASSUME NEW q, q.items \in Seq(Answer), NEW a, q.items # <<>>
    PROVE  /\ Head(q.items).asset \in Assets
           /\ InResponses(Dequeued(q), a) = InResponses(q, a) - Count(Head(q.items).asset = a)
  <1>1. Dequeued(q).items = Tail(q.items) /\ Head(q.items) \in Answer
    BY HeadTailProperties DEF Dequeued
  <1>2. Occurrences(Tail(q.items), Answers(a))
          = Occurrences(q.items, Answers(a)) - IF Head(q.items) \in Answers(a) THEN 1 ELSE 0
    BY OccurrencesAfterTail
  <1>3. /\ Head(q.items) \in Answers(a) <=> Head(q.items).asset = a
        /\ Head(q.items).asset \in Assets
    BY <1>1 DEF Answers, Answer
  <1> QED BY <1>1, <1>2, <1>3 DEF InResponses, Count

\* The parts are what InFlight counts.
LEMMA PartsOfFlight ==
    ASSUME PipelineTypes, NEW a \in Assets
    PROVE  InFlight(a) = Flight(call, requests, thread, responses, a)
  <1>1. {i \in DOMAIN requests.items : requests.items[i] = a}
           = {i \in DOMAIN requests.items : requests.items[i] \in {a}}
    OBVIOUS
  <1>2. {i \in DOMAIN responses.items : responses.items[i].asset = a}
           = {i \in DOMAIN responses.items : responses.items[i] \in Answers(a)}
    <2>1. responses.items \in Seq([asset : Assets, data : BOOLEAN])
      BY DEF PipelineTypes
    <2>2. \A i \in DOMAIN responses.items : responses.items[i] \in [asset : Assets, data : BOOLEAN]
      BY <2>1, ElementOfSeq, LenProperties
    <2> QED BY <2>2 DEF Answers
  <1> QED BY <1>1, <1>2 DEF InFlight, Flight, InCall, InRequests, InThreads, InResponses, Occurrences

LEMMA CountedRecord ==
    ASSUME NEW old \in AssetRecord, NEW n \in Nat,
           NEW r, r = [old EXCEPT !.refs = n]
    PROVE  r \in AssetRecord /\ r.refs = n /\ r.state = old.state
  BY DEF AssetRecord

\* One reference more.
LEMMA IncRefShape ==
    ASSUME NEW as, AssetTypes(as), NEW a \in DOMAIN as,
           NEW next, next = IncRef(as, a)
    PROVE  /\ AssetTypes(next) /\ DOMAIN next = DOMAIN as
           /\ next[a].refs = as[a].refs + 1
           /\ \A b \in DOMAIN as : next[b].state = as[b].state
           /\ \A b \in DOMAIN as \ {a} : next[b].refs = as[b].refs
  <1>1. PICK old \in AssetRecord : old = as[a]
    BY DEF AssetTypes
  <1>2. PICK r : r = [old EXCEPT !.refs = old.refs + 1]
    OBVIOUS
  <1>3. old.refs + 1 \in Nat
    BY DEF AssetRecord
  <1>4. r \in AssetRecord /\ r.refs = old.refs + 1 /\ r.state = old.state
    BY <1>2, <1>3, CountedRecord
  <1>5. next = [as EXCEPT ![a] = r]
    BY <1>1, <1>2 DEF IncRef
  <1> QED BY <1>1, <1>4, <1>5 DEF AssetTypes

\* One reference less; the last one takes the asset with it.
OneLess(as, next, a) ==
    /\ AssetTypes(next)
    /\ DOMAIN next = IF as[a].refs = 1 THEN DOMAIN as \ {a} ELSE DOMAIN as
    /\ as[a].refs # 1 => next[a].refs = as[a].refs - 1
    /\ \A b \in DOMAIN next : next[b].state = as[b].state
    /\ \A b \in DOMAIN next \ {a} : next[b].refs = as[b].refs

LEMMA DecRefShape ==
    ASSUME NEW as, AssetTypes(as), NEW a \in DOMAIN as, as[a].refs \in Nat \ {0},
           NEW next, next = DecRef(as, a)
    PROVE  OneLess(as, next, a)
  <1>1. CASE as[a].refs = 1
    <2>1. next = [b \in DOMAIN as \ {a} |-> as[b]]
      BY <1>1 DEF DecRef
    <2> QED BY <1>1, <2>1 DEF AssetTypes, OneLess
  <1>2. CASE as[a].refs # 1
    <2>1. PICK old \in AssetRecord : old = as[a]
      BY DEF AssetTypes
    <2>2. PICK r : r = [old EXCEPT !.refs = old.refs - 1]
      OBVIOUS
    <2>3. old.refs - 1 \in Nat
      <3>1. old.refs \in Nat \ {0}
        BY <2>1
      <3> QED BY <3>1
    <2>4. r \in AssetRecord /\ r.refs = old.refs - 1 /\ r.state = old.state
      BY <2>2, <2>3, CountedRecord
    <2>5. next = [as EXCEPT ![a] = r]
      BY <1>2, <2>1, <2>2 DEF DecRef
    <2> QED BY <1>2, <2>1, <2>4, <2>5 DEF AssetTypes, OneLess
  <1> QED BY <1>1, <1>2

LEMMA InitBalanced == Init => RefInv
  <1> SUFFICES ASSUME Init PROVE RefInv
    OBVIOUS
  <1>1. PipelineTypes
    BY InitCovered DEF CoverInv
  <1>2. ASSUME NEW a \in Assets
        PROVE  Balanced(assets, users[a], Flight(call, requests, thread, responses, a), OnStack(main, a), a)
    <2>1. /\ InCall(call, a) = 0 /\ OnStack(main, a) = 0 /\ users[a] = 0
          /\ a \notin DOMAIN assets
      BY DEF Init, NoCall, InCall, OnStack, Count
    <2>2. {t \in Threads : thread[t].asset = a} = {}
      BY AssetLoaderAssumption DEF Init, IdleThread
    <2>3. InThreads(thread, a) = 0
      BY <2>2, FS_EmptySet DEF InThreads
    <2>4. \A V : Occurrences(<<>>, V) = 0
      <3>1. ASSUME NEW V PROVE {i \in DOMAIN <<>> : <<>>[i] \in V} = {}
        OBVIOUS
      <3> QED BY <3>1, FS_EmptySet, Zenon DEF Occurrences
    <2>5. InRequests(requests, a) = 0 /\ InResponses(responses, a) = 0
      BY <2>4 DEF Init, NewQueue, InRequests, InResponses
    <2> QED BY <2>1, <2>3, <2>5 DEF Balanced, Flight
  <1>3. /\ AssetTypes(assets) /\ users \in [Assets -> Nat]
        /\ main \in [at : MainPlaces, asset : Assets \union {None}]
        /\ main.at = "idle" /\ call.at = "none"
        /\ \A t \in Threads : thread[t].asset = None
    BY DEF Init, AssetTypes, MainPlaces, NoCall, IdleThread
  <1> QED BY <1>1, <1>2, <1>3 DEF RefInv

LEMMA NumbersAreNatural ==
    ASSUME RefInv, NEW a \in Assets
    PROVE  /\ InCall(call, a) \in {0, 1} /\ OnStack(main, a) \in {0, 1} /\ users[a] \in Nat
           /\ InRequests(requests, a) \in Nat /\ InResponses(responses, a) \in Nat
           /\ InThreads(thread, a) \in Nat
           /\ Flight(call, requests, thread, responses, a) \in Nat
           /\ Flight(call, requests, thread, responses, a)
                = InCall(call, a) + InRequests(requests, a) + InThreads(thread, a) + InResponses(responses, a)
  <1>1. /\ requests.items \in Seq(Assets)
        /\ responses.items \in Seq([asset : Assets, data : BOOLEAN])
    BY DEF RefInv, PipelineTypes
  <1>2. users[a] \in Nat
    BY DEF RefInv
  <1>3. /\ InCall(call, a) \in {0, 1} /\ OnStack(main, a) \in {0, 1}
        /\ InRequests(requests, a) \in Nat /\ InResponses(responses, a) \in Nat
        /\ InThreads(thread, a) \in Nat
    BY <1>1, PartsAreNatural
  <1> QED BY <1>2, <1>3 DEF Flight

\* What is true of a on the way, in use or in a callback: it exists.
LEMMA UsedAssetExists ==
    ASSUME RefInv, NEW a \in Assets,
           \/ users[a] > 0
           \/ Flight(call, requests, thread, responses, a) >= 1
           \/ main.at = "callbacks" /\ main.asset = a
    PROVE  /\ a \in DOMAIN assets
           /\ assets[a].refs = users[a] + Flight(call, requests, thread, responses, a) + OnStack(main, a)
           /\ Flight(call, requests, thread, responses, a) = Count(assets[a].state = "loading")
           /\ assets[a].refs \in Nat \ {0}
  <1>1. Balanced(assets, users[a], Flight(call, requests, thread, responses, a), OnStack(main, a), a)
    BY DEF RefInv
  <1>2. main.at = "callbacks" /\ main.asset = a => OnStack(main, a) = 1
    BY DEF OnStack, Count
  <1> QED BY <1>1, <1>2, NumbersAreNatural DEF Balanced

\* Users come and go; nothing moves.
LEMMA UsersBalanced ==
    ASSUME RefInv, PipelineTypes', NEW a \in Assets, LoadExisting(a) \/ DropReference(a)
    PROVE  RefInv'
  <1> DEFINE F(b) == Flight(call, requests, thread, responses, b)
  <1>1. /\ UNCHANGED <<main, call, requests, responses, thread>> /\ call.at = "none"
    BY DEF LoadExisting, DropReference, InUserCode, NoCall
  <1>2. /\ AssetTypes(assets')
        /\ users' \in [Assets -> Nat]
        /\ \A b \in Assets : Balanced(assets', users'[b], F(b), OnStack(main, b), b)
    <2>1. CASE LoadExisting(a)
      <3>1. /\ a \in DOMAIN assets /\ assets' = IncRef(assets, a)
            /\ users' = [users EXCEPT ![a] = users[a] + 1]
        BY <2>1 DEF LoadExisting
      <3>2. /\ AssetTypes(assets') /\ DOMAIN assets' = DOMAIN assets
            /\ assets'[a].refs = assets[a].refs + 1
            /\ \A b \in DOMAIN assets : assets'[b].state = assets[b].state
            /\ \A b \in DOMAIN assets \ {a} : assets'[b].refs = assets[b].refs
        BY <3>1, IncRefShape DEF RefInv
      <3>3. users' \in [Assets -> Nat]
        BY <3>1 DEF RefInv
      <3>4. ASSUME NEW b \in Assets PROVE Balanced(assets', users'[b], F(b), OnStack(main, b), b)
        <4>1. Balanced(assets, users[b], F(b), OnStack(main, b), b)
          BY DEF RefInv
        <4>2. F(b) \in Nat /\ OnStack(main, b) \in {0, 1} /\ users[b] \in Nat
          BY NumbersAreNatural
        <4>3. users'[b] = IF b = a THEN users[b] + 1 ELSE users[b]
          BY <3>1 DEF RefInv
        <4> HIDE DEF F
        <4> QED BY <3>1, <3>2, <4>1, <4>2, <4>3 DEF Balanced
      <3> QED BY <3>2, <3>3, <3>4
    <2>2. CASE DropReference(a)
      <3>1. /\ users[a] > 0 /\ assets' = DecRef(assets, a)
            /\ users' = [users EXCEPT ![a] = users[a] - 1]
        BY <2>2 DEF DropReference
      <3>2. a \in DOMAIN assets /\ assets[a].refs \in Nat \ {0} /\ AssetTypes(assets)
        BY <3>1, UsedAssetExists DEF RefInv
      <3>3. OneLess(assets, assets', a)
        BY <3>1, <3>2, DecRefShape, Zenon
      <3>4. users' \in [Assets -> Nat]
        BY <3>1 DEF RefInv
      <3>5. ASSUME NEW b \in Assets PROVE Balanced(assets', users'[b], F(b), OnStack(main, b), b)
        <4>1. Balanced(assets, users[b], F(b), OnStack(main, b), b)
          BY DEF RefInv
        <4>2. F(b) \in Nat /\ OnStack(main, b) \in {0, 1} /\ users[b] \in Nat
          BY NumbersAreNatural
        <4>3. users'[b] = IF b = a THEN users[b] - 1 ELSE users[b]
          BY <3>1 DEF RefInv
        <4> HIDE DEF F
        <4> QED BY <3>1, <3>2, <3>3, <4>1, <4>2, <4>3 DEF Balanced, OneLess
      <3> QED BY <3>3, <3>4, <3>5 DEF OneLess
    <2> QED BY <2>1, <2>2
  <1> QED BY <1>1, <1>2 DEF RefInv

\* What a step has to leave alone to keep the balance: the references, who
\* holds them, and how much is on its way.
Kept ==
    /\ users' = users
    /\ AssetTypes(assets') /\ DOMAIN assets' = DOMAIN assets
    /\ \A b \in DOMAIN assets : assets'[b].refs = assets[b].refs /\ assets'[b].state = assets[b].state
    /\ main' \in [at : MainPlaces, asset : Assets \union {None}]
    /\ main'.at = "callbacks" => main'.asset \in Assets
    /\ \A t \in Threads : thread'[t].at \notin {"load", "answer"} => thread'[t].asset = None
    /\ call'.at # "none" => call.at # "none" /\ call'.asset = call.asset
    /\ \A b \in Assets :
        /\ OnStack(main', b) = OnStack(main, b)
        /\ Flight(call', requests', thread', responses', b) = Flight(call, requests, thread, responses, b)

LEMMA KeptBalanced ==
    ASSUME RefInv, PipelineTypes', Kept
    PROVE  RefInv'
  <1>1. ASSUME NEW b \in Assets
        PROVE  Balanced(assets', users'[b], Flight(call', requests', thread', responses', b), OnStack(main', b), b)
    <2>1. Balanced(assets, users[b], Flight(call, requests, thread, responses, b), OnStack(main, b), b)
      BY DEF RefInv
    <2> QED BY <2>1 DEF Balanced, Kept
  <1>2. call'.at # "none" => call'.asset \in DOMAIN assets' /\ assets'[call'.asset].state = "loading"
    BY DEF RefInv, Kept
  <1>3. users' \in [Assets -> Nat]
    BY DEF RefInv, Kept
  <1> QED BY <1>1, <1>2, <1>3 DEF RefInv, Kept

\* Steps of the main thread that move a request on or move nothing.
LEMMA MainKeeps ==
    ASSUME RefInv, PipelineTypes',
           \/ EnqueueRequest \/ RetryRequest \/ BeginResponses \/ EndResponses
           \/ BeginShutDown \/ EndShutDown
    PROVE  RefInv'
  <1>1. UNCHANGED <<assets, users, responses, thread>>
    BY DEF EnqueueRequest, RetryRequest, BeginResponses, EndResponses, BeginShutDown, EndShutDown
  <1>2. /\ main' \in [at : MainPlaces, asset : Assets \union {None}]
        /\ main' = main \/ (main.at # "callbacks" /\ main'.at # "callbacks")
    BY DEF EnqueueRequest, RetryRequest, BeginResponses, EndResponses, BeginShutDown, EndShutDown,
      RefInv, MainPlaces
  <1>3. \A b \in Assets : OnStack(main', b) = OnStack(main, b)
    BY <1>2 DEF OnStack, Count
  <1>4. /\ call'.at # "none" => call.at # "none" /\ call'.asset = call.asset
        /\ \A b \in Assets : Flight(call', requests', thread, responses, b) = Flight(call, requests, thread, responses, b)
    <2>0. requests.items \in Seq(Assets)
      BY DEF RefInv, PipelineTypes
    <2>1. CASE EnqueueRequest
      <3>1. /\ call.at = "enqueue" /\ call.asset \in Assets /\ call' = [call EXCEPT !.at = "signal"]
            /\ requests' = Enqueued(requests, call.asset)
        BY <2>1 DEF EnqueueRequest, RefInv, PipelineTypes
      <3>2. call'.at = "signal" /\ call'.asset = call.asset
        BY <3>1 DEF RefInv, PipelineTypes
      <3>3. ASSUME NEW b \in Assets
            PROVE  Flight(call', requests', thread, responses, b) = Flight(call, requests, thread, responses, b)
        <4>1. InCall(call', b) = 0 /\ InCall(call, b) = Count(call.asset = b)
          BY <3>1, <3>2 DEF InCall, Count
        <4>2. InRequests(requests', b) = InRequests(requests, b) + Count(call.asset = b)
          BY <2>0, <3>1, RequestsChange
        <4> QED BY <4>1, <4>2, NumbersAreNatural DEF Flight, Count
      <3> QED BY <3>1, <3>2, <3>3
    <2>2. CASE RetryRequest
      <3>1. requests' = Attempted(requests) /\ call' = call
        BY <2>2 DEF RetryRequest
      <3>2. \A b \in Assets : InRequests(requests', b) = InRequests(requests, b)
        BY <2>0, <3>1, RequestsChange
      <3> QED BY <3>1, <3>2 DEF Flight
    <2>3. CASE requests' = requests /\ call' = call
      BY <2>3
    <2> QED
      BY <2>1, <2>2, <2>3 DEF BeginResponses, EndResponses, BeginShutDown, EndShutDown
  <1>5. Kept
    <2>1. main'.at = "callbacks" => main'.asset \in Assets
      BY <1>2 DEF RefInv
    <2> QED BY <1>1, <1>2, <1>3, <1>4, <2>1 DEF Kept, RefInv
  <1> QED BY <1>5, KeptBalanced

SameHolding(th, next) ==
    \A x \in Threads : /\ next[x].asset = th[x].asset
                       /\ next[x].at \in {"load", "answer"} <=> th[x].at \in {"load", "answer"}

LEMMA IdlesOn ==
    ASSUME NEW th, th \in [Threads -> [at : ThreadPlaces, asset : Assets \union {None}, data : BOOLEAN]],
           NEW t \in Threads, th[t].asset = None, th[t].at \notin {"load", "answer"},
           NEW at, at \notin {"load", "answer"},
           NEW next, next = [th EXCEPT ![t] = IdleThread(at)]
    PROVE  SameHolding(th, next)
  BY DEF IdleThread, SameHolding

\* A thread without an asset goes on without one.
LEMMA IdleThreadKeeps ==
    ASSUME RefInv, PipelineTypes', NEW t \in Threads,
           \/ TestRunning(t) \/ WaitForRequest(t) \/ WakeUp(t) \/ WakeSpuriously(t)
           \/ NoMoreRequests(t) \/ RetryResponse(t)
    PROVE  RefInv'
  <1>1. UNCHANGED <<assets, users, main, call, requests>>
    BY DEF TestRunning, WaitForRequest, WakeUp, WakeSpuriously, NoMoreRequests, RetryResponse
  <1>2. SameHolding(thread, thread')
    <2>1. CASE thread' = thread
      BY <2>1 DEF SameHolding
    <2>2. /\ thread \in [Threads -> [at : ThreadPlaces, asset : Assets \union {None}, data : BOOLEAN]]
          /\ thread[t].at \notin {"load", "answer"} => thread[t].asset = None
      BY DEF RefInv, PipelineTypes
    <2>3. CASE TestRunning(t)
      <3>1. PICK at : at = IF running THEN "wait" ELSE "ended"
        OBVIOUS
      <3>2. /\ at \notin {"load", "answer"} /\ thread[t].at = "loop"
            /\ thread' = [thread EXCEPT ![t] = IdleThread(at)]
        BY <2>3, <3>1 DEF TestRunning
      <3>3. thread[t].asset = None /\ thread[t].at \notin {"load", "answer"}
        BY <2>2, <3>2
      <3> QED BY <2>2, <3>2, <3>3, IdlesOn, Zenon
    <2>4. CASE NoMoreRequests(t)
      <3>1. PICK at : at = "loop"
        OBVIOUS
      <3>2. /\ at \notin {"load", "answer"} /\ thread[t].at = "dequeue"
            /\ thread' = [thread EXCEPT ![t] = IdleThread(at)]
        BY <2>4, <3>1 DEF NoMoreRequests
      <3>3. thread[t].asset = None /\ thread[t].at \notin {"load", "answer"}
        BY <2>2, <3>2
      <3> QED BY <2>2, <3>2, <3>3, IdlesOn, Zenon
    <2>5. CASE WaitForRequest(t) \/ WakeUp(t)
      <3>1. thread[t].at = "wait" /\ Woken(t)
        BY <2>5 DEF WaitForRequest, WakeUp, Recheck, RefInv, PipelineTypes
      <3>2. PICK at : at = IF count = 0 THEN "wait" ELSE "dequeue"
        OBVIOUS
      <3>3. at \notin {"load", "answer"} /\ thread' = [thread EXCEPT ![t].at = at]
        BY <3>1, <3>2 DEF Woken
      <3>4. PICK old : old = thread[t]
        OBVIOUS
      <3>5. old \in [at : ThreadPlaces, asset : Assets \union {None}, data : BOOLEAN] /\ old.at = "wait"
        BY <3>1, <3>4 DEF RefInv, PipelineTypes
      <3>6. PICK r : r = [old EXCEPT !.at = at]
        OBVIOUS
      <3>7. r.asset = old.asset /\ r.at = at
        BY <3>5, <3>6
      <3>8. thread' = [thread EXCEPT ![t] = r]
        BY <3>3, <3>4, <3>6
      <3> QED BY <2>2, <3>3, <3>4, <3>5, <3>7, <3>8 DEF SameHolding
    <2> QED BY <2>1, <2>3, <2>4, <2>5 DEF WakeSpuriously, RetryResponse
  <1>3. \A b \in Assets : InThreads(thread', b) = InThreads(thread, b)
    BY <1>2 DEF InThreads, SameHolding
  <1>4. \A b \in Assets : InResponses(responses', b) = InResponses(responses, b)
    <2>1. CASE RetryResponse(t)
      <3>1. responses' = Attempted(responses) /\ responses.items \in Seq([asset : Assets, data : BOOLEAN])
        BY <2>1 DEF RetryResponse, RefInv, PipelineTypes
      <3>2. ASSUME NEW b \in Assets PROVE InResponses(Attempted(responses), b) = InResponses(responses, b)
        BY DEF Attempted, InResponses
      <3> QED BY <3>1, <3>2
    <2>2. CASE responses' = responses
      BY <2>2
    <2> QED
      BY <2>1, <2>2 DEF TestRunning, WaitForRequest, WakeUp, WakeSpuriously, NoMoreRequests
  <1>5. Kept
    <2>1. \A b \in Assets : Flight(call', requests', thread', responses', b) = Flight(call, requests, thread, responses, b)
      BY <1>1, <1>3, <1>4 DEF Flight
    <2> QED BY <1>1, <1>2, <2>1 DEF Kept, RefInv, SameHolding
  <1> QED BY <1>5, KeptBalanced

\* The thread takes the asset of the request with it.
LEMMA DequeueKeeps ==
    ASSUME RefInv, PipelineTypes', NEW t \in Threads, DequeueRequest(t)
    PROVE  RefInv'
  <1>1. /\ thread[t].at = "dequeue" /\ requests.items # <<>> /\ requests' = Dequeued(requests)
        /\ UNCHANGED <<assets, users, main, call, responses>>
    BY DEF DequeueRequest
  <1>2. /\ requests.items \in Seq(Assets)
        /\ thread \in [Threads -> [at : ThreadPlaces, asset : Assets \union {None}, data : BOOLEAN]]
        /\ thread[t].asset = None
    BY <1>1 DEF RefInv, PipelineTypes
  <1>3. PICK r : r = [at |-> "load", asset |-> Head(requests.items), data |-> FALSE]
    OBVIOUS
  <1>4. thread' = [thread EXCEPT ![t] = r] /\ r.asset = Head(requests.items) /\ r.at = "load"
    BY <1>3 DEF DequeueRequest
  <1>5. \A x \in Threads : thread'[x].at \notin {"load", "answer"} => thread'[x].asset = None
    BY <1>2, <1>4 DEF RefInv
  <1>6. ASSUME NEW b \in Assets
        PROVE  Flight(call', requests', thread', responses', b) = Flight(call, requests, thread, responses, b)
    <2>1. Held(thread, thread', t, r, b)
      BY <1>2, <1>4, HoldingChanges, Zenon
    <2>2. InRequests(requests', b) = InRequests(requests, b) - Count(r.asset = b)
      BY <1>1, <1>2, <1>4, RequestsChange
    <2>3. thread[t].asset # b
      BY <1>2, AssetLoaderAssumption
    <2>4. InThreads(thread', b) = InThreads(thread, b) + Count(r.asset = b)
      BY <2>1, <2>3, NumbersAreNatural DEF Held, Count
    <2>5. Count(r.asset = b) \in {0, 1}
      BY DEF Count
    <2> QED BY <1>1, <2>2, <2>4, <2>5, NumbersAreNatural DEF Flight
  <1>7. Kept
    BY <1>1, <1>5, <1>6 DEF Kept, RefInv
  <1> QED BY <1>7, KeptBalanced

\* The thread hands its asset over to the answer.
LEMMA EnqueueResponseKeeps ==
    ASSUME RefInv, PipelineTypes', NEW t \in Threads, EnqueueResponse(t)
    PROVE  RefInv'
  <1>1. /\ thread[t].at = "answer" /\ thread[t].asset \in Assets
        /\ thread \in [Threads -> [at : ThreadPlaces, asset : Assets \union {None}, data : BOOLEAN]]
        /\ UNCHANGED <<assets, users, main, call, requests>>
    BY DEF EnqueueResponse, RefInv, PipelineTypes
  <1>2. PICK x : x = Response(thread[t].asset, thread[t].data)
    OBVIOUS
  <1>3. x \in Answer /\ x.asset = thread[t].asset
    BY <1>1, <1>2 DEF Response, Answer
  <1>4. /\ responses' = Enqueued(responses, x)
        /\ responses.items \in Seq(Answer)
    BY <1>2 DEF EnqueueResponse, RefInv, PipelineTypes, Answer
  <1>5. PICK r : r = IdleThread(IF thread[t].data THEN "dequeue" ELSE "ended")
    OBVIOUS
  <1>6. thread' = [thread EXCEPT ![t] = r] /\ r.asset = None
    BY <1>5 DEF EnqueueResponse, IdleThread
  <1>7. \A y \in Threads : thread'[y].at \notin {"load", "answer"} => thread'[y].asset = None
    BY <1>1, <1>6 DEF RefInv
  <1>8. ASSUME NEW b \in Assets
        PROVE  Flight(call', requests', thread', responses', b) = Flight(call, requests, thread, responses, b)
    <2>1. Held(thread, thread', t, r, b)
      BY <1>1, <1>6, HoldingChanges, Zenon
    <2>2. InResponses(responses', b) = InResponses(responses, b) + Count(x.asset = b)
      BY <1>3, <1>4, ResponseAdded
    <2>3. r.asset # b
      BY <1>6, AssetLoaderAssumption
    <2>4. InThreads(thread', b) = InThreads(thread, b) - Count(x.asset = b)
      BY <1>3, <2>1, <2>3, NumbersAreNatural DEF Held, Count
    <2>5. Count(x.asset = b) \in {0, 1}
      BY DEF Count
    <2> QED BY <1>1, <2>2, <2>4, <2>5, NumbersAreNatural DEF Flight
  <1>9. Kept
    BY <1>1, <1>7, <1>8 DEF Kept, RefInv
  <1> QED BY <1>9, KeptBalanced

\* The thread writes an error into an asset that its request keeps alive.
LEMMA LoadFileKeeps ==
    ASSUME RefInv, PipelineTypes', NEW t \in Threads, LoadFile(t)
    PROVE  RefInv'
  <1>1. /\ thread[t].at = "load" /\ thread[t].asset \in Assets
        /\ thread \in [Threads -> [at : ThreadPlaces, asset : Assets \union {None}, data : BOOLEAN]]
        /\ UNCHANGED <<users, main, call, requests, responses>>
    BY DEF LoadFile, RefInv, PipelineTypes
  <1>2. PICK a : a = thread[t].asset
    OBVIOUS
  <1>3. PICK data \in BOOLEAN, error \in BOOLEAN :
            /\ assets' = [assets EXCEPT ![a].error = error]
            /\ thread' = [thread EXCEPT ![t].at = "answer", ![t].data = data]
    BY <1>2 DEF LoadFile
  <1>4. PICK r : r = [thread[t] EXCEPT !.at = "answer", !.data = data]
    OBVIOUS
  <1>5. r.asset = thread[t].asset /\ r.at = "answer" /\ thread' = [thread EXCEPT ![t] = r]
    <2>1. PICK old \in [at : ThreadPlaces, asset : Assets \union {None}, data : BOOLEAN] : old = thread[t]
      BY <1>1
    <2>2. r.asset = old.asset /\ r.at = "answer"
      BY <1>4, <2>1
    <2> QED BY <1>1, <1>3, <1>4, <2>1, <2>2
  <1>6. \A x \in Threads : thread'[x].at \notin {"load", "answer"} => thread'[x].asset = None
    BY <1>1, <1>5 DEF RefInv
  <1>7. ASSUME NEW b \in Assets
        PROVE  Flight(call', requests', thread', responses', b) = Flight(call, requests, thread, responses, b)
    <2>1. Held(thread, thread', t, r, b)
      BY <1>1, <1>5, HoldingChanges, Zenon
    <2> QED BY <1>1, <1>5, <2>1, NumbersAreNatural DEF Flight, Count, Held
  <1>8. a \in Assets /\ AssetTypes(assets)
    BY <1>1, <1>2 DEF RefInv
  <1>9. /\ AssetTypes(assets') /\ DOMAIN assets' = DOMAIN assets
        /\ \A b \in DOMAIN assets : assets'[b].refs = assets[b].refs /\ assets'[b].state = assets[b].state
    <2>1. CASE a \notin DOMAIN assets
      BY <1>3, <1>8, <2>1 DEF AssetTypes
    <2>2. CASE a \in DOMAIN assets
      <3>1. PICK old \in AssetRecord : old = assets[a]
        BY <1>8, <2>2 DEF AssetTypes
      <3>2. PICK new : new = [old EXCEPT !.error = error]
        OBVIOUS
      <3>3. new \in AssetRecord /\ new.refs = old.refs /\ new.state = old.state
        BY <3>2 DEF AssetRecord
      <3>4. assets' = [assets EXCEPT ![a] = new]
        BY <1>3, <3>1, <3>2
      <3> QED BY <1>8, <2>2, <3>1, <3>3, <3>4 DEF AssetTypes
    <2> QED BY <2>1, <2>2
  <1>10. Kept
    BY <1>1, <1>6, <1>7, <1>9 DEF Kept, RefInv
  <1> QED BY <1>10, KeptBalanced

\* A new asset begins with the reference of its request.
LEMMA LoadNewBalanced ==
    ASSUME RefInv, PipelineTypes', NEW a \in Assets, LoadNew(a)
    PROVE  RefInv'
  <1>1. /\ a \notin DOMAIN assets /\ call.at = "none"
        /\ call' = [at |-> "enqueue", asset |-> a]
        /\ UNCHANGED <<users, main, requests, responses, thread>>
    BY DEF LoadNew, InUserCode, NoCall
  <1>2. PICK new : new = [refs |-> 1, state |-> "loading", error |-> FALSE]
    OBVIOUS
  <1>3. new \in AssetRecord /\ new.refs = 1 /\ new.state = "loading"
    BY <1>2 DEF AssetRecord, States
  <1>4. assets' = [b \in DOMAIN assets \union {a} |-> IF b = a THEN new ELSE assets[b]]
    BY <1>2 DEF LoadNew
  <1>5. AssetTypes(assets')
    BY <1>3, <1>4 DEF AssetTypes, RefInv
  <1>6. ASSUME NEW b \in Assets
        PROVE  Balanced(assets', users'[b], Flight(call', requests', thread', responses', b), OnStack(main', b), b)
    <2>1. Balanced(assets, users[b], Flight(call, requests, thread, responses, b), OnStack(main, b), b)
      BY DEF RefInv
    <2>2. InCall(call, b) = 0 /\ InCall(call', b) = Count(a = b)
      BY <1>1 DEF InCall, Count
    <2>3. Count(a = b) \in {0, 1}
      BY DEF Count
    <2>4. Flight(call', requests', thread', responses', b) = Flight(call, requests, thread, responses, b) + Count(a = b)
      BY <1>1, <2>2, <2>3, NumbersAreNatural DEF Flight
    <2>5. /\ Flight(call, requests, thread, responses, b) \in Nat
          /\ OnStack(main, b) \in {0, 1} /\ users[b] \in Nat
      BY NumbersAreNatural
    <2>6. CASE b = a
      <3>1. users[b] = 0 /\ Flight(call, requests, thread, responses, b) = 0 /\ OnStack(main, b) = 0
        BY <1>1, <2>1, <2>6 DEF Balanced
      <3>2. Count(a = b) = 1
        BY <2>6 DEF Count
      <3> QED BY <1>1, <1>3, <1>4, <2>4, <2>6, <3>1, <3>2 DEF Balanced, Count
    <2>7. CASE b # a
      <3>1. Count(a = b) = 0
        BY <2>7 DEF Count
      <3>2. Flight(call', requests', thread', responses', b) = Flight(call, requests, thread, responses, b)
        BY <2>4, <2>5, <3>1
      <3>3. (b \in DOMAIN assets' <=> b \in DOMAIN assets) /\ (b \in DOMAIN assets => assets'[b] = assets[b])
        BY <1>4, <2>7
      <3> QED BY <1>1, <2>1, <3>2, <3>3 DEF Balanced
    <2> QED BY <2>6, <2>7
  <1>7. call'.asset \in DOMAIN assets' /\ assets'[call'.asset].state = "loading"
    BY <1>1, <1>3, <1>4
  <1> QED BY <1>1, <1>5, <1>6, <1>7 DEF RefInv

\* The caller of LoadAsset becomes a user.
LEMMA SignalBalanced ==
    ASSUME RefInv, PipelineTypes', SignalRequest
    PROVE  RefInv'
  <1>1. PICK a : a = call.asset
    OBVIOUS
  <1>2. /\ a \in DOMAIN assets /\ a \in Assets /\ AssetTypes(assets) /\ call.at = "signal"
        /\ assets' = IncRef(assets, a) /\ users' = [users EXCEPT ![a] = users[a] + 1]
        /\ call'.at = "none"
        /\ UNCHANGED <<main, requests, responses, thread>>
    BY <1>1 DEF SignalRequest, NoCall, RefInv, AssetTypes
  <1>3. /\ AssetTypes(assets') /\ DOMAIN assets' = DOMAIN assets
        /\ assets'[a].refs = assets[a].refs + 1
        /\ \A b \in DOMAIN assets : assets'[b].state = assets[b].state
        /\ \A b \in DOMAIN assets \ {a} : assets'[b].refs = assets[b].refs
    BY <1>2, IncRefShape
  <1>4. users' \in [Assets -> Nat]
    BY <1>2 DEF RefInv
  <1>5. ASSUME NEW b \in Assets
        PROVE  Balanced(assets', users'[b], Flight(call', requests', thread', responses', b), OnStack(main', b), b)
    <2>1. Balanced(assets, users[b], Flight(call, requests, thread, responses, b), OnStack(main, b), b)
      BY DEF RefInv
    <2>2. InCall(call, b) = 0 /\ InCall(call', b) = 0
      BY <1>2 DEF InCall, Count
    <2>3. PICK f : f = Flight(call, requests, thread, responses, b)
      OBVIOUS
    <2>4. Flight(call', requests', thread', responses', b) = f
      BY <1>2, <2>2, <2>3 DEF Flight
    <2>5. f \in Nat /\ OnStack(main, b) \in {0, 1} /\ users[b] \in Nat
      BY <2>3, NumbersAreNatural
    <2>6. users'[b] = IF b = a THEN users[b] + 1 ELSE users[b]
      BY <1>2 DEF RefInv
    <2> QED BY <1>2, <1>3, <2>1, <2>3, <2>4, <2>5, <2>6 DEF Balanced
  <1> QED BY <1>2, <1>3, <1>4, <1>5 DEF RefInv

\* The answer that is taken is the one thing on its way for its asset; the
\* main thread keeps the reference while the callbacks run.
LEMMA TakeBalanced ==
    ASSUME RefInv, PipelineTypes', TakeResponse
    PROVE  RefInv'
  <1>1. PICK a : a = Head(responses.items).asset
    OBVIOUS
  <1>2. /\ main.at = "responses" /\ call = NoCall /\ responses.items # <<>>
        /\ responses' = Dequeued(responses)
        /\ main' = [main EXCEPT !.at = "callbacks", !.asset = a]
        /\ UNCHANGED <<users, call, requests, thread>>
    BY <1>1 DEF TakeResponse
  <1>3. responses.items \in Seq(Answer) /\ AssetTypes(assets)
    BY DEF RefInv, PipelineTypes, Answer
  <1>4. a \in Assets /\ main'.at = "callbacks" /\ main'.asset = a /\ main' \in [at : MainPlaces, asset : Assets \union {None}]
    <2>1. a \in Assets
      BY <1>1, <1>2, <1>3, ResponseTaken
    <2> QED BY <1>2, <2>1 DEF RefInv, MainPlaces
  <1>5. a \in DOMAIN assets /\ Flight(call, requests, thread, responses, a) = 1
        /\ InResponses(responses, a) = 1
    <2>1. InResponses(responses, a) >= 1
      <3>1. 1 \in DOMAIN responses.items /\ responses.items[1] = Head(responses.items)
        BY <1>2, <1>3, HeadTailProperties, LenProperties, EmptySeq
      <3>2. Head(responses.items) \in Answer
        BY <1>2, <1>3, HeadTailProperties
      <3>3. responses.items[1] \in Answers(a)
        BY <1>1, <3>1, <3>2 DEF Answers, Answer
      <3> QED BY <1>3, <3>1, <3>3, OccurrencesOfMember DEF InResponses
    <2>2. Flight(call, requests, thread, responses, a) >= 1
      BY <1>4, <2>1, NumbersAreNatural
    <2>3. /\ a \in DOMAIN assets
          /\ Flight(call, requests, thread, responses, a) = Count(assets[a].state = "loading")
      BY <1>4, <2>2, UsedAssetExists
    <2>4. Flight(call, requests, thread, responses, a) = 1
      BY <2>2, <2>3 DEF Count
    <2> QED BY <1>4, <2>1, <2>3, <2>4, NumbersAreNatural
  <1>6. PICK state \in {"loaded", "error"}, error \in BOOLEAN :
            assets' = [assets EXCEPT ![a].state = state, ![a].error = error]
    BY <1>1 DEF TakeResponse
  <1>7. PICK old \in AssetRecord : old = assets[a]
    BY <1>3, <1>5 DEF AssetTypes
  <1>8. PICK new : new = [old EXCEPT !.state = state, !.error = error]
    OBVIOUS
  <1>9. new \in AssetRecord /\ new.refs = old.refs /\ new.state # "loading"
    BY <1>6, <1>8 DEF AssetRecord, States
  <1>10. assets' = [assets EXCEPT ![a] = new]
    BY <1>6, <1>7, <1>8
  <1>11. AssetTypes(assets') /\ DOMAIN assets' = DOMAIN assets
    BY <1>3, <1>5, <1>9, <1>10 DEF AssetTypes
  <1>12. ASSUME NEW b \in Assets
        PROVE  Balanced(assets', users'[b], Flight(call', requests', thread', responses', b), OnStack(main', b), b)
    <2>1. Balanced(assets, users[b], Flight(call, requests, thread, responses, b), OnStack(main, b), b)
      BY DEF RefInv
    <2>2. InResponses(responses', b) = InResponses(responses, b) - Count(a = b)
      BY <1>1, <1>2, <1>3, ResponseTaken
    <2>3. OnStack(main, b) = 0 /\ OnStack(main', b) = Count(a = b)
      BY <1>2, <1>4 DEF OnStack, Count
    <2>4. Count(a = b) \in {0, 1}
      BY DEF Count
    <2>5. Flight(call', requests', thread', responses', b) = Flight(call, requests, thread, responses, b) - Count(a = b)
      <3>1. PICK n \in {0, 1} : n = Count(a = b)
        BY <2>4
      <3>2. InResponses(responses', b) = InResponses(responses, b) - n
        BY <2>2, <3>1
      <3>3. Flight(call, requests, thread, responses', b) = Flight(call, requests, thread, responses, b) - n
        BY <3>2, NumbersAreNatural DEF Flight
      <3> QED BY <1>2, <3>1, <3>3
    <2>6. Flight(call, requests, thread, responses, b) \in Nat /\ users[b] \in Nat
      BY NumbersAreNatural
    <2>7. CASE b = a
      <3>1. Count(a = b) = 1
        BY <2>7 DEF Count
      <3>2. /\ Flight(call', requests', thread', responses', b) = 0 /\ OnStack(main', b) = 1
            /\ users'[b] = users[b]
        BY <1>2, <1>5, <2>3, <2>5, <2>7, <3>1
      <3>3. old.refs = users[b] + 1
        BY <1>5, <1>7, <2>1, <2>3, <2>6, <2>7 DEF Balanced
      <3>4. b \in DOMAIN assets' /\ assets'[b] = new
        BY <1>5, <1>10, <2>7
      <3>5. Count(new.state = "loading") = 0
        BY <1>9 DEF Count
      <3> QED BY <1>9, <2>6, <3>2, <3>3, <3>4, <3>5 DEF Balanced
    <2>8. CASE b # a
      <3>1. Count(a = b) = 0
        BY <2>8 DEF Count
      <3>2. /\ Flight(call', requests', thread', responses', b) = Flight(call, requests, thread, responses, b)
            /\ OnStack(main', b) = OnStack(main, b) /\ users'[b] = users[b]
        BY <1>2, <2>3, <2>5, <2>6, <3>1
      <3>3. (b \in DOMAIN assets' <=> b \in DOMAIN assets) /\ (b \in DOMAIN assets => assets'[b] = assets[b])
        BY <1>10, <2>8
      <3> QED BY <2>1, <3>2, <3>3 DEF Balanced
    <2> QED BY <2>7, <2>8
  <1> QED BY <1>2, <1>4, <1>11, <1>12 DEF RefInv, NoCall

\* The callbacks are over; the reference of the request goes.
LEMMA FinishBalanced ==
    ASSUME RefInv, PipelineTypes', FinishResponse
    PROVE  RefInv'
  <1>1. PICK a : a = main.asset
    OBVIOUS
  <1>2. /\ main.at = "callbacks" /\ call.at = "none" /\ assets' = DecRef(assets, a)
        /\ main' = [main EXCEPT !.at = "responses", !.asset = None]
        /\ UNCHANGED <<users, call, requests, responses, thread>>
        /\ a \in Assets /\ AssetTypes(assets)
    BY <1>1 DEF FinishResponse, RefInv, NoCall
  <1>3. main'.at = "responses" /\ main' \in [at : MainPlaces, asset : Assets \union {None}]
    BY <1>2 DEF RefInv, MainPlaces
  <1>4. a \in DOMAIN assets /\ assets[a].refs \in Nat \ {0}
    BY <1>1, <1>2, UsedAssetExists
  <1>5. OneLess(assets, assets', a)
    BY <1>2, <1>4, DecRefShape, Zenon
  <1>6. ASSUME NEW b \in Assets
        PROVE  Balanced(assets', users'[b], Flight(call', requests', thread', responses', b), OnStack(main', b), b)
    <2>1. PICK f : f = Flight(call, requests, thread, responses, b)
      OBVIOUS
    <2>2. Balanced(assets, users[b], f, OnStack(main, b), b)
      BY <2>1 DEF RefInv
    <2>3. Flight(call', requests', thread', responses', b) = f /\ users'[b] = users[b]
      BY <1>2, <2>1
    <2>4. OnStack(main', b) = 0 /\ OnStack(main, b) = IF b = a THEN 1 ELSE 0
      BY <1>1, <1>2, <1>3 DEF OnStack, Count
    <2>5. f \in Nat /\ users[b] \in Nat
      BY <2>1, NumbersAreNatural
    <2> QED BY <1>4, <1>5, <2>2, <2>3, <2>4, <2>5 DEF Balanced, OneLess
  <1> QED BY <1>2, <1>3, <1>5, <1>6 DEF RefInv, OneLess

LEMMA NextBalanced == CoverInv /\ RefInv /\ [Next]_vars => RefInv'
  <1> SUFFICES ASSUME CoverInv, RefInv, [Next]_vars PROVE RefInv'
    OBVIOUS
  <1>1. PipelineTypes'
    BY NextCovered DEF CoverInv
  <1>2. CASE UNCHANGED vars
    <2>1. Kept
      BY <1>2 DEF vars, Kept, RefInv
    <2> QED BY <1>1, <2>1, KeptBalanced
  <1>3. CASE MainStep
    BY <1>1, <1>3, MainKeeps, SignalBalanced, TakeBalanced, FinishBalanced DEF MainStep
  <1>4. CASE BeginShutDown
    BY <1>1, <1>4, MainKeeps
  <1>5. ASSUME NEW a \in Assets, LoadExisting(a) \/ LoadNew(a) \/ DropReference(a)
        PROVE  RefInv'
    BY <1>1, <1>5, UsersBalanced, LoadNewBalanced
  <1>6. ASSUME NEW t \in Threads, ThreadStep(t) \/ WakeSpuriously(t)
        PROVE  RefInv'
    BY <1>1, <1>6, IdleThreadKeeps, DequeueKeeps, EnqueueResponseKeeps, LoadFileKeeps DEF ThreadStep
  <1> QED BY <1>2, <1>3, <1>4, <1>5, <1>6 DEF Next

LEMMA AlwaysBalanced == Spec => []RefInv
  <1>1. Init => CoverInv /\ RefInv
    BY InitCovered, InitBalanced
  <1>2. (CoverInv /\ RefInv) /\ [Next]_vars => (CoverInv /\ RefInv)'
    BY NextCovered, NextBalanced
  <1> QED
    BY <1>1, <1>2, PTL DEF Spec

\* m_RefCount is the number of references that others hold and one for the
\* request, wherever the request, the thread that loads it or its answer is,
\* until the load callbacks have returned: no raw Asset pointer in a queue, in
\* a loader thread or in FinalizeAssetResponse outlives its asset.
THEOREM ReferencesAlwaysBalance == Spec => []ReferencesBalance
  <1>1. RefInv => ReferencesBalance
    <2> SUFFICES ASSUME RefInv PROVE ReferencesBalance
      OBVIOUS
    <2>1. ASSUME NEW a \in Assets
          PROVE  IF a \in DOMAIN assets
                 THEN assets[a].refs = users[a] + InFlight(a) + OnStack(main, a)
                 ELSE users[a] + InFlight(a) + OnStack(main, a) = 0
      <3>1. Balanced(assets, users[a], InFlight(a), OnStack(main, a), a)
        BY PartsOfFlight DEF RefInv
      <3> QED BY <3>1 DEF Balanced
    <2> QED BY <2>1 DEF ReferencesBalance, OnStack
  <1> QED
    BY <1>1, AlwaysBalanced, PTL

\* An asset is loading exactly as long as one request for it is on its way:
\* LoadAsset asks for no file twice, no loader thread takes a request that
\* another has, and no answer is finalized twice.
THEOREM OneRequestAtATime == Spec => []OneRequestWhileLoading
  <1>1. RefInv => OneRequestWhileLoading
    <2> SUFFICES ASSUME RefInv, NEW a \in DOMAIN assets
                 PROVE  InFlight(a) = Count(assets[a].state = "loading")
      BY DEF OneRequestWhileLoading
    <2>1. a \in Assets
      BY DEF RefInv, AssetTypes
    <2>2. Balanced(assets, users[a], InFlight(a), OnStack(main, a), a)
      BY <2>1, PartsOfFlight DEF RefInv
    <2> QED BY <2>2 DEF Balanced
  <1> QED
    BY <1>1, AlwaysBalanced, PTL
=============================================================================
