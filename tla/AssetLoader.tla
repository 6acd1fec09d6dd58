---------------------------- MODULE AssetLoader -----------------------------
(***************************************************************************)
(* Loading of assets by the native build: src/Engine/Asset/AssetLoader.cpp *)
(* with AssetManager.h, Asset.cpp and AssetReferenceBase.cpp.              *)
(*                                                                         *)
(* The main thread creates an asset, sends a request to the loader threads *)
(* and finalizes their responses once per frame; a loader thread sleeps on *)
(* a semaphore and then empties the request queue.  The two queues are     *)
(* MessageQueues, in first-in first-out order as AbstractQueue promises of *)
(* punctual threads.  Both carry messages that begin with a pointer, so a  *)
(* slot that has held one is never allocated again: fresh counts the slots *)
(* that are left.  The semaphore is Semaphore, and its threads are the     *)
(* loader threads, m_AssetLoadThreads of them.                             *)
(*                                                                         *)
(* The assets are of the kinds without parts: textures, sounds, fonts.     *)
(* WebSocket::IsConnecting is always false here, so no request is delayed  *)
(* (line 569), and ReloadThread never connects (line 640), so nothing is   *)
(* reloaded.                                                               *)
(***************************************************************************)
EXTENDS Semaphore, Sequences

CONSTANTS
    Assets,         \* the files that can be loaded
    RequestSlots,   \* the length of m_LoadRequests
    ResponseSlots,  \* the length of m_LoadResponses
    MaxUsers,       \* bound: references to one asset that others hold
    None            \* no asset

ASSUME AssetLoaderAssumption ==
    /\ RequestSlots \in Nat /\ RequestSlots > 1
    /\ ResponseSlots \in Nat /\ ResponseSlots > 1
    /\ MaxUsers \in Nat \ {0}
    /\ None \notin Assets

VARIABLES
    assets,     \* m_Assets and m_AssetLookup: the assets that exist
    users,      \* how many references to each asset others hold
    main,       \* where the main thread stands: [at, asset]
    call,       \* its call of RequestFileLoad, if it is in one: [at, asset]
    running,    \* m_Running
    requests,   \* m_LoadRequests: [items, fresh]
    responses,  \* m_LoadResponses
    thread      \* each loader thread: [at, asset, data]

vars == <<assets, users, main, call, running, requests, responses, semaphoreVars, thread>>

States == {"loading", "error", "loaded"}
MainPlaces == {"idle", "responses", "callbacks", "joining", "stopped"}
CallPlaces == {"none", "enqueue", "signal"}
ThreadPlaces == {"loop", "wait", "dequeue", "load", "answer", "ended"}

NoCall == [at |-> "none", asset |-> None]
NewQueue(slots) == [items |-> <<>>, fresh |-> slots]
IdleThread(at) == [at |-> at, asset |-> None, data |-> FALSE]
Count(condition) == IF condition THEN 1 ELSE 0
Response(a, data) == [asset |-> a, data |-> data]

Init ==
    /\ assets = [a \in {} |-> None]
    /\ users = [a \in Assets |-> 0]
    /\ main = [at |-> "idle", asset |-> None]
    /\ call = NoCall
    /\ running = TRUE
    /\ requests = NewQueue(RequestSlots)
    /\ responses = NewQueue(ResponseSlots)
    /\ SemaphoreInit
    /\ thread = [t \in Threads |-> IdleThread("loop")]
-----------------------------------------------------------------------------
(* The queues *)

\* The answer of Enqueue.  An attempt that finds the ring full has put its
\* message into a slot and moved it back, which uses the slot up as well.
HasRoom(q, slots) == q.fresh > 0 /\ Len(q.items) < slots - 1
Enqueued(q, item) == [items |-> Append(q.items, item), fresh |-> q.fresh - 1]
Attempted(q) == [q EXCEPT !.fresh = IF @ > 0 THEN @ - 1 ELSE 0]
Dequeued(q) == [q EXCEPT !.items = Tail(@)]
-----------------------------------------------------------------------------
(* References.  Only the main thread counts. *)

IncRef(as, a) == [as EXCEPT ![a].refs = @ + 1]

DecRef(as, a) ==
    IF as[a].refs = 1
    THEN [b \in DOMAIN as \ {a} |-> as[b]]
    ELSE [as EXCEPT ![a].refs = @ - 1]

\* The main thread runs code that may use assets: its own, or a load callback.
InUserCode == main.at \in {"idle", "callbacks"} /\ call = NoCall

\* LoadAsset of a file that is there already makes a reference and no request.
LoadExisting(a) ==
    /\ InUserCode
    /\ a \in DOMAIN assets
    /\ users[a] < MaxUsers
    /\ users' = [users EXCEPT ![a] = @ + 1]
    /\ assets' = IncRef(assets, a)
    /\ UNCHANGED <<main, call, running, requests, responses, semaphoreVars, thread>>

\* Mutant of LoadNew: a file that is already loading or loaded is asked for again.
LoadNewWithoutLookup(a) ==
    /\ InUserCode
    /\ assets' = [b \in DOMAIN assets \union {a} |->
                    IF b \notin DOMAIN assets
                    THEN [refs |-> 1, state |-> "loading", error |-> FALSE]
                    ELSE [assets[b] EXCEPT !.refs = IF b = a THEN @ + 1 ELSE @]]
    /\ call' = [at |-> "enqueue", asset |-> a]
    /\ users[a] < MaxUsers
    /\ UNCHANGED <<users, main, running, requests, responses, semaphoreVars, thread>>

\* RequestFileLoad counts the request as a reference before it is sent.
LoadNew(a) ==
    /\ InUserCode
    /\ a \notin DOMAIN assets
    /\ assets' = [b \in DOMAIN assets \union {a} |->
                    IF b = a THEN [refs |-> 1, state |-> "loading", error |-> FALSE]
                    ELSE assets[b]]
    /\ call' = [at |-> "enqueue", asset |-> a]
    /\ UNCHANGED <<users, main, running, requests, responses, semaphoreVars, thread>>

EnqueueRequest ==
    /\ call.at = "enqueue"
    /\ HasRoom(requests, RequestSlots)
    /\ requests' = Enqueued(requests, call.asset)
    /\ call' = [call EXCEPT !.at = "signal"]
    /\ UNCHANGED <<assets, users, main, running, responses, semaphoreVars, thread>>

RetryRequest ==
    /\ call.at = "enqueue"
    /\ ~HasRoom(requests, RequestSlots)
    /\ requests' = Attempted(requests)
    /\ UNCHANGED <<assets, users, main, call, running, responses, semaphoreVars, thread>>

\* Mutant of SignalRequest: the semaphore is released only for the first request in the queue.
SignalRequestIfAlone ==
    /\ call.at = "signal"
    /\ IF Len(requests.items) = 1 THEN Release(1) ELSE UNCHANGED semaphoreVars
    /\ users' = [users EXCEPT ![call.asset] = @ + 1]
    /\ assets' = IncRef(assets, call.asset)
    /\ call' = NoCall
    /\ UNCHANGED <<main, running, requests, responses, thread>>

\* The caller of LoadAsset wraps the new asset in a reference.
SignalRequest ==
    /\ call.at = "signal"
    /\ Release(1)
    /\ users' = [users EXCEPT ![call.asset] = @ + 1]
    /\ assets' = IncRef(assets, call.asset)
    /\ call' = NoCall
    /\ UNCHANGED <<main, running, requests, responses, thread>>

DropReference(a) ==
    /\ InUserCode
    /\ users[a] > 0
    /\ users' = [users EXCEPT ![a] = @ - 1]
    /\ assets' = DecRef(assets, a)
    /\ UNCHANGED <<main, call, running, requests, responses, semaphoreVars, thread>>
-----------------------------------------------------------------------------
(* ProcessResponses *)

BeginResponses ==
    /\ main.at = "idle"
    /\ call = NoCall
    /\ main' = [main EXCEPT !.at = "responses"]
    /\ UNCHANGED <<assets, users, call, running, requests, responses, semaphoreVars, thread>>

\* Mutant of TakeResponse: the reference of the request is given back before the callbacks run.
TakeResponseUncounted ==
    /\ main.at = "responses"
    /\ call = NoCall
    /\ responses.items # <<>>
    /\ LET a == Head(responses.items).asset IN
       /\ assets' = DecRef([assets EXCEPT ![a].state = "loaded"], a)
       /\ main' = [main EXCEPT !.at = "callbacks", !.asset = a]
    /\ responses' = Dequeued(responses)
    /\ UNCHANGED <<users, call, running, requests, semaphoreVars, thread>>

\* FinalizeAssetResponse up to the callbacks.  Data that was loaded may still
\* be refused by OnDataLoadComplete (a texture the driver does not take).
TakeResponse ==
    /\ main.at = "responses"
    /\ call = NoCall
    /\ responses.items # <<>>
    /\ LET a == Head(responses.items).asset IN
       /\ \E state \in IF assets[a].error THEN {"error"} ELSE {"loaded", "error"} :
            assets' = [assets EXCEPT ![a].state = state, ![a].error = (state = "error")]
       /\ main' = [main EXCEPT !.at = "callbacks", !.asset = a]
    /\ responses' = Dequeued(responses)
    /\ UNCHANGED <<users, call, running, requests, semaphoreVars, thread>>

\* The last line of FinalizeAssetResponse.
FinishResponse ==
    /\ main.at = "callbacks"
    /\ call = NoCall
    /\ assets' = DecRef(assets, main.asset)
    /\ main' = [main EXCEPT !.at = "responses", !.asset = None]
    /\ UNCHANGED <<users, call, running, requests, responses, semaphoreVars, thread>>

EndResponses ==
    /\ main.at = "responses"
    /\ call = NoCall
    /\ responses.items = <<>>
    /\ main' = [main EXCEPT !.at = "idle"]
    /\ UNCHANGED <<assets, users, call, running, requests, responses, semaphoreVars, thread>>
-----------------------------------------------------------------------------
(* ShutDown *)

\* Mutant of BeginShutDown: shutDown releases one permit for all loader threads.
BeginShutDownWakingOne ==
    /\ main.at = "idle"
    /\ call = NoCall
    /\ running' = FALSE
    /\ Release(1)
    /\ main' = [main EXCEPT !.at = "joining"]
    /\ UNCHANGED <<assets, users, call, requests, responses, thread>>

BeginShutDown ==
    /\ main.at = "idle"
    /\ call = NoCall
    /\ running' = FALSE
    /\ Release(Cardinality(Threads))
    /\ main' = [main EXCEPT !.at = "joining"]
    /\ UNCHANGED <<assets, users, call, requests, responses, thread>>

EndShutDown ==
    /\ main.at = "joining"
    /\ \A t \in Threads : thread[t].at = "ended"
    /\ main' = [main EXCEPT !.at = "stopped"]
    /\ UNCHANGED <<assets, users, call, running, requests, responses, semaphoreVars, thread>>
-----------------------------------------------------------------------------
(* LoadThread *)

TestRunning(t) ==
    /\ thread[t].at = "loop"
    /\ thread' = [thread EXCEPT ![t] = IdleThread(IF running THEN "wait" ELSE "ended")]
    /\ UNCHANGED <<assets, users, main, call, running, requests, responses, semaphoreVars>>

\* m_LoadSemaphore.WaitOne(): the thread goes on with a permit or sleeps.
Woken(t) == thread' = [thread EXCEPT ![t].at = IF count = 0 THEN "wait" ELSE "dequeue"]

WaitForRequest(t) ==
    /\ thread[t].at = "wait"
    /\ WaitOne(t)
    /\ Woken(t)
    /\ UNCHANGED <<assets, users, main, call, running, requests, responses>>

WakeUp(t) ==
    /\ Recheck(t)
    /\ Woken(t)
    /\ UNCHANGED <<assets, users, main, call, running, requests, responses>>

WakeSpuriously(t) ==
    /\ WakeUnasked(t)
    /\ UNCHANGED <<assets, users, main, call, running, requests, responses, thread>>

DequeueRequest(t) ==
    /\ thread[t].at = "dequeue"
    /\ requests.items # <<>>
    /\ thread' = [thread EXCEPT ![t] = [at |-> "load", asset |-> Head(requests.items), data |-> FALSE]]
    /\ requests' = Dequeued(requests)
    /\ UNCHANGED <<assets, users, main, call, running, responses, semaphoreVars>>

NoMoreRequests(t) ==
    /\ thread[t].at = "dequeue"
    /\ requests.items = <<>>
    /\ thread' = [thread EXCEPT ![t] = IdleThread("loop")]
    /\ UNCHANGED <<assets, users, main, call, running, requests, responses, semaphoreVars>>

\* Mutant of LoadFile: a thread that cannot read a file goes on with the next
\* request and leaves this one without an answer.
LoadFileOrGoOn(t) ==
    /\ thread[t].at = "load"
    /\ \/ \E error \in BOOLEAN :
            /\ assets' = [assets EXCEPT ![thread[t].asset].error = error]
            /\ thread' = [thread EXCEPT ![t].at = "answer", ![t].data = TRUE]
       \/ /\ assets' = [assets EXCEPT ![thread[t].asset].error = TRUE]
          /\ thread' = [thread EXCEPT ![t] = IdleThread("dequeue")]
    /\ UNCHANGED <<users, main, call, running, requests, responses, semaphoreVars>>

\* A file that cannot be read leaves no data and an error; one that can may
\* still be refused by PreProcessLoadedData.
LoadFile(t) ==
    /\ thread[t].at = "load"
    /\ \E data, error \in BOOLEAN :
        /\ data \/ error
        /\ assets' = [assets EXCEPT ![thread[t].asset].error = error]
        /\ thread' = [thread EXCEPT ![t].at = "answer", ![t].data = data]
    /\ UNCHANGED <<users, main, call, running, requests, responses, semaphoreVars>>

\* A thread that could not read its file answers and then ends.
EnqueueResponse(t) ==
    /\ thread[t].at = "answer"
    /\ HasRoom(responses, ResponseSlots)
    /\ responses' = Enqueued(responses, Response(thread[t].asset, thread[t].data))
    /\ thread' = [thread EXCEPT ![t] = IdleThread(IF thread[t].data THEN "dequeue" ELSE "ended")]
    /\ UNCHANGED <<assets, users, main, call, running, requests, semaphoreVars>>

RetryResponse(t) ==
    /\ thread[t].at = "answer"
    /\ ~HasRoom(responses, ResponseSlots)
    /\ responses' = Attempted(responses)
    /\ UNCHANGED <<assets, users, main, call, running, requests, semaphoreVars, thread>>
-----------------------------------------------------------------------------
MainStep ==
    \/ EnqueueRequest \/ RetryRequest \/ SignalRequest
    \/ BeginResponses \/ TakeResponse \/ FinishResponse \/ EndResponses
    \/ EndShutDown

ThreadStep(t) ==
    \/ TestRunning(t) \/ WaitForRequest(t) \/ WakeUp(t) \/ DequeueRequest(t) \/ NoMoreRequests(t)
    \/ LoadFile(t) \/ EnqueueResponse(t) \/ RetryResponse(t)

Next ==
    \/ MainStep
    \/ BeginShutDown
    \/ \E a \in Assets : LoadExisting(a) \/ LoadNew(a) \/ DropReference(a)
    \/ \E t \in Threads : ThreadStep(t) \/ WakeSpuriously(t)

Spec == Init /\ [][Next]_vars

\* Frames keep coming until ShutDown, and the loader threads go on running; a
\* thread that waits with others for permits gets one in the end.
Fairness ==
    /\ WF_vars(MainStep)
    /\ \A t \in Threads : WF_vars(ThreadStep(t))

FairSpec == Spec /\ Fairness
-----------------------------------------------------------------------------
(* Properties *)

\* The type invariant of what is on its way: call, queues, semaphore, threads.
PipelineTypes ==
    /\ call \in [at : CallPlaces, asset : Assets \union {None}]
    /\ call.at # "none" => call.asset \in Assets
    /\ requests \in [items : Seq(Assets), fresh : 0 .. RequestSlots]
    /\ responses \in [items : Seq([asset : Assets, data : BOOLEAN]), fresh : 0 .. ResponseSlots]
    /\ SemaphoreTypeOK
    /\ \A t \in sleeping \union woken : thread[t].at = "wait"
    /\ thread \in [Threads -> [at : ThreadPlaces, asset : Assets \union {None}, data : BOOLEAN]]
    /\ \A t \in Threads : thread[t].at \in {"load", "answer"} => thread[t].asset \in Assets

\* The places where a request for asset a, or the answer to it, can be.
InFlight(a) ==
      Count(call.at = "enqueue" /\ call.asset = a)
    + Cardinality({i \in DOMAIN requests.items : requests.items[i] = a})
    + Cardinality({t \in Threads : thread[t].asset = a})
    + Cardinality({i \in DOMAIN responses.items : responses.items[i].asset = a})

\* The references to an asset are those its users hold and one for its request
\* until the callbacks have returned; so no pointer in a queue, in a loader
\* thread or on the main thread's stack outlives its asset.
ReferencesBalance ==
    \A a \in Assets :
        LET held == users[a] + InFlight(a) + Count(main.at = "callbacks" /\ main.asset = a)
        IN  IF a \in DOMAIN assets THEN assets[a].refs = held ELSE held = 0

\* An asset is loading exactly as long as one request for it is on its way;
\* nothing is asked for twice and nothing is answered twice.
OneRequestWhileLoading ==
    \A a \in DOMAIN assets : InFlight(a) = Count(assets[a].state = "loading")

\* The threads that are about to look into the queue.
Looking == {t \in Threads : thread[t].at = "dequeue"}

\* Every request in the queue has a permit of the semaphore, one that is about
\* to be released, or a thread that is going to look; also after threads have
\* ended on files they could not read.
RequestsAreCovered ==
    Len(requests.items) <=
        count + Count(call.at = "signal") + Cardinality(Looking)

\* A thread that tries again for ever because no slot of its queue is left.
WornOut ==
    \/ call.at = "enqueue" /\ requests.fresh = 0
    \/ responses.fresh = 0 /\ \E t \in Threads : thread[t].at = "answer"

Loading(a) == a \in DOMAIN assets /\ assets[a].state = "loading"

\* While the program runs, what is loading will be loaded or get an error,
\* unless files that could not be read have ended every loader thread, or a
\* queue is worn out.
EveryLoadEnds ==
    \A a \in Assets :
        Loading(a) ~>
            \/ ~Loading(a)
            \/ ~running
            \/ \A t \in Threads : thread[t].at = "ended"
            \/ WornOut

\* ShutDown wakes every loader thread and comes back, unless a thread cannot
\* get rid of its answer, which nobody takes any more.
ShutDownEnds == (main.at = "joining") ~> (main.at = "stopped" \/ WornOut)
=============================================================================
