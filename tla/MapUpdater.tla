------------------------------ MODULE MapUpdater ------------------------------
(***************************************************************************)
(* The world thread's map tick and the map worker threads                   *)
(* (MapManager::Update, MapManager::UnloadAll, MapUpdater and the           *)
(* ProducerConsumerQueue between them).                                     *)
(*                                                                          *)
(* Once per tick the world thread walks i_maps, destroys the maps that can  *)
(* be unloaded and hands every other map to the workers; it then blocks in  *)
(* MapUpdater::wait() until pending_requests is zero and runs               *)
(* Map::DelayedUpdate on every map.  The correctness of everything a map    *)
(* does rests on that barrier: nothing in Map is locked, a map has to be    *)
(* touched by one thread at a time.                                         *)
(***************************************************************************)
EXTENDS Integers, Sequences, FiniteSets

CONSTANTS
    Maps,       \* identities a map can have, the (mapId, instanceId) keys of i_maps
    Workers,    \* _workerThreads when MapUpdate.Threads is positive
    None        \* nullptr

ASSUME WorkersAssumption == IsFiniteSet(Workers)
ASSUME NoneAssumption == None \notin Maps

VARIABLES
    i_maps,             \* MapManager::i_maps
    pending_requests,   \* MapUpdater::pending_requests, guarded by _lock
    lock,               \* TRUE while schedule_update holds _lock across its Push
    queue,              \* ProducerConsumerQueue::_queue, a request is its map
    shutdown,           \* ProducerConsumerQueue::_shutdown
    cancelationToken,   \* MapUpdater::_cancelationToken
    activated,          \* MapUpdater::activated: MapUpdate.Threads is positive
    pc,                 \* where the world thread is
    todo,               \* maps the current loop over i_maps has not reached
    touched,            \* the map the world thread is working on
    wpc,                \* where each worker is
    request,            \* each worker's local request
    scheduled,          \* history: maps handed to an update in this tick
    updated             \* history: maps whose Map::Update returned in this tick

updaterVars == <<pending_requests, lock, queue, shutdown, cancelationToken, activated>>
worldVars   == <<i_maps, pc, todo, touched>>
workerVars  == <<wpc, request>>
history     == <<scheduled, updated>>
vars        == <<updaterVars, worldVars, workerVars, history>>

WorldPcs  == {"idle", "loop", "destroy", "push", "inline", "wait", "blocked",
              "delayed", "delayedMap", "unload", "delete", "deactivate",
              "lastWait", "lastBlocked", "cancel", "join", "stopped"}
WorkerPcs == {"pop", "blocked", "test", "update", "finish", "free", "exit"}

Init ==
    /\ i_maps = {}
    /\ pending_requests = 0
    /\ lock = FALSE
    /\ queue = <<>>
    /\ shutdown = FALSE
    /\ cancelationToken = FALSE
    /\ activated \in BOOLEAN /\ (activated => Workers # {})
    /\ pc = "idle"
    /\ todo = {}
    /\ touched = None
    /\ wpc = [w \in Workers |-> IF activated THEN "pop" ELSE "exit"]
    /\ request = [w \in Workers |-> None]
    /\ scheduled = {}
    /\ updated = {}

------------------------------------------------------------------------------
(* The world thread.                                                        *)

\* A session handler asks for a map that does not exist yet.
CreateMap ==
    /\ pc = "idle"
    /\ \E m \in Maps \ i_maps : i_maps' = i_maps \cup {m}
    /\ UNCHANGED <<updaterVars, pc, todo, touched, workerVars, history>>

\* MapManager::Update once i_timer has passed.
BeginTick ==
    /\ pc = "idle"
    /\ pc' = "loop"
    /\ todo' = i_maps
    /\ scheduled' = {}
    /\ updated' = {}
    /\ UNCHANGED <<updaterVars, i_maps, touched, workerVars>>

\* Mutant: the unload test comes after scheduling, a map in flight is destroyed.
MutBeginDestroyMap ==
    /\ pc = "loop"
    /\ \E m \in i_maps :
        /\ touched' = m
        /\ todo' = todo \ {m}
    /\ pc' = "destroy"
    /\ UNCHANGED <<updaterVars, i_maps, workerVars, history>>

\* Map::CanUnload said yes: DestroyMap starts on this map.
BeginDestroyMap ==
    /\ pc = "loop"
    /\ \E m \in todo :
        /\ touched' = m
        /\ todo' = todo \ {m}
    /\ pc' = "destroy"
    /\ UNCHANGED <<updaterVars, i_maps, workerVars, history>>

\* DestroyMap gives up when players are left, otherwise the map is deleted
\* and erased from i_maps.
EndDestroyMap ==
    /\ pc = "destroy"
    /\ i_maps' \in {i_maps, i_maps \ {touched}}
    /\ touched' = None
    /\ pc' = "loop"
    /\ UNCHANGED <<updaterVars, todo, workerVars, history>>

\* MapUpdater::schedule_update, first half: _lock is taken, the request counted.
ScheduleUpdate ==
    /\ pc = "loop"
    /\ activated
    /\ ~lock
    /\ lock' = TRUE
    /\ pending_requests' = pending_requests + 1
    /\ \E m \in todo :
        /\ touched' = m
        /\ todo' = todo \ {m}
        /\ scheduled' = scheduled \cup {m}
    /\ pc' = "push"
    /\ UNCHANGED <<queue, shutdown, cancelationToken, i_maps, workerVars, updated, activated>>

\* _condition.notify_one(): some blocked worker, if there is one.
NotifyOne ==
    LET blocked == {w \in Workers : wpc[w] = "blocked"} IN
    IF blocked = {}
    THEN wpc' = wpc
    ELSE \E w \in blocked : wpc' = [wpc EXCEPT ![w] = "pop"]

\* schedule_update, second half: the request is pushed and _lock released.
PushRequest ==
    /\ pc = "push"
    /\ queue' = Append(queue, touched)
    /\ NotifyOne
    /\ lock' = FALSE
    /\ touched' = None
    /\ pc' = "loop"
    /\ UNCHANGED <<pending_requests, shutdown, cancelationToken, i_maps, todo, request, history, activated>>

\* Without workers the world thread runs Map::Update itself.
BeginInlineUpdate ==
    /\ pc = "loop"
    /\ ~activated
    /\ \E m \in todo :
        /\ touched' = m
        /\ todo' = todo \ {m}
        /\ scheduled' = scheduled \cup {m}
    /\ pc' = "inline"
    /\ UNCHANGED <<updaterVars, i_maps, workerVars, updated>>

EndInlineUpdate ==
    /\ pc = "inline"
    /\ updated' = updated \cup {touched}
    /\ touched' = None
    /\ pc' = "loop"
    /\ UNCHANGED <<updaterVars, i_maps, todo, workerVars, scheduled>>

\* Mutant: MapManager::Update does not wait for the workers.
MutEndLoop ==
    /\ pc = "loop"
    /\ todo = {}
    /\ pc' = "delayed"
    /\ todo' = i_maps
    /\ UNCHANGED <<updaterVars, i_maps, touched, workerVars, history>>

\* Every map was visited: wait() when there are workers, then the second loop.
EndLoop ==
    /\ pc = "loop"
    /\ todo = {}
    /\ IF activated
       THEN pc' = "wait" /\ todo' = todo
       ELSE pc' = "delayed" /\ todo' = i_maps
    /\ UNCHANGED <<updaterVars, i_maps, touched, workerVars, history>>

\* Mutant: wait() leaves one request behind.
MutStillPending == pending_requests > 1

\* The predicate wait() tests under _lock.
StillPending == pending_requests > 0

\* MapUpdater::wait(): test pending_requests under _lock, block while it is
\* positive.  The same code runs from MapManager::Update and from deactivate.
Wait ==
    /\ pc \in {"wait", "lastWait"}
    /\ ~lock
    /\ IF StillPending
       THEN /\ pc' = (IF pc = "wait" THEN "blocked" ELSE "lastBlocked")
            /\ todo' = todo
       ELSE IF pc = "wait"
            THEN pc' = "delayed" /\ todo' = i_maps
            ELSE pc' = "cancel" /\ todo' = todo
    /\ UNCHANGED <<updaterVars, i_maps, touched, workerVars, history>>

\* The condition variable may wake up by itself; the predicate is tested again.
SpuriousWakeup ==
    /\ pc \in {"blocked", "lastBlocked"}
    /\ pc' = (IF pc = "blocked" THEN "wait" ELSE "lastWait")
    /\ UNCHANGED <<updaterVars, i_maps, todo, touched, workerVars, history>>

BeginDelayedUpdate ==
    /\ pc = "delayed"
    /\ \E m \in todo :
        /\ touched' = m
        /\ todo' = todo \ {m}
    /\ pc' = "delayedMap"
    /\ UNCHANGED <<updaterVars, i_maps, workerVars, history>>

EndDelayedUpdate ==
    /\ pc = "delayedMap"
    /\ touched' = None
    /\ pc' = "delayed"
    /\ UNCHANGED <<updaterVars, i_maps, todo, workerVars, history>>

EndTick ==
    /\ pc = "delayed"
    /\ todo = {}
    /\ pc' = "idle"
    /\ UNCHANGED <<updaterVars, i_maps, todo, touched, workerVars, history>>

\* MapManager::UnloadAll, run once when the world loop has ended.
BeginUnloadAll ==
    /\ pc = "idle"
    /\ pc' = "unload"
    /\ todo' = i_maps
    /\ UNCHANGED <<updaterVars, i_maps, touched, workerVars, history>>

UnloadMaps ==
    /\ pc = "unload"
    /\ IF todo = {}
       THEN pc' = "delete" /\ todo' = i_maps
       ELSE pc' = pc /\ \E m \in todo : todo' = todo \ {m}
    /\ UNCHANGED <<updaterVars, i_maps, touched, workerVars, history>>

\* delete of each map, then i_maps.clear(); deactivate only with workers.
DeleteMaps ==
    /\ pc = "delete"
    /\ IF todo = {}
       THEN /\ pc' = (IF activated THEN "deactivate" ELSE "stopped")
            /\ i_maps' = {}
            /\ todo' = todo
       ELSE /\ pc' = pc
            /\ i_maps' = i_maps
            /\ \E m \in todo : todo' = todo \ {m}
    /\ UNCHANGED <<updaterVars, touched, workerVars, history>>

\* MapUpdater::deactivate: the token first, then wait(), Cancel() and join().
Deactivate ==
    /\ pc = "deactivate"
    /\ cancelationToken' = TRUE
    /\ pc' = "lastWait"
    /\ UNCHANGED <<pending_requests, lock, queue, shutdown, i_maps, todo, touched, workerVars, history, activated>>

\* Mutant: Cancel does not notify the blocked workers.
MutNotifyAll == wpc' = wpc

\* _condition.notify_all() of the queue.
NotifyAll == wpc' = [w \in Workers |-> IF wpc[w] = "blocked" THEN "pop" ELSE wpc[w]]

\* ProducerConsumerQueue::Cancel: drop what is queued, shut down, notify_all.
Cancel ==
    /\ pc = "cancel"
    /\ queue' = <<>>
    /\ shutdown' = TRUE
    /\ NotifyAll
    /\ pc' = "join"
    /\ UNCHANGED <<pending_requests, lock, cancelationToken, i_maps, todo, touched, request, history, activated>>

Join ==
    /\ pc = "join"
    /\ \A w \in Workers : wpc[w] = "exit"
    /\ pc' = "stopped"
    /\ UNCHANGED <<updaterVars, i_maps, todo, touched, workerVars, history>>

World ==
    \/ CreateMap \/ BeginTick
    \/ BeginDestroyMap \/ EndDestroyMap
    \/ ScheduleUpdate \/ PushRequest
    \/ BeginInlineUpdate \/ EndInlineUpdate
    \/ EndLoop \/ Wait
    \/ BeginDelayedUpdate \/ EndDelayedUpdate \/ EndTick
    \/ BeginUnloadAll \/ UnloadMaps \/ DeleteMaps
    \/ Deactivate \/ Cancel \/ Join

------------------------------------------------------------------------------
(* A worker thread: MapUpdater::WorkerThread.                               *)

\* ProducerConsumerQueue::WaitAndPop, one pass of its loop under _queueLock.
WaitAndPop(w) ==
    /\ wpc[w] = "pop"
    /\ \/ /\ queue = <<>> /\ ~shutdown
          /\ wpc' = [wpc EXCEPT ![w] = "blocked"]
          /\ UNCHANGED <<queue, request>>
       \/ /\ shutdown
          /\ wpc' = [wpc EXCEPT ![w] = "test"]
          /\ UNCHANGED <<queue, request>>
       \/ /\ queue # <<>> /\ ~shutdown
          /\ wpc' = [wpc EXCEPT ![w] = "test"]
          /\ request' = [request EXCEPT ![w] = Head(queue)]
          /\ queue' = Tail(queue)
    /\ UNCHANGED <<pending_requests, lock, shutdown, cancelationToken, worldVars, history, activated>>

\* A blocked worker may wake up without a notification.
WorkerSpuriousWakeup(w) ==
    /\ wpc[w] = "blocked"
    /\ wpc' = [wpc EXCEPT ![w] = "pop"]
    /\ UNCHANGED <<updaterVars, worldVars, request, history>>

\* The cancelation token decides between leaving and request->call().
TestToken(w) ==
    /\ wpc[w] = "test"
    /\ wpc' = [wpc EXCEPT ![w] = IF cancelationToken THEN "exit" ELSE "update"]
    /\ UNCHANGED <<updaterVars, worldVars, request, history>>

\* Map::Update returns.
EndUpdate(w) ==
    /\ wpc[w] = "update"
    /\ wpc' = [wpc EXCEPT ![w] = "finish"]
    /\ updated' = updated \cup {request[w]}
    /\ UNCHANGED <<updaterVars, worldVars, request, scheduled>>

\* Mutant: update_finished does not notify the world thread.
MutNotifyWorld == pc' = pc

\* _condition.notify_all() of the updater: only the world thread waits on it.
NotifyWorld ==
    pc' = (CASE pc = "blocked" -> "wait"
             [] pc = "lastBlocked" -> "lastWait"
             [] OTHER -> pc)

\* MapUpdater::update_finished: count down and notify the world thread.
UpdateFinished(w) ==
    /\ wpc[w] = "finish"
    /\ ~lock
    /\ pending_requests' = pending_requests - 1
    /\ NotifyWorld
    /\ wpc' = [wpc EXCEPT ![w] = "free"]
    /\ UNCHANGED <<lock, queue, shutdown, cancelationToken, i_maps, todo, touched, request, history, activated>>

\* delete request, and a fresh nullptr at the head of the loop.
FreeRequest(w) ==
    /\ wpc[w] = "free"
    /\ wpc' = [wpc EXCEPT ![w] = "pop"]
    /\ request' = [request EXCEPT ![w] = None]
    /\ UNCHANGED <<updaterVars, worldVars, history>>

Worker(w) ==
    \/ WaitAndPop(w) \/ TestToken(w) \/ EndUpdate(w)
    \/ UpdateFinished(w) \/ FreeRequest(w)

------------------------------------------------------------------------------
\* The process has nothing left to do.
Stopped == pc = "stopped" /\ UNCHANGED vars

Next ==
    \/ World
    \/ SpuriousWakeup
    \/ \E w \in Workers : Worker(w) \/ WorkerSpuriousWakeup(w)
    \/ Stopped

\* The scheduler runs every thread that can run.  Nothing obliges a session to
\* create a map, the operator to stop the server or a condition variable to
\* wake up by itself.
Fairness ==
    /\ WF_vars(World /\ pc # "idle")
    /\ \A w \in Workers : WF_vars(Worker(w))

Spec == Init /\ [][Next]_vars /\ Fairness

------------------------------------------------------------------------------
\* The shape of the updater's queue and counters and of the threads' positions.
TypeOK ==
    /\ i_maps \subseteq Maps
    /\ pending_requests \in Nat
    /\ lock \in BOOLEAN
    /\ queue \in Seq(Maps)
    /\ shutdown \in BOOLEAN
    /\ cancelationToken \in BOOLEAN
    /\ activated \in BOOLEAN
    /\ pc \in WorldPcs
    /\ todo \subseteq Maps
    /\ touched \in Maps \cup {None}
    /\ wpc \in [Workers -> WorkerPcs]
    /\ request \in [Workers -> Maps \cup {None}]
    /\ scheduled \subseteq Maps
    /\ updated \subseteq Maps

\* A worker holds a request it has not yet reported as finished.
Holding(w) == \/ wpc[w] = "test" /\ request[w] # None
              \/ wpc[w] \in {"update", "finish"}
Busy == {w \in Workers : Holding(w)}

\* The world thread is between two waits: everything it does there assumes that
\* no worker is inside a map (DelayedUpdate, session handlers, UnloadAll).
WorldOwnsMaps ==
    pc \in {"delayed", "delayedMap", "idle", "unload", "delete", "deactivate",
            "lastWait", "lastBlocked", "cancel", "join", "stopped"}

\* wait() is a barrier: once MapManager::Update has passed it, and until the
\* next tick schedules again, no request is queued and no worker is inside
\* Map::Update (MapUpdater.cpp:70, MapManager.cpp:314).
Barrier == WorldOwnsMaps => queue = <<>> /\ Busy = {}

\* No two threads are ever inside the same map: what the world thread destroys,
\* updates inline or runs DelayedUpdate on is neither queued nor held by a worker,
\* no map is queued twice and no two workers hold the same map.
OneThreadPerMap ==
    /\ \A i \in DOMAIN queue : queue[i] # touched
    /\ \A i, j \in DOMAIN queue : queue[i] = queue[j] => i = j
    /\ \A w \in Busy : request[w] # touched
    /\ \A w \in Busy, i \in DOMAIN queue : queue[i] # request[w]
    /\ \A w, v \in Busy : request[w] = request[v] => w = v

\* A worker never calls Map::Update through a null request and never on a map
\* that DestroyMap or UnloadAll has deleted.
NoDeadMapUpdated == \A w \in Workers : wpc[w] = "update" => request[w] \in i_maps

\* DelayedUpdate only starts when every map handed out in this tick was updated.
TickComplete == pc \in {"delayed", "delayedMap"} => updated = scheduled

\* A worker leaves its loop without having dropped a request: pending_requests
\* would never reach zero again and the world thread would hang in wait().
NoRequestLost == \A w \in Workers : wpc[w] = "exit" => request[w] = None

\* Every tick ends: wait() is left again and the second loop finishes.
TickEnds == pc = "loop" ~> pc = "idle"

\* MapUpdater::deactivate ends, with every worker joined.
ShutdownEnds == pc = "unload" ~> (pc = "stopped" /\ \A w \in Workers : wpc[w] = "exit")

------------------------------------------------------------------------------
(* The tick as MapTick has it, without threads, locks and requests.         *)

PhaseOf(at) ==
    CASE at = "idle" -> "sessions"
      [] at \in {"loop", "destroy", "push", "inline", "wait", "blocked"} -> "updates"
      [] at \in {"delayed", "delayedMap"} -> "delayed"
      [] OTHER -> "stopping"
Phase == PhaseOf(pc)

\* A map that DestroyMap works on is still to be dealt with.
Ahead ==
    IF Phase \in {"updates", "delayed"}
    THEN {m \in Maps : m \in todo \/ (pc = "destroy" /\ m = touched)}
    ELSE {}

Given ==
    {m \in Maps : \/ pc = "push" /\ m = touched
                  \/ \E i \in DOMAIN queue : queue[i] = m
                  \/ \E w \in Workers : wpc[w] = "test" /\ request[w] = m}

Inside ==
    {m \in Maps : \/ pc \in {"inline", "delayedMap"} /\ m = touched
                  \/ \E w \in Workers : wpc[w] = "update" /\ request[w] = m}

Tick == INSTANCE MapTick WITH
            maps <- i_maps, phase <- Phase, ahead <- Ahead, given <- Given, inside <- Inside

\* The workers do what MapTick promises: each map handed out is updated once, in one
\* thread, and DelayedUpdate, session handlers and the shutdown come after all updates.
ImplementsMapTick == Tick!Spec
==============================================================================
