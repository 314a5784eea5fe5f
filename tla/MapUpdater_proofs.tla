--------------------------- MODULE MapUpdater_proofs ---------------------------
(***************************************************************************)
(* Proofs that the safety invariants of MapUpdater hold for every set of    *)
(* maps and every finite set of workers.                                    *)
(*                                                                          *)
(* Barrier and OneThreadPerMap are not inductive.  What makes them so is     *)
(* the accounting of requests (Accounting): pending_requests is exactly what *)
(* is queued, what a worker holds, and the one request between ++ and Push.  *)
(* That the world thread leaves wait() only at zero then empties the queue   *)
(* and the workers at once.                                                  *)
(***************************************************************************)
EXTENDS MapUpdater, FiniteSetTheorems, TLAPS

\* Phases in which the cancelation token is set.
Ending == {"lastWait", "lastBlocked", "cancel", "join", "stopped"}

\* What the program counters imply for the locks and flags.
Control ==
    /\ lock <=> pc = "push"
    /\ pc \in {"push", "deactivate", "lastWait", "lastBlocked", "cancel", "join"} => activated
    /\ cancelationToken <=> pc \in Ending /\ activated
    /\ shutdown <=> pc \in {"join", "stopped"} /\ activated
    /\ touched # None <=> pc \in {"destroy", "push", "inline", "delayedMap"}

\* What each worker's program counter implies for its request.
Requests ==
    \A w \in Workers :
        /\ wpc[w] # "exit" => activated
        /\ wpc[w] \in {"pop", "blocked"} => request[w] = None
        /\ wpc[w] \in {"update", "finish", "free"} => request[w] # None
        /\ wpc[w] = "test" /\ request[w] = None => cancelationToken

InPush == IF pc = "push" THEN 1 ELSE 0

\* pending_requests counts the requests in flight, and wait() has drained them.
Accounting ==
    /\ pending_requests = Len(queue) + Cardinality(Busy) + InPush
    /\ WorldOwnsMaps \/ ~activated => pending_requests = 0

CountInv == TypeOK /\ Control /\ Requests /\ Accounting /\ NoRequestLost

------------------------------------------------------------------------------
\* The workers that hold a request are finitely many.
LEMMA BusyFinite == /\ IsFiniteSet(Busy)
                    /\ Cardinality(Busy) \in Nat
                    /\ Cardinality(Busy) = 0 <=> Busy = {}
<1>1. Busy \subseteq Workers
  BY DEF Busy
<1>2. IsFiniteSet(Busy)
  BY <1>1, WorkersAssumption, FS_Subset
<1> QED
  BY <1>2, FS_CardinalityType, FS_EmptySet

\* A world step that leaves the workers alone leaves Busy alone.
LEMMA BusySame == UNCHANGED workerVars => Busy' = Busy
  BY DEF workerVars, Busy, Holding

\* Waking blocked workers changes nobody's request.
LEMMA WakeKeepsBusy ==
    ASSUME TypeOK, request' = request,
           \/ wpc' = wpc
           \/ \E w \in Workers : wpc[w] = "blocked" /\ wpc' = [wpc EXCEPT ![w] = "pop"]
           \/ wpc' = [w \in Workers |-> IF wpc[w] = "blocked" THEN "pop" ELSE wpc[w]]
    PROVE  Busy' = Busy
<1>1. ASSUME NEW w \in Workers PROVE Holding(w)' = Holding(w)
  BY <1>1 DEF TypeOK, WorkerPcs, Holding
<1> QED
  BY <1>1 DEF Busy

\* The counting invariant survives the world thread's steps that do not touch
\* the workers.
LEMMA CountWorldStep ==
    ASSUME CountInv, World, UNCHANGED workerVars, queue' = queue
    PROVE  CountInv'
<1> USE BusyFinite, BusySame, NoneAssumption DEF CountInv, TypeOK, Control, Requests, Accounting, NoRequestLost,
        WorldPcs, WorkerPcs, Ending, InPush, WorldOwnsMaps, updaterVars, worldVars, workerVars, history
<1>1. CASE CreateMap BY <1>1 DEF CreateMap
<1>2. CASE BeginTick BY <1>2 DEF BeginTick
<1>3. CASE BeginDestroyMap BY <1>3 DEF BeginDestroyMap
<1>4. CASE EndDestroyMap BY <1>4 DEF EndDestroyMap
<1>5. CASE ScheduleUpdate BY <1>5 DEF ScheduleUpdate
<1>6. CASE BeginInlineUpdate BY <1>6 DEF BeginInlineUpdate
<1>7. CASE EndInlineUpdate BY <1>7 DEF EndInlineUpdate
<1>8. CASE EndLoop BY <1>8 DEF EndLoop
<1>9. CASE Wait
  <2>1. pending_requests' = pending_requests /\ Busy' = Busy /\ UNCHANGED <<updaterVars, i_maps, touched, history>>
    BY <1>9 DEF Wait
  <2>2. TypeOK' /\ Control'
    BY <1>9, <2>1 DEF Wait, StillPending
  <2>3. Accounting'
    BY <1>9, <2>1 DEF Wait, StillPending
  <2>4. Requests' /\ NoRequestLost'
    BY <1>9, <2>1
  <2> QED
    BY <2>2, <2>3, <2>4
<1>10. CASE BeginDelayedUpdate BY <1>10 DEF BeginDelayedUpdate
<1>11. CASE EndDelayedUpdate BY <1>11 DEF EndDelayedUpdate
<1>12. CASE EndTick BY <1>12 DEF EndTick
<1>13. CASE BeginUnloadAll BY <1>13 DEF BeginUnloadAll
<1>14. CASE UnloadMaps BY <1>14 DEF UnloadMaps
<1>15. CASE DeleteMaps BY <1>15 DEF DeleteMaps
<1>16. CASE Deactivate BY <1>16 DEF Deactivate
<1>17. CASE Join BY <1>17 DEF Join
<1>18. CASE PushRequest BY <1>18 DEF PushRequest
<1>19. CASE Cancel BY <1>19 DEF Cancel
<1> QED
  BY <1>1, <1>2, <1>3, <1>4, <1>5, <1>6, <1>7, <1>8, <1>9, <1>10, <1>11, <1>12, <1>13, <1>14, <1>15, <1>16, <1>17, <1>18, <1>19 DEF World

\* The counting invariant survives every step.
LEMMA CountStep == CountInv /\ [Next]_vars => CountInv'
<1> SUFFICES ASSUME CountInv, [Next]_vars PROVE CountInv'
  OBVIOUS
<1> USE BusyFinite, NoneAssumption DEF CountInv, TypeOK, Control, Requests, Accounting, NoRequestLost,
        WorldPcs, WorkerPcs, Ending, InPush, WorldOwnsMaps, updaterVars, worldVars, workerVars, history
<1>1. CASE PushRequest
  <2>1. Busy' = Busy
    BY <1>1, WakeKeepsBusy DEF PushRequest, NotifyOne
  <2>2. touched \in Maps
    BY <1>1 DEF PushRequest
  <2>3. Len(queue') = Len(queue) + 1 /\ queue' \in Seq(Maps)
    BY <1>1, <2>2 DEF PushRequest
  <2>4. wpc' \in [Workers -> WorkerPcs]
    BY <1>1 DEF PushRequest, NotifyOne
  <2>5. Requests' /\ NoRequestLost'
    BY <1>1 DEF PushRequest, NotifyOne
  <2>6. activated
    BY <1>1 DEF PushRequest
  <2>7. TypeOK'
    BY <1>1, <2>3, <2>4 DEF PushRequest
  <2>8. Control'
    BY <1>1, <2>6 DEF PushRequest
  <2>9. Accounting'
    BY <1>1, <2>1, <2>3, <2>6 DEF PushRequest
  <2> QED
    BY <2>5, <2>7, <2>8, <2>9
<1>2. CASE Cancel
  <2>1. Busy' = Busy
    BY <1>2, WakeKeepsBusy DEF Cancel, NotifyAll
  <2>2. queue = <<>>
    BY <1>2 DEF Cancel
  <2>3. wpc' \in [Workers -> WorkerPcs]
    BY <1>2 DEF Cancel, NotifyAll
  <2>4. Requests' /\ NoRequestLost'
    BY <1>2 DEF Cancel, NotifyAll
  <2>5. TypeOK'
    BY <1>2, <2>3 DEF Cancel
  <2>6. Control'
    BY <1>2 DEF Cancel
  <2>7. Accounting'
    BY <1>2, <2>1, <2>2 DEF Cancel
  <2> QED
    BY <2>4, <2>5, <2>6, <2>7
<1>3. CASE World /\ ~PushRequest /\ ~Cancel
  <2>1. UNCHANGED workerVars /\ queue' = queue
    BY <1>3 DEF World, CreateMap, BeginTick, BeginDestroyMap, EndDestroyMap, ScheduleUpdate,
          BeginInlineUpdate, EndInlineUpdate, EndLoop, Wait, BeginDelayedUpdate, EndDelayedUpdate,
          EndTick, BeginUnloadAll, UnloadMaps, DeleteMaps, Deactivate, Join
  <2> QED
    BY <1>3, <2>1, CountWorldStep
<1>4. CASE SpuriousWakeup \/ UNCHANGED vars
  BY <1>4, BusySame DEF SpuriousWakeup, vars
<1>5. ASSUME NEW w \in Workers, Worker(w) \/ WorkerSpuriousWakeup(w)
      PROVE  CountInv'
  <2>0. activated
    BY <1>5 DEF Worker, WorkerSpuriousWakeup, WaitAndPop, TestToken, EndUpdate, UpdateFinished, FreeRequest
  <2>1. CASE WaitAndPop(w) /\ queue # <<>> /\ ~shutdown
    <3>1. w \notin Busy
      BY <2>1 DEF WaitAndPop, Busy, Holding
    <3>2. Len(queue) > 0 /\ Head(queue) \in Maps /\ Len(Tail(queue)) = Len(queue) - 1 /\ Tail(queue) \in Seq(Maps)
      BY <2>1
    <3>3. /\ queue' = Tail(queue)
          /\ wpc' = [wpc EXCEPT ![w] = "test"]
          /\ request' = [request EXCEPT ![w] = Head(queue)]
      BY <2>1 DEF WaitAndPop
    <3>4. Busy' = Busy \cup {w}
      BY <3>1, <3>2, <3>3 DEF Busy, Holding
    <3>5. Cardinality(Busy') = Cardinality(Busy) + 1
      BY <3>1, <3>4, FS_AddElement
    <3>6. Requests' /\ NoRequestLost'
      BY <2>1, <3>2, <3>3 DEF WaitAndPop
    <3>7. TypeOK'
      BY <2>1, <3>2, <3>3 DEF WaitAndPop
    <3>8. Control'
      BY <2>1 DEF WaitAndPop
    <3>9. Accounting'
      <4>1. Len(queue') = Len(queue) - 1
        BY <3>2, <3>3
      <4>2. pending_requests' = pending_requests /\ pc' = pc /\ activated' = activated
        BY <2>1 DEF WaitAndPop
      <4>3. pending_requests > 0
        BY <3>2
      <4> QED
        BY <3>5, <4>1, <4>2, <4>3
    <3> QED
      BY <3>6, <3>7, <3>8, <3>9
  <2>2. CASE WaitAndPop(w) /\ (queue = <<>> \/ shutdown)
    <3>1. Busy' = Busy
      BY <2>2 DEF WaitAndPop, Busy, Holding
    <3> QED
      BY <2>2, <3>1 DEF WaitAndPop
  <2>3. CASE TestToken(w)
    <3>1. cancelationToken => Busy = {}
      BY <2>3
    <3>2. Busy' = Busy
      BY <2>3, <3>1 DEF TestToken, Busy, Holding
    <3>3. cancelationToken => request[w] = None
      BY <2>3, <3>1 DEF TestToken, Busy, Holding
    <3> QED
      BY <2>3, <3>2, <3>3 DEF TestToken
  <2>4. CASE EndUpdate(w)
    <3>1. Busy' = Busy
      BY <2>4 DEF EndUpdate, Busy, Holding
    <3>2. request[w] \in Maps
      BY <2>4 DEF EndUpdate
    <3> QED
      BY <2>4, <3>1, <3>2 DEF EndUpdate
  <2>5. CASE UpdateFinished(w)
    <3>1. w \in Busy
      BY <2>5 DEF UpdateFinished, Busy, Holding
    <3>2. Busy' = Busy \ {w}
      BY <2>5 DEF UpdateFinished, Busy, Holding
    <3>3. Cardinality(Busy') = Cardinality(Busy) - 1 /\ Cardinality(Busy) > 0
      <4>1. Cardinality(Busy \ {w}) = Cardinality(Busy) - 1
        BY <3>1, FS_RemoveElement
      <4>2. Cardinality(Busy) # 0
        BY <3>1
      <4> QED
        BY <3>2, <4>1, <4>2
    <3>4. Requests' /\ NoRequestLost'
      BY <2>5 DEF UpdateFinished
    <3>5. pending_requests > 0 /\ ~WorldOwnsMaps
      BY <3>3
    <3>6. TypeOK'
      BY <2>5, <3>5 DEF UpdateFinished, NotifyWorld
    <3>7. Control'
      BY <2>5, <3>5 DEF UpdateFinished, NotifyWorld
    <3>8. Accounting'
      BY <2>5, <3>3, <3>5, <2>0 DEF UpdateFinished, NotifyWorld
    <3> QED
      BY <3>4, <3>6, <3>7, <3>8
  <2>6. CASE FreeRequest(w) \/ WorkerSpuriousWakeup(w)
    <3>1. Busy' = Busy
      BY <2>6 DEF FreeRequest, WorkerSpuriousWakeup, Busy, Holding
    <3> QED
      BY <2>6, <3>1 DEF FreeRequest, WorkerSpuriousWakeup
  <2> QED
    BY <1>5, <2>1, <2>2, <2>3, <2>4, <2>5, <2>6 DEF Worker
<1> QED
  BY <1>1, <1>2, <1>3, <1>4, <1>5 DEF Next, Stopped

\* The counting invariant holds in every reachable state.
LEMMA CountInvariant == Spec => []CountInv
<1>1. Init => CountInv
  <2> SUFFICES ASSUME Init PROVE CountInv
    OBVIOUS
  <2> USE DEF Init
  <2>1. Busy = {}
    BY DEF Busy, Holding
  <2>2. TypeOK
    <3>1. wpc \in [Workers -> WorkerPcs] /\ request \in [Workers -> Maps \cup {None}]
      BY DEF WorkerPcs
    <3>2. queue \in Seq(Maps) /\ pc \in WorldPcs
      BY DEF WorldPcs
    <3> QED
      BY <3>1, <3>2 DEF TypeOK
  <2> QED
    BY <2>1, <2>2, BusyFinite DEF CountInv, Control, Requests, Accounting, NoRequestLost, Ending, InPush
<1> QED
  BY <1>1, CountStep, PTL DEF Spec

\* The variables keep their types; in particular pending_requests never
\* underflows in update_finished.
THEOREM TypeCorrect == Spec => []TypeOK
  BY CountInvariant, PTL DEF CountInv

\* Nothing is in flight when the counter is zero.
LEMMA Drained == CountInv => Barrier
<1> SUFFICES ASSUME CountInv, WorldOwnsMaps PROVE queue = <<>> /\ Busy = {}
  BY DEF Barrier
<1>1. Len(queue) + Cardinality(Busy) + InPush = 0 /\ Len(queue) \in Nat /\ InPush \in Nat
  BY DEF CountInv, Accounting, TypeOK, InPush
<1>2. Len(queue) = 0 /\ Cardinality(Busy) = 0
  BY <1>1, BusyFinite
<1> QED
  BY <1>2, BusyFinite DEF CountInv, TypeOK

\* MapUpdater::wait() is a barrier for every number of maps and workers.
THEOREM BarrierHolds == Spec => []Barrier
  BY CountInvariant, Drained, PTL

\* No worker leaves its loop with a request in its hands.
THEOREM NoRequestIsLost == Spec => []NoRequestLost
  BY CountInvariant, PTL DEF CountInv

------------------------------------------------------------------------------
(* Exclusive access.  A map in flight is live and was taken off the world     *)
(* thread's list, so this tick can neither schedule it again nor destroy it.  *)

\* A map in flight is live and no longer on the world thread's list.
InFlight(m) == m \in i_maps \ todo

MapInv ==
    /\ todo \subseteq i_maps
    /\ touched \notin todo
    /\ touched \in i_maps \cup {None}
    /\ \A i \in DOMAIN queue : InFlight(queue[i])
    /\ \A w \in Busy : InFlight(request[w])
    /\ OneThreadPerMap

\* Exclusive access survives the world thread's steps that leave the workers and
\* the queue alone.
LEMMA MapWorldStep ==
    ASSUME CountInv, MapInv, World, UNCHANGED workerVars, queue' = queue
    PROVE  MapInv'
<1>1. Busy' = Busy /\ request' = request
  BY BusySame DEF workerVars
<1>2. /\ \A w \in Busy : request[w] \in Maps /\ request[w] # None
      /\ \A i \in DOMAIN queue : queue[i] \in Maps /\ queue[i] # None
  BY NoneAssumption DEF CountInv, TypeOK, Requests, Busy, Holding
<1>3. todo \subseteq Maps /\ i_maps \subseteq Maps /\ Barrier /\ Control
  BY Drained DEF CountInv, TypeOK
<1>4. queue = <<>> => DOMAIN queue = {}
  OBVIOUS
<1> USE <1>1, <1>2, <1>3, <1>4, NoneAssumption DEF MapInv, InFlight, OneThreadPerMap, Barrier, WorldOwnsMaps,
        updaterVars, worldVars, workerVars, history
<1>5. CASE CreateMap BY <1>5 DEF CreateMap, Control
<1>6. CASE BeginTick BY <1>6 DEF BeginTick, Control
<1>7. CASE BeginDestroyMap BY <1>7 DEF BeginDestroyMap, Control
<1>8. CASE EndDestroyMap BY <1>8 DEF EndDestroyMap, Control
<1>9. CASE ScheduleUpdate BY <1>9 DEF ScheduleUpdate, Control
<1>10. CASE BeginInlineUpdate BY <1>10 DEF BeginInlineUpdate, Control
<1>11. CASE EndInlineUpdate BY <1>11 DEF EndInlineUpdate, Control
<1>12. CASE EndLoop
  <2>1. ~activated => queue = <<>> /\ Busy = {}
    <3>1. ASSUME ~activated PROVE Len(queue) = 0 /\ Cardinality(Busy) = 0
      BY <3>1, BusyFinite DEF CountInv, TypeOK, Accounting, InPush
    <3> QED
      BY <3>1, BusyFinite DEF CountInv, TypeOK
  <2> QED
    BY <1>12, <2>1 DEF EndLoop, Control
<1>13. CASE Wait
  <2>1. ~StillPending => queue = <<>> /\ Busy = {}
    <3>1. ASSUME ~StillPending PROVE Len(queue) = 0 /\ Cardinality(Busy) = 0
      BY <3>1, BusyFinite DEF CountInv, TypeOK, Accounting, StillPending, InPush
    <3> QED
      BY <3>1, BusyFinite DEF CountInv, TypeOK
  <2> QED
    BY <1>13, <2>1 DEF Wait, Control
<1>14. CASE BeginDelayedUpdate BY <1>14 DEF BeginDelayedUpdate, Control
<1>15. CASE EndDelayedUpdate BY <1>15 DEF EndDelayedUpdate, Control
<1>16. CASE EndTick BY <1>16 DEF EndTick, Control
<1>17. CASE BeginUnloadAll BY <1>17 DEF BeginUnloadAll, Control
<1>18. CASE UnloadMaps BY <1>18 DEF UnloadMaps, Control
<1>19. CASE DeleteMaps BY <1>19 DEF DeleteMaps, Control
<1>20. CASE Deactivate BY <1>20 DEF Deactivate, Control
<1>21. CASE Join BY <1>21 DEF Join, Control
<1>22. CASE PushRequest BY <1>22 DEF PushRequest, Control
<1>23. CASE Cancel BY <1>23 DEF Cancel, Control
<1> QED
  BY <1>5, <1>6, <1>7, <1>8, <1>9, <1>10, <1>11, <1>12, <1>13, <1>14, <1>15, <1>16, <1>17, <1>18, <1>19, <1>20, <1>21, <1>22, <1>23 DEF World

\* The exclusive-access invariant survives every step.
LEMMA MapStep == CountInv /\ MapInv /\ [Next]_vars => MapInv'
<1> SUFFICES ASSUME CountInv, MapInv, [Next]_vars PROVE MapInv'
  OBVIOUS
<1>0. TypeOK /\ Control /\ Requests /\ Barrier /\ queue \in Seq(Maps)
  BY Drained DEF CountInv, TypeOK
<1> USE <1>0, NoneAssumption DEF MapInv, InFlight, OneThreadPerMap, updaterVars, worldVars, workerVars, history
<1>1. CASE PushRequest
  <2>1. Busy' = Busy
    BY <1>1, WakeKeepsBusy DEF PushRequest, NotifyOne
  <2>2. touched \in Maps /\ touched \in i_maps
    BY <1>1 DEF PushRequest, Control, TypeOK
  <2>3. /\ queue' = Append(queue, touched)
        /\ UNCHANGED <<i_maps, todo, request>>
        /\ touched' = None
    BY <1>1 DEF PushRequest
  <2>4. /\ DOMAIN queue' = 1..(Len(queue) + 1)
        /\ DOMAIN queue = 1..Len(queue)
        /\ queue'[Len(queue) + 1] = touched
        /\ \A i \in DOMAIN queue : queue'[i] = queue[i] /\ queue[i] \in Maps
    BY <2>2, <2>3
  <2>5. \A w \in Busy : request[w] \in Maps
    BY DEF TypeOK
  <2> QED
    BY <2>1, <2>2, <2>3, <2>4, <2>5 DEF TypeOK
<1>2. CASE Cancel
  <2>1. Busy' = Busy
    BY <1>2, WakeKeepsBusy DEF Cancel, NotifyAll
  <2> QED
    BY <1>2, <2>1 DEF Cancel
<1>3. CASE World /\ ~PushRequest /\ ~Cancel
  <2>1. UNCHANGED workerVars /\ queue' = queue
    BY <1>3 DEF World, CreateMap, BeginTick, BeginDestroyMap, EndDestroyMap, ScheduleUpdate,
          BeginInlineUpdate, EndInlineUpdate, EndLoop, Wait, BeginDelayedUpdate, EndDelayedUpdate,
          EndTick, BeginUnloadAll, UnloadMaps, DeleteMaps, Deactivate, Join
  <2> QED
    BY <1>3, <2>1, MapWorldStep
<1>4. CASE SpuriousWakeup \/ UNCHANGED vars
  BY <1>4, BusySame DEF SpuriousWakeup, vars
<1>5. ASSUME NEW w \in Workers, WaitAndPop(w), queue # <<>>, ~shutdown
      PROVE  MapInv'
  <2>1. /\ queue' = Tail(queue) /\ Len(queue) > 0 /\ Head(queue) = queue[1] /\ Head(queue) \in Maps
        /\ wpc' = [wpc EXCEPT ![w] = "test"]
        /\ request' = [request EXCEPT ![w] = Head(queue)]
        /\ UNCHANGED <<i_maps, todo, touched>>
    BY <1>5 DEF WaitAndPop
  <2>2. /\ DOMAIN queue = 1..Len(queue)
        /\ DOMAIN queue' = 1..(Len(queue) - 1)
        /\ \A i \in DOMAIN queue' : queue'[i] = queue[i + 1] /\ i + 1 \in DOMAIN queue /\ i + 1 # 1
        /\ 1 \in DOMAIN queue
    BY <2>1
  <2>3. w \notin Busy
    BY <1>5 DEF WaitAndPop, Busy, Holding
  <2>4. Busy' = Busy \cup {w}
    BY <2>1 DEF Busy, Holding, TypeOK
  <2>5. request'[w] = queue[1] /\ \A v \in Busy : request'[v] = request[v]
    BY <2>1, <2>3 DEF TypeOK, Busy
  <2> QED
    BY <2>1, <2>2, <2>3, <2>4, <2>5
<1>6. ASSUME NEW w \in Workers, \/ WaitAndPop(w) /\ (queue = <<>> \/ shutdown)
                                \/ TestToken(w) \/ EndUpdate(w) \/ UpdateFinished(w)
                                \/ FreeRequest(w) \/ WorkerSpuriousWakeup(w)
      PROVE  MapInv'
  <2>1. UNCHANGED <<queue, i_maps, todo, touched>>
    BY <1>6 DEF WaitAndPop, TestToken, EndUpdate, UpdateFinished, FreeRequest, WorkerSpuriousWakeup
  <2>2. Busy' \subseteq Busy
    BY <1>6 DEF WaitAndPop, TestToken, EndUpdate, UpdateFinished, FreeRequest, WorkerSpuriousWakeup,
                Busy, Holding, TypeOK, Requests
  <2>3. \A v \in Busy' : request'[v] = request[v]
    BY <1>6 DEF WaitAndPop, TestToken, EndUpdate, UpdateFinished, FreeRequest, WorkerSpuriousWakeup,
                Busy, Holding, TypeOK
  <2> QED
    BY <2>1, <2>2, <2>3
<1> QED
  BY <1>1, <1>2, <1>3, <1>4, <1>5, <1>6 DEF Next, Worker, Stopped

\* Counting and exclusive access hold together in every reachable state.
LEMMA MapInvariant == Spec => [](CountInv /\ MapInv)
<1>1. Init => MapInv
  BY NoneAssumption DEF Init, MapInv, InFlight, OneThreadPerMap, Busy, Holding
<1> QED
  BY <1>1, CountInvariant, MapStep, PTL DEF Spec

\* A map is touched by at most one thread at a time.
THEOREM OneThreadPerMapHolds == Spec => []OneThreadPerMap
  BY MapInvariant, PTL DEF MapInv

\* Map::Update never runs through a null request or on a deleted map.
THEOREM NoDeadMapIsUpdated == Spec => []NoDeadMapUpdated
<1>1. CountInv /\ MapInv => NoDeadMapUpdated
  BY DEF MapInv, InFlight, NoDeadMapUpdated, Busy, Holding
<1> QED
  BY <1>1, MapInvariant, PTL

------------------------------------------------------------------------------
(* A tick updates every map it scheduled before DelayedUpdate starts.          *)

InTick == pc \in {"loop", "destroy", "push", "inline", "wait", "blocked", "delayed", "delayedMap"}

\* Where a scheduled map can be before its update has returned.
Outstanding(m) ==
    \/ m = touched /\ pc \in {"push", "inline"}
    \/ \E i \in DOMAIN queue : queue[i] = m
    \/ \E w \in Busy : request[w] = m

TickInv ==
    /\ \A w \in Workers : wpc[w] = "finish" => request[w] \in updated
    /\ InTick =>
        /\ updated \subseteq scheduled
        /\ pc \in {"push", "inline"} => touched \in scheduled
        /\ \A i \in DOMAIN queue : queue[i] \in scheduled
        /\ \A w \in Busy : request[w] \in scheduled
        /\ \A m \in scheduled : m \in updated \/ Outstanding(m)
\* Scheduled maps stay accounted for in the world thread's steps that leave the
\* workers and the queue alone.
LEMMA TickWorldStep ==
    ASSUME CountInv, TickInv, World, UNCHANGED workerVars, queue' = queue
    PROVE  TickInv'
<1>1. Busy' = Busy /\ request' = request /\ wpc' = wpc
  BY BusySame DEF workerVars
<1>2. Barrier /\ Control /\ Busy \subseteq Workers
  BY Drained DEF CountInv, Busy
<1>3. queue = <<>> => DOMAIN queue = {}
  OBVIOUS
<1>4. \A w \in Workers : wpc[w] = "finish" => w \in Busy
  BY DEF Busy, Holding
<1> USE <1>1, <1>2, <1>3, <1>4 DEF TickInv, InTick, Outstanding, Barrier, WorldOwnsMaps,
        updaterVars, worldVars, workerVars, history
<1>5. CASE CreateMap BY <1>5 DEF CreateMap, Control
<1>6. CASE BeginTick BY <1>6 DEF BeginTick, Control
<1>7. CASE BeginDestroyMap BY <1>7 DEF BeginDestroyMap, Control
<1>8. CASE EndDestroyMap BY <1>8 DEF EndDestroyMap, Control
<1>9. CASE ScheduleUpdate BY <1>9 DEF ScheduleUpdate, Control
<1>10. CASE BeginInlineUpdate BY <1>10 DEF BeginInlineUpdate, Control
<1>11. CASE EndInlineUpdate BY <1>11 DEF EndInlineUpdate, Control
<1>12. CASE EndLoop BY <1>12 DEF EndLoop, Control
<1>13. CASE Wait BY <1>13 DEF Wait, Control
<1>14. CASE BeginDelayedUpdate BY <1>14 DEF BeginDelayedUpdate, Control
<1>15. CASE EndDelayedUpdate BY <1>15 DEF EndDelayedUpdate, Control
<1>16. CASE EndTick BY <1>16 DEF EndTick, Control
<1>17. CASE BeginUnloadAll BY <1>17 DEF BeginUnloadAll, Control
<1>18. CASE UnloadMaps BY <1>18 DEF UnloadMaps, Control
<1>19. CASE DeleteMaps BY <1>19 DEF DeleteMaps, Control
<1>20. CASE Deactivate BY <1>20 DEF Deactivate, Control
<1>21. CASE Join BY <1>21 DEF Join, Control
<1>22. CASE PushRequest BY <1>22 DEF PushRequest, Control
<1>23. CASE Cancel BY <1>23 DEF Cancel, Control
<1> QED
  BY <1>5, <1>6, <1>7, <1>8, <1>9, <1>10, <1>11, <1>12, <1>13, <1>14, <1>15, <1>16, <1>17, <1>18, <1>19, <1>20, <1>21, <1>22, <1>23 DEF World


\* Scheduled maps stay accounted for in every step.
LEMMA TickStep == CountInv /\ TickInv /\ [Next]_vars => TickInv'
<1> SUFFICES ASSUME CountInv, TickInv, [Next]_vars PROVE TickInv'
  OBVIOUS
<1>0. TypeOK /\ Control /\ Requests /\ Barrier /\ queue \in Seq(Maps)
  BY Drained DEF CountInv, TypeOK
<1> USE <1>0 DEF TickInv, InTick, Outstanding, updaterVars, worldVars, workerVars, history
<1>1. CASE PushRequest
  <2>1. Busy' = Busy
    BY <1>1, WakeKeepsBusy DEF PushRequest, NotifyOne
  <2>2. touched \in Maps
    BY <1>1 DEF PushRequest, Control, TypeOK
  <2>3. /\ queue' = Append(queue, touched)
        /\ UNCHANGED <<request, scheduled, updated>>
        /\ pc = "push" /\ pc' = "loop"
    BY <1>1 DEF PushRequest
  <2>4. /\ DOMAIN queue' = 1..(Len(queue) + 1)
        /\ DOMAIN queue = 1..Len(queue)
        /\ queue'[Len(queue) + 1] = touched
        /\ Len(queue) + 1 \in DOMAIN queue'
        /\ \A i \in DOMAIN queue : queue'[i] = queue[i] /\ i \in DOMAIN queue'
    BY <2>2, <2>3
  <2>5. \A w \in Workers : wpc'[w] = "finish" => wpc[w] = "finish"
    BY <1>1 DEF PushRequest, NotifyOne, TypeOK
  <2> QED
    BY <2>1, <2>3, <2>4, <2>5
<1>2. CASE Cancel
  BY <1>2 DEF Cancel, NotifyAll, TypeOK
<1>3. CASE World /\ ~PushRequest /\ ~Cancel
  <2>1. UNCHANGED workerVars /\ queue' = queue
    BY <1>3 DEF World, CreateMap, BeginTick, BeginDestroyMap, EndDestroyMap, ScheduleUpdate,
          BeginInlineUpdate, EndInlineUpdate, EndLoop, Wait, BeginDelayedUpdate, EndDelayedUpdate,
          EndTick, BeginUnloadAll, UnloadMaps, DeleteMaps, Deactivate, Join
  <2> QED
    BY <1>3, <2>1, TickWorldStep
<1>4. CASE SpuriousWakeup \/ UNCHANGED vars
  BY <1>4, BusySame DEF SpuriousWakeup, vars
<1>5. ASSUME NEW w \in Workers, WaitAndPop(w), queue # <<>>, ~shutdown
      PROVE  TickInv'
  <2>1. /\ queue' = Tail(queue) /\ Len(queue) > 0 /\ Head(queue) = queue[1] /\ Head(queue) \in Maps
        /\ wpc' = [wpc EXCEPT ![w] = "test"]
        /\ request' = [request EXCEPT ![w] = Head(queue)]
        /\ UNCHANGED <<pc, touched, scheduled, updated>>
    BY <1>5 DEF WaitAndPop
  <2>2. /\ DOMAIN queue = 1..Len(queue)
        /\ DOMAIN queue' = 1..(Len(queue) - 1)
        /\ \A i \in DOMAIN queue' : queue'[i] = queue[i + 1] /\ i + 1 \in DOMAIN queue
        /\ \A i \in DOMAIN queue : i # 1 => i - 1 \in DOMAIN queue' /\ queue'[i - 1] = queue[i]
        /\ 1 \in DOMAIN queue
    BY <2>1
  <2>3. w \notin Busy
    BY <1>5 DEF WaitAndPop, Busy, Holding
  <2>4. Busy' = Busy \cup {w}
    BY <2>1, NoneAssumption DEF Busy, Holding, TypeOK
  <2>5. request'[w] = queue[1] /\ \A v \in Busy : request'[v] = request[v]
    BY <2>1, <2>3 DEF TypeOK, Busy
  <2>6. \A v \in Workers : wpc'[v] = "finish" => wpc[v] = "finish" /\ request'[v] = request[v]
    BY <2>1 DEF TypeOK
  <2>7. ASSUME NEW m \in scheduled, InTick, m \notin updated PROVE Outstanding(m)'
    <3>1. CASE m = touched /\ pc \in {"push", "inline"}
      BY <2>1, <3>1
    <3>2. CASE \E v \in Busy : request[v] = m
      BY <2>4, <2>5, <3>2
    <3>3. ASSUME NEW i \in DOMAIN queue, queue[i] = m PROVE Outstanding(m)'
      <4>1. CASE i = 1
        BY <2>4, <2>5, <3>3, <4>1
      <4>2. CASE i # 1
        BY <2>2, <3>3, <4>2
      <4> QED
        BY <4>1, <4>2
    <3> QED
      BY <2>7, <3>1, <3>2, <3>3
  <2> QED
    BY <2>1, <2>2, <2>4, <2>5, <2>6, <2>7
<1>6. ASSUME NEW w \in Workers, \/ WaitAndPop(w) /\ (queue = <<>> \/ shutdown)
                                \/ TestToken(w) \/ EndUpdate(w) \/ FreeRequest(w) \/ WorkerSpuriousWakeup(w)
      PROVE  TickInv'
  <2>1. UNCHANGED <<queue, pc, touched, scheduled>>
    BY <1>6 DEF WaitAndPop, TestToken, EndUpdate, FreeRequest, WorkerSpuriousWakeup
  <2>2. Busy' = Busy
    <3>1. TestToken(w) /\ cancelationToken => Busy = {}
      BY DEF Control, Barrier, WorldOwnsMaps, Ending
    <3> QED
      BY <1>6, <3>1 DEF WaitAndPop, TestToken, EndUpdate, FreeRequest, WorkerSpuriousWakeup,
                Busy, Holding, TypeOK, Requests
  <2>3. \A v \in Busy' : request'[v] = request[v]
    BY <1>6 DEF WaitAndPop, TestToken, EndUpdate, FreeRequest, WorkerSpuriousWakeup, Busy, Holding, TypeOK
  <2>4. /\ updated \subseteq updated'
        /\ \A m \in updated' : m \in updated \/ \E v \in Busy : request[v] = m
        /\ \A v \in Workers : wpc'[v] = "finish" => request'[v] \in updated'
    BY <1>6 DEF WaitAndPop, TestToken, EndUpdate, FreeRequest, WorkerSpuriousWakeup, Busy, Holding, TypeOK
  <2> QED
    BY <2>1, <2>2, <2>3, <2>4
<1>7. ASSUME NEW w \in Workers, UpdateFinished(w)
      PROVE  TickInv'
  <2>1. UNCHANGED <<queue, touched, scheduled, updated, request>>
    BY <1>7 DEF UpdateFinished
  <2>2. w \in Busy /\ Busy' = Busy \ {w} /\ request[w] \in updated
    BY <1>7 DEF UpdateFinished, Busy, Holding, TypeOK
  <2>3. /\ InTick' <=> InTick
        /\ pc' \in {"push", "inline"} <=> pc \in {"push", "inline"}
    BY <1>7 DEF UpdateFinished, NotifyWorld, TypeOK
  <2>4. \A v \in Workers : wpc'[v] = "finish" => wpc[v] = "finish"
    BY <1>7 DEF UpdateFinished, TypeOK
  <2> QED
    BY <2>1, <2>2, <2>3, <2>4
<1> QED
  BY <1>1, <1>2, <1>3, <1>4, <1>5, <1>6, <1>7 DEF Next, Worker, Stopped

\* When DelayedUpdate runs, exactly the scheduled maps have been updated.
THEOREM TickIsComplete == Spec => []TickComplete
<1>1. Init => TickInv
  BY DEF Init, TickInv, InTick, Busy, Holding
<1>2. CountInv /\ TickInv => TickComplete
  <2> SUFFICES ASSUME CountInv, TickInv, pc \in {"delayed", "delayedMap"} PROVE updated = scheduled
    BY DEF TickComplete
  <2>1. queue = <<>> /\ Busy = {}
    BY Drained DEF Barrier, WorldOwnsMaps
  <2> QED
    BY <2>1 DEF TickInv, InTick, Outstanding
<1> QED
  BY <1>1, <1>2, CountInvariant, TickStep, PTL DEF Spec

------------------------------------------------------------------------------
(* The updater implements MapTick. Each step is a step of MapTick or leaves   *)
(* what MapTick sees alone; that a map is in flight once (OneThreadPerMap)    *)
(* is what makes the end of an update the end of the only one, and Barrier    *)
(* what makes the loops over all maps begin with nobody inside.               *)

\* The phase at each position of the world thread.
LEMMA PhaseIs ==
    ASSUME NEW q \in WorldPcs
    PROVE  /\ PhaseOf(q) = "sessions" <=> q = "idle"
           /\ PhaseOf(q) = "updates" <=> q \in {"loop", "destroy", "push", "inline", "wait", "blocked"}
           /\ PhaseOf(q) = "delayed" <=> q \in {"delayed", "delayedMap"}
           /\ PhaseOf(q) = "stopping" <=> q \in {"unload", "delete", "deactivate"} \cup Ending
  BY DEF PhaseOf, WorldPcs, Ending

\* Nothing is given and nobody inside when nothing is in flight.
LEMMA NobodyInside ==
    ASSUME CountInv, queue = <<>>, Busy = {}, pc \notin {"push", "inline", "delayedMap"}
    PROVE  Given = {} /\ Inside = {}
<1>1. \A w \in Workers : wpc[w] # "update" /\ (wpc[w] = "test" => request[w] = None)
  BY DEF Busy, Holding
<1>2. DOMAIN queue = {}
  OBVIOUS
<1> QED
  BY <1>1, <1>2, NoneAssumption DEF Given, Inside

\* The world thread waits when it has been through all maps.
LoopDone == pc \in {"wait", "blocked"} => todo = {}

LEMMA LoopDoneStep == LoopDone /\ [Next]_vars => LoopDone'
<1> SUFFICES ASSUME LoopDone, [Next]_vars PROVE LoopDone'
  OBVIOUS
<1> USE DEF LoopDone, updaterVars, worldVars, workerVars, history
<1>1. CASE World
  BY <1>1 DEF World, CreateMap, BeginTick, BeginDestroyMap, EndDestroyMap, ScheduleUpdate, PushRequest,
        BeginInlineUpdate, EndInlineUpdate, EndLoop, Wait, BeginDelayedUpdate, EndDelayedUpdate,
        EndTick, BeginUnloadAll, UnloadMaps, DeleteMaps, Deactivate, Cancel, Join
<1>2. CASE SpuriousWakeup \/ UNCHANGED vars
  BY <1>2 DEF SpuriousWakeup, vars
<1>3. ASSUME NEW w \in Workers, Worker(w) \/ WorkerSpuriousWakeup(w)
      PROVE  LoopDone'
  BY <1>3 DEF Worker, WorkerSpuriousWakeup, WaitAndPop, TestToken, EndUpdate, UpdateFinished, FreeRequest,
        NotifyWorld
<1> QED
  BY <1>1, <1>2, <1>3 DEF Next, Stopped

\* Nothing is in flight while the counter is zero.
LEMMA NothingPending ==
    ASSUME CountInv, pending_requests = 0
    PROVE  queue = <<>> /\ Busy = {}
<1>1. Len(queue) = 0 /\ Cardinality(Busy) = 0
  BY BusyFinite DEF CountInv, TypeOK, Accounting, InPush
<1> QED
  BY <1>1, BusyFinite DEF CountInv, TypeOK

\* Steps of the world thread that leave workers and queue alone.
LEMMA WorldSimulates ==
    ASSUME CountInv, MapInv, LoopDone, CountInv', World, UNCHANGED workerVars, queue' = queue
    PROVE  Tick!Next \/ UNCHANGED Tick!vars
<1>1. TypeOK /\ Control /\ pc \in WorldPcs /\ pc' \in WorldPcs /\ TypeOK' /\ Barrier
  BY Drained DEF CountInv, TypeOK
<1>2. wpc' = wpc /\ request' = request
  BY DEF workerVars
<1>3. todo \subseteq i_maps /\ todo \subseteq Maps /\ i_maps \subseteq Maps /\ touched \notin todo
  BY <1>1 DEF MapInv, TypeOK
<1>4. /\ Phase = "sessions" <=> pc = "idle"
      /\ Phase = "updates" <=> pc \in {"loop", "destroy", "push", "inline", "wait", "blocked"}
      /\ Phase = "delayed" <=> pc \in {"delayed", "delayedMap"}
      /\ Phase = "stopping" <=> pc \in {"unload", "delete", "deactivate"} \cup Ending
  BY <1>1, PhaseIs DEF Phase
<1>5. /\ Phase' = "sessions" <=> pc' = "idle"
      /\ Phase' = "updates" <=> pc' \in {"loop", "destroy", "push", "inline", "wait", "blocked"}
      /\ Phase' = "delayed" <=> pc' \in {"delayed", "delayedMap"}
      /\ Phase' = "stopping" <=> pc' \in {"unload", "delete", "deactivate"} \cup Ending
  BY <1>1, PhaseIs DEF Phase
<1>6. ASSUME pc \notin {"push", "inline", "delayedMap"}, pc' \notin {"push", "inline", "delayedMap"}
      PROVE  Given' = Given /\ Inside' = Inside
  BY <1>2, <1>6 DEF Given, Inside
<1>7. ASSUME Phase \in {"sessions", "delayed", "stopping"}, pc # "delayedMap" PROVE Given = {} /\ Inside = {}
  BY <1>1, <1>4, <1>7, NobodyInside DEF Barrier, WorldOwnsMaps, Ending
<1>8. CASE CreateMap
  <2>1. PICK m \in Maps \ i_maps : i_maps' = i_maps \cup {m}
    BY <1>8 DEF CreateMap
  <2>2. pc = "idle" /\ pc' = pc
    BY <1>8 DEF CreateMap, worldVars
  <2>3. Given' = Given /\ Inside' = Inside
    BY <1>6, <2>2
  <2>4. Ahead' = Ahead /\ Phase' = Phase
    BY <1>4, <1>5, <2>2 DEF Ahead
  <2>5. Tick!CreateMap(m)
    BY <1>4, <2>1, <2>2, <2>3, <2>4 DEF Tick!CreateMap
  <2> QED
    BY <2>1, <2>5 DEF Tick!Next
<1>9. CASE BeginTick
  <2>1. pc = "idle" /\ pc' = "loop" /\ todo' = i_maps /\ i_maps' = i_maps
    BY <1>9 DEF BeginTick
  <2>2. Given' = Given /\ Inside' = Inside
    BY <1>6, <2>1
  <2>3. Ahead' = i_maps
    BY <1>3, <1>5, <2>1 DEF Ahead
  <2>4. Tick!BeginTick
    BY <1>4, <1>5, <2>1, <2>2, <2>3 DEF Tick!BeginTick
  <2> QED
    BY <2>4 DEF Tick!Next
<1>10. CASE BeginDestroyMap
  <2>1. PICK m \in todo : touched' = m /\ todo' = todo \ {m} /\ pc = "loop" /\ pc' = "destroy" /\ i_maps' = i_maps
    BY <1>10 DEF BeginDestroyMap
  <2>2. Given' = Given /\ Inside' = Inside
    BY <1>6, <2>1
  <2>3. Phase = "updates" /\ Phase' = Phase
    BY <1>4, <1>5, <2>1
  <2>4. Ahead' = Ahead
    BY <2>1, <2>3 DEF Ahead
  <2> QED
    BY <2>1, <2>2, <2>3, <2>4 DEF Tick!vars
<1>11. CASE EndDestroyMap
  <2>1. pc = "destroy" /\ pc' = "loop" /\ i_maps' \in {i_maps, i_maps \ {touched}} /\ todo' = todo
    BY <1>11 DEF EndDestroyMap
  <2>2. Given' = Given /\ Inside' = Inside
    BY <1>6, <2>1
  <2>3. Phase = "updates" /\ Phase' = Phase
    BY <1>4, <1>5, <2>1
  <2>4. touched \in Maps /\ touched \in Ahead /\ Ahead' = Ahead \ {touched}
    BY <1>1, <1>3, <2>1, <2>3, NoneAssumption DEF Ahead, Control, TypeOK
  <2>5. Tick!Unload(touched)
    BY <2>1, <2>2, <2>3, <2>4 DEF Tick!Unload
  <2> QED
    BY <2>4, <2>5 DEF Tick!Next
<1>12. CASE ScheduleUpdate
  <2>1. PICK m \in todo : touched' = m /\ todo' = todo \ {m} /\ pc = "loop" /\ pc' = "push" /\ i_maps' = i_maps
    BY <1>12 DEF ScheduleUpdate
  <2>2. m \in Maps /\ Given' = Given \cup {m} /\ Inside' = Inside
    BY <1>2, <1>3, <2>1 DEF Given, Inside
  <2>3. Phase = "updates" /\ Phase' = Phase
    BY <1>4, <1>5, <2>1
  <2>4. m \in Ahead /\ Ahead' = Ahead \ {m}
    BY <2>1, <2>2, <2>3 DEF Ahead
  <2>5. Tick!Give(m)
    BY <2>1, <2>2, <2>3, <2>4 DEF Tick!Give
  <2> QED
    BY <2>2, <2>5 DEF Tick!Next
<1>13. CASE BeginInlineUpdate
  <2>1. PICK m \in todo : touched' = m /\ todo' = todo \ {m} /\ pc = "loop" /\ pc' = "inline" /\ i_maps' = i_maps
    BY <1>13 DEF BeginInlineUpdate
  <2>2. \A w \in Workers : wpc[w] = "exit"
    BY <1>13 DEF BeginInlineUpdate, CountInv, Requests
  <2>3. Inside = {}
    BY <2>1, <2>2 DEF Inside
  <2>4. m \in Maps /\ Given' = Given /\ Inside' = Inside \cup {m}
    BY <1>2, <1>3, <2>1 DEF Given, Inside
  <2>5. Phase = "updates" /\ Phase' = Phase
    BY <1>4, <1>5, <2>1
  <2>6. m \in Ahead /\ m \in i_maps /\ Ahead' = Ahead \ {m}
    BY <1>3, <2>1, <2>4, <2>5 DEF Ahead
  <2>7. Tick!Visit(m)
    BY <2>1, <2>3, <2>4, <2>5, <2>6 DEF Tick!Visit
  <2> QED
    BY <2>4, <2>7 DEF Tick!Next
<1>14. CASE EndInlineUpdate
  <2>1. pc = "inline" /\ pc' = "loop" /\ i_maps' = i_maps /\ todo' = todo
    BY <1>14 DEF EndInlineUpdate, updaterVars
  <2>2. touched \in Maps /\ touched \in Inside
    BY <1>1, <2>1, NoneAssumption DEF Inside, Control, TypeOK
  <2>3. \A w \in Workers : wpc[w] = "update" => request[w] # touched
    BY DEF MapInv, OneThreadPerMap, Busy, Holding
  <2>4. Given' = Given /\ Inside' = Inside \ {touched}
    BY <1>2, <2>1, <2>3 DEF Given, Inside
  <2>5. Phase' = Phase /\ Ahead' = Ahead
    BY <1>4, <1>5, <2>1 DEF Ahead
  <2>6. Tick!EndUpdate(touched)
    BY <2>1, <2>2, <2>4, <2>5 DEF Tick!EndUpdate
  <2> QED
    BY <2>2, <2>6 DEF Tick!Next
<1>15. ASSUME pending_requests = 0, todo = {}, pc \in {"loop", "wait"},
              pc' = "delayed", todo' = i_maps, i_maps' = i_maps
       PROVE  Tick!BeginDelayed
  <2>1. Given = {} /\ Inside = {}
    BY <1>15, NobodyInside, NothingPending
  <2>2. Given' = Given /\ Inside' = Inside
    BY <1>6, <1>15
  <2>3. Phase = "updates" /\ Phase' = "delayed"
    BY <1>4, <1>5, <1>15
  <2>4. Ahead = {} /\ Ahead' = i_maps
    BY <1>3, <1>15, <2>3 DEF Ahead
  <2> QED
    BY <1>15, <2>1, <2>2, <2>3, <2>4 DEF Tick!BeginDelayed
<1>16. ASSUME Phase' = Phase, todo' = todo \/ Phase = "stopping", i_maps' = i_maps,
              pc \notin {"destroy", "push", "inline", "delayedMap"},
              pc' \notin {"destroy", "push", "inline", "delayedMap"}
       PROVE  UNCHANGED Tick!vars
  <2>1. Given' = Given /\ Inside' = Inside
    BY <1>6, <1>16
  <2>2. Ahead' = Ahead
    BY <1>16 DEF Ahead
  <2> QED
    BY <1>16, <2>1, <2>2 DEF Tick!vars
<1>17. CASE EndLoop
  <2>1. /\ pc = "loop" /\ todo = {} /\ i_maps' = i_maps
        /\ \/ pc' = "wait" /\ todo' = todo
           \/ ~activated /\ pc' = "delayed" /\ todo' = i_maps
    BY <1>17 DEF EndLoop
  <2>2. CASE pc' = "wait" /\ todo' = todo
    BY <1>4, <1>5, <1>16, <2>1, <2>2
  <2>3. CASE ~activated /\ pc' = "delayed" /\ todo' = i_maps
    <3>1. pending_requests = 0
      BY <2>3 DEF CountInv, Accounting
    <3> QED
      BY <1>15, <2>1, <2>3, <3>1 DEF Tick!Next
  <2> QED
    BY <2>1, <2>2, <2>3
<1>18. CASE Wait
  <2>1. i_maps' = i_maps
    BY <1>18 DEF Wait
  <2>2. CASE StillPending /\ pc = "wait"
    <3>1. pc' = "blocked" /\ todo' = todo
      BY <1>18, <2>2 DEF Wait
    <3> QED
      BY <1>4, <1>5, <1>16, <2>1, <2>2, <3>1
  <2>3. CASE pc = "lastWait"
    <3>1. pc' \in {"lastBlocked", "cancel"} /\ todo' = todo
      BY <1>18, <2>3 DEF Wait
    <3> QED
      BY <1>4, <1>5, <1>16, <2>1, <2>3, <3>1 DEF Ending
  <2>4. CASE ~StillPending /\ pc = "wait"
    <3>1. pc' = "delayed" /\ todo' = i_maps
      BY <1>18, <2>4 DEF Wait
    <3>2. pending_requests = 0
      BY <1>1, <2>4 DEF StillPending, TypeOK
    <3>3. todo = {}
      BY <2>4 DEF LoopDone
    <3> QED
      BY <1>15, <2>1, <2>4, <3>1, <3>2, <3>3 DEF Tick!Next
  <2> QED
    BY <1>18, <2>2, <2>3, <2>4 DEF Wait
<1>19. CASE BeginDelayedUpdate
  <2>1. PICK m \in todo : /\ touched' = m /\ todo' = todo \ {m}
                          /\ pc = "delayed" /\ pc' = "delayedMap" /\ i_maps' = i_maps
    BY <1>19 DEF BeginDelayedUpdate
  <2>2. Phase = "delayed" /\ Phase' = Phase
    BY <1>4, <1>5, <2>1
  <2>3. Given = {} /\ Inside = {}
    BY <1>7, <2>1, <2>2
  <2>4. m \in Maps /\ m \in i_maps /\ Given' = Given /\ Inside' = Inside \cup {m}
    BY <1>2, <1>3, <2>1 DEF Given, Inside
  <2>5. m \in Ahead /\ Ahead' = Ahead \ {m}
    BY <2>1, <2>2, <2>4 DEF Ahead
  <2>6. Tick!Visit(m)
    BY <2>1, <2>2, <2>3, <2>4, <2>5 DEF Tick!Visit
  <2> QED
    BY <2>4, <2>6 DEF Tick!Next
<1>20. CASE EndDelayedUpdate
  <2>1. pc = "delayedMap" /\ pc' = "delayed" /\ i_maps' = i_maps /\ todo' = todo
    BY <1>20 DEF EndDelayedUpdate
  <2>2. touched \in Maps /\ touched \in Inside
    BY <1>1, <2>1, NoneAssumption DEF Inside, Control, TypeOK
  <2>3. \A w \in Workers : wpc[w] = "update" => request[w] # touched
    BY DEF MapInv, OneThreadPerMap, Busy, Holding
  <2>4. Given' = Given /\ Inside' = Inside \ {touched}
    BY <1>2, <2>1, <2>3 DEF Given, Inside
  <2>5. Phase' = Phase /\ Ahead' = Ahead
    BY <1>4, <1>5, <2>1 DEF Ahead
  <2>6. Tick!EndUpdate(touched)
    BY <2>1, <2>2, <2>4, <2>5 DEF Tick!EndUpdate
  <2> QED
    BY <2>2, <2>6 DEF Tick!Next
<1>21. ASSUME pc' = "idle" \/ pc = "idle", todo = {} \/ pc = "idle", pc \in {"idle", "delayed"}, i_maps' = i_maps,
              pc' \in {"idle", "unload"}, pc # pc'
       PROVE  Tick!EndTick \/ Tick!Stop
  <2>1. Given = {} /\ Inside = {} /\ Given' = Given /\ Inside' = Inside
    BY <1>4, <1>6, <1>7, <1>21
  <2>2. Ahead = {} /\ Ahead' = {}
    BY <1>4, <1>5, <1>21 DEF Ahead
  <2> QED
    BY <1>4, <1>5, <1>21, <2>1, <2>2 DEF Tick!EndTick, Tick!Stop
<1>22. CASE EndTick
  BY <1>21, <1>22 DEF EndTick, Tick!Next
<1>23. CASE BeginUnloadAll
  BY <1>21, <1>23 DEF BeginUnloadAll, Tick!Next
<1>24. CASE UnloadMaps
  <2>1. pc = "unload" /\ pc' \in {"unload", "delete"} /\ i_maps' = i_maps
    BY <1>24 DEF UnloadMaps
  <2> QED
    BY <1>4, <1>5, <1>16, <2>1
<1>25. CASE DeleteMaps /\ todo # {}
  <2>1. pc = "delete" /\ pc' = pc /\ i_maps' = i_maps
    BY <1>25 DEF DeleteMaps
  <2> QED
    BY <1>4, <1>5, <1>16, <2>1
<1>26. CASE DeleteMaps /\ todo = {}
  <2>1. pc = "delete" /\ pc' \in {"deactivate", "stopped"} /\ i_maps' = {}
    BY <1>26 DEF DeleteMaps
  <2>2. Phase = "stopping" /\ Phase' = Phase
    BY <1>4, <1>5, <2>1 DEF Ending
  <2>3. Given = {} /\ Inside = {} /\ Given' = Given /\ Inside' = Inside
    BY <1>6, <1>7, <2>1, <2>2
  <2>4. Ahead' = Ahead
    BY <2>2 DEF Ahead
  <2> QED
    BY <2>1, <2>2, <2>3, <2>4 DEF Tick!DeleteMaps, Tick!Next
<1>27. CASE Deactivate
  BY <1>4, <1>5, <1>16, <1>27 DEF Deactivate, Ending
<1>28. CASE Join
  BY <1>4, <1>5, <1>16, <1>28 DEF Join, Ending, updaterVars
<1>29. CASE PushRequest
  <2>1. queue' = Append(queue, touched) /\ touched \in Maps
    BY <1>1, <1>29, NoneAssumption DEF PushRequest, Control, TypeOK
  <2> QED
    BY <1>1, <2>1 DEF TypeOK
<1>30. CASE Cancel
  BY <1>4, <1>5, <1>16, <1>30 DEF Cancel, Ending
<1> QED
  BY <1>8, <1>9, <1>10, <1>11, <1>12, <1>13, <1>14, <1>17, <1>18, <1>19, <1>20, <1>22, <1>23, <1>24, <1>25, <1>26, <1>27, <1>28, <1>29, <1>30 DEF World

\* Every step is a step of a tick, or none.
LEMMA Simulates ==
    ASSUME CountInv, MapInv, LoopDone, CountInv', [Next]_vars
    PROVE  Tick!Next \/ UNCHANGED Tick!vars
<1>1. TypeOK /\ Control /\ Requests /\ Barrier /\ pc \in WorldPcs /\ queue \in Seq(Maps)
  BY Drained DEF CountInv, TypeOK
<1>2. Phase = "updates" <=> pc \in {"loop", "destroy", "push", "inline", "wait", "blocked"}
  BY <1>1, PhaseIs DEF Phase
<1>3. ASSUME UNCHANGED <<i_maps, pc, todo, touched>> PROVE UNCHANGED <<i_maps, Phase, Ahead>>
  BY <1>3 DEF Phase, Ahead
<1>4. CASE World /\ ~PushRequest /\ ~Cancel
  <2>1. UNCHANGED workerVars /\ queue' = queue
    BY <1>4 DEF World, CreateMap, BeginTick, BeginDestroyMap, EndDestroyMap, ScheduleUpdate,
          BeginInlineUpdate, EndInlineUpdate, EndLoop, Wait, BeginDelayedUpdate, EndDelayedUpdate,
          EndTick, BeginUnloadAll, UnloadMaps, DeleteMaps, Deactivate, Join, updaterVars, workerVars
  <2> QED
    BY <1>4, <2>1, WorldSimulates
<1>5. CASE PushRequest
  <2>1. /\ pc = "push" /\ pc' = "loop" /\ UNCHANGED <<i_maps, todo, request>>
        /\ queue' = Append(queue, touched)
        /\ \A w \in Workers : wpc'[w] \in {"test", "update"} => wpc'[w] = wpc[w]
        /\ \A w \in Workers : wpc[w] \in {"test", "update"} => wpc'[w] = wpc[w]
    BY <1>1, <1>5 DEF PushRequest, NotifyOne, TypeOK
  <2>2. touched \in Maps
    BY <1>1, <2>1, NoneAssumption DEF Control, TypeOK
  <2>3. Inside' = Inside
    BY <2>1 DEF Inside
  <2>4. /\ DOMAIN queue' = 1..(Len(queue) + 1)
        /\ DOMAIN queue = 1..Len(queue)
        /\ queue'[Len(queue) + 1] = touched
        /\ Len(queue) + 1 \in DOMAIN queue'
        /\ \A i \in DOMAIN queue : queue'[i] = queue[i] /\ i \in DOMAIN queue'
    BY <1>1, <2>1, <2>2
  <2>5. ASSUME NEW m \in Maps
        PROVE  (\E i \in DOMAIN queue' : queue'[i] = m) <=> m = touched \/ \E i \in DOMAIN queue : queue[i] = m
    BY <1>1, <2>4
  <2>6. Given' = Given
    BY <2>1, <2>5 DEF Given
  <2>7. Phase' = Phase /\ Ahead' = Ahead
    BY <1>2, <2>1, PhaseIs DEF Phase, Ahead, WorldPcs
  <2> QED
    BY <2>1, <2>3, <2>6, <2>7 DEF Tick!vars
<1>6. CASE Cancel
  <2>1. /\ pc = "cancel" /\ pc' = "join" /\ UNCHANGED <<i_maps, todo, touched, request>> /\ queue' = <<>>
        /\ \A w \in Workers : wpc'[w] \in {"test", "update"} => wpc'[w] = wpc[w]
        /\ \A w \in Workers : wpc[w] \in {"test", "update"} => wpc'[w] = wpc[w]
    BY <1>1, <1>6 DEF Cancel, NotifyAll, TypeOK
  <2>2. queue' = queue
    BY <1>1, <2>1 DEF Barrier, WorldOwnsMaps
  <2>3. Given' = Given /\ Inside' = Inside
    BY <2>1, <2>2 DEF Given, Inside
  <2>4. Phase' = Phase /\ Ahead' = Ahead
    BY <2>1, PhaseIs DEF Phase, Ahead, WorldPcs, Ending, PhaseOf
  <2> QED
    BY <2>1, <2>3, <2>4 DEF Tick!vars
<1>7. CASE SpuriousWakeup
  <2>1. /\ \/ pc = "blocked" /\ pc' = "wait"
           \/ pc = "lastBlocked" /\ pc' = "lastWait"
        /\ UNCHANGED <<i_maps, todo, touched, queue, wpc, request>>
    BY <1>7 DEF SpuriousWakeup, updaterVars, workerVars
  <2>2. Given' = Given /\ Inside' = Inside
    BY <2>1 DEF Given, Inside
  <2>3. Phase' = Phase /\ Ahead' = Ahead
    BY <2>1 DEF Phase, Ahead, PhaseOf
  <2> QED
    BY <2>1, <2>2, <2>3 DEF Tick!vars
<1>8. CASE UNCHANGED vars
  <2>1. UNCHANGED <<i_maps, pc, todo, touched, queue, wpc, request>>
    BY <1>8 DEF vars, updaterVars, worldVars, workerVars
  <2> QED
    BY <1>3, <2>1 DEF Tick!vars, Given, Inside
<1>9. ASSUME NEW w \in Workers, WaitAndPop(w), queue # <<>>, ~shutdown
      PROVE  UNCHANGED Tick!vars
  <2>1. /\ queue' = Tail(queue) /\ Len(queue) > 0 /\ Head(queue) = queue[1] /\ Head(queue) \in Maps
        /\ wpc[w] = "pop" /\ wpc' = [wpc EXCEPT ![w] = "test"]
        /\ request' = [request EXCEPT ![w] = Head(queue)]
        /\ UNCHANGED <<i_maps, pc, todo, touched>>
    BY <1>1, <1>9 DEF WaitAndPop, worldVars
  <2>2. /\ \A i \in DOMAIN queue' : queue'[i] = queue[i + 1] /\ i + 1 \in DOMAIN queue
        /\ \A i \in DOMAIN queue : i # 1 => i - 1 \in DOMAIN queue' /\ queue'[i - 1] = queue[i]
        /\ 1 \in DOMAIN queue
    BY <1>1, <2>1
  <2>3. /\ wpc'[w] = "test" /\ request'[w] = queue[1]
        /\ \A v \in Workers \ {w} : wpc'[v] = wpc[v] /\ request'[v] = request[v]
    BY <1>1, <2>1 DEF TypeOK
  <2>4. Inside' = Inside
    BY <2>1, <2>3 DEF Inside
  <2>5. ASSUME NEW m \in Maps
        PROVE  (\E i \in DOMAIN queue : queue[i] = m) <=> m = queue[1] \/ \E i \in DOMAIN queue' : queue'[i] = m
    BY <2>2
  <2>6. Given' = Given
    BY <2>1, <2>3, <2>5 DEF Given
  <2> QED
    BY <1>3, <2>1, <2>4, <2>6 DEF Tick!vars
<1>10. ASSUME NEW w \in Workers, TestToken(w), ~cancelationToken
       PROVE  Tick!Next
  <2>1. /\ wpc[w] = "test" /\ wpc' = [wpc EXCEPT ![w] = "update"] /\ UNCHANGED <<queue, request, pc, touched, todo, i_maps>>
    BY <1>10 DEF TestToken, updaterVars, worldVars
  <2>2. PICK m : m = request[w]
    OBVIOUS
  <2>3. m \in Maps /\ w \in Busy
    BY <1>1, <1>10, <2>1, <2>2, NoneAssumption DEF Requests, TypeOK, Busy, Holding
  <2>4. m \in i_maps /\ m # touched /\ \A i \in DOMAIN queue : queue[i] # m
    BY <2>2, <2>3 DEF MapInv, InFlight, OneThreadPerMap
  <2>5. \A v \in Workers \ {w} : wpc[v] \in {"test", "update"} => request[v] # m
    BY <2>2, <2>3, NoneAssumption DEF MapInv, OneThreadPerMap, Busy, Holding
  <2>6. wpc'[w] = "update" /\ \A v \in Workers \ {w} : wpc'[v] = wpc[v]
    BY <1>1, <2>1 DEF TypeOK
  <2>7. m \in Given /\ Given' = Given \ {m}
    BY <2>1, <2>2, <2>3, <2>4, <2>5, <2>6 DEF Given
  <2>8. m \notin Inside /\ Inside' = Inside \cup {m}
    BY <2>1, <2>2, <2>3, <2>4, <2>5, <2>6 DEF Inside
  <2>9. Phase = "updates"
    BY <1>1, <1>2, <2>3 DEF Barrier, WorldOwnsMaps, WorldPcs
  <2>10. Tick!BeginUpdate(m)
    BY <1>3, <2>1, <2>4, <2>7, <2>8, <2>9 DEF Tick!BeginUpdate
  <2> QED
    BY <2>3, <2>10 DEF Tick!Next
<1>11. ASSUME NEW w \in Workers, EndUpdate(w)
       PROVE  Tick!Next
  <2>1. wpc[w] = "update" /\ wpc' = [wpc EXCEPT ![w] = "finish"] /\ UNCHANGED <<queue, request, pc, touched, todo, i_maps>>
    BY <1>11 DEF EndUpdate, updaterVars, worldVars
  <2>2. PICK m : m = request[w]
    OBVIOUS
  <2>3. m \in Maps /\ w \in Busy
    BY <1>1, <2>1, <2>2, NoneAssumption DEF Requests, TypeOK, Busy, Holding
  <2>4. m # touched
    BY <2>2, <2>3 DEF MapInv, OneThreadPerMap
  <2>5. \A v \in Workers \ {w} : wpc[v] = "update" => request[v] # m
    BY <2>2, <2>3 DEF MapInv, OneThreadPerMap, Busy, Holding
  <2>6. wpc'[w] = "finish" /\ \A v \in Workers \ {w} : wpc'[v] = wpc[v]
    BY <1>1, <2>1 DEF TypeOK
  <2>7. Given' = Given
    BY <2>1, <2>6 DEF Given
  <2>8. m \in Inside /\ Inside' = Inside \ {m}
    BY <2>1, <2>2, <2>3, <2>4, <2>5, <2>6 DEF Inside
  <2>9. Tick!EndUpdate(m)
    BY <1>3, <2>1, <2>7, <2>8 DEF Tick!EndUpdate
  <2> QED
    BY <2>3, <2>9 DEF Tick!Next
<1>12. ASSUME NEW w \in Workers, UpdateFinished(w)
       PROVE  UNCHANGED Tick!vars
  <2>1. /\ wpc[w] = "finish" /\ wpc' = [wpc EXCEPT ![w] = "free"] /\ UNCHANGED <<queue, request, touched, todo, i_maps>>
        /\ w \in Busy
    BY <1>12 DEF UpdateFinished, Busy, Holding
  <2>2. pc' = pc \/ (pc = "blocked" /\ pc' = "wait")
    BY <1>1, <1>12, <2>1 DEF UpdateFinished, NotifyWorld, Barrier, WorldOwnsMaps
  <2>3. wpc'[w] = "free" /\ \A v \in Workers \ {w} : wpc'[v] = wpc[v]
    BY <1>1, <2>1 DEF TypeOK
  <2>4. Given' = Given /\ Inside' = Inside
    BY <2>1, <2>2, <2>3 DEF Given, Inside
  <2>5. Phase' = Phase /\ Ahead' = Ahead
    BY <2>1, <2>2 DEF Phase, Ahead, PhaseOf
  <2> QED
    BY <2>1, <2>4, <2>5 DEF Tick!vars
<1>13. ASSUME NEW w \in Workers, \/ WaitAndPop(w) /\ (queue = <<>> \/ shutdown)
                                 \/ TestToken(w) /\ cancelationToken
                                 \/ FreeRequest(w) \/ WorkerSpuriousWakeup(w)
       PROVE  UNCHANGED Tick!vars
  <2>1. /\ UNCHANGED <<queue, pc, touched, todo, i_maps>>
        /\ \A v \in Workers \ {w} : wpc'[v] = wpc[v] /\ request'[v] = request[v]
    BY <1>1, <1>13 DEF WaitAndPop, TestToken, FreeRequest, WorkerSpuriousWakeup, worldVars, updaterVars, TypeOK
  <2>2. wpc[w] # "update" /\ wpc'[w] # "update" /\ (wpc'[w] = "test" => request'[w] = None)
    BY <1>1, <1>13 DEF WaitAndPop, TestToken, FreeRequest, WorkerSpuriousWakeup, TypeOK, Requests
  <2>3. wpc[w] = "test" => request[w] = None
    <3>1. cancelationToken => w \notin Busy
      BY <1>1 DEF Control, Barrier, WorldOwnsMaps, Ending
    <3> QED
      BY <1>13, <3>1 DEF WaitAndPop, TestToken, FreeRequest, WorkerSpuriousWakeup, Busy, Holding
  <2>4. Given' = Given /\ Inside' = Inside
    BY <2>1, <2>2, <2>3, NoneAssumption DEF Given, Inside
  <2> QED
    BY <1>3, <2>1, <2>4 DEF Tick!vars
<1> QED
  BY <1>4, <1>5, <1>6, <1>7, <1>8, <1>9, <1>10, <1>11, <1>12, <1>13 DEF Next, Worker, Stopped, World

\* The updater and its workers implement the tick, for any maps and workers.
THEOREM ImplementsTick == Spec => ImplementsMapTick
<1>1. Init => Tick!Init
  BY PhaseIs, NoneAssumption DEF Init, Tick!Init, Phase, PhaseOf, Ahead, Given, Inside
<1>2. Init => LoopDone
  BY DEF Init, LoopDone
<1>3. /\ CountInv /\ MapInv /\ LoopDone /\ CountInv' /\ [Next]_vars => [Tick!Next]_Tick!vars
  BY Simulates
<1> QED
  BY <1>1, <1>2, <1>3, LoopDoneStep, MapInvariant, PTL DEF Spec, ImplementsMapTick, Tick!Spec

===============================================================================
