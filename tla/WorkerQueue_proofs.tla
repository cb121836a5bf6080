------------------------- MODULE WorkerQueue_proofs -------------------------
(***************************************************************************)
(* Proofs about WorkerQueue for a queue of any length and, but for type    *)
(* correctness, a build that loads worker->curr once.                      *)
(***************************************************************************)
EXTENDS WorkerQueue, TLAPS

\* How many requests are linked, and the first of them that is not deleted.
Linked == IF pusher \in {"test", "delete", "insert"} THEN pushed - 1 ELSE pushed
First == IF head = NULL THEN Linked + 1 ELSE head

\* The list is the run head, head + 1, ..., Linked, and what comes before it
\* is exactly what was freed.
ListShape ==
  /\ head <= Linked
  /\ freed = 1..(First - 1)
  /\ head # NULL => tail = Linked
  /\ head = NULL => Linked = 0 \/ (pusher = "delete" /\ oldCurr = ALL_DONE)
  /\ \A r \in Request :
        r >= First => next[r] = IF r < Linked THEN r + 1 ELSE NULL

\* The cursor is in the list, and the worker holds what the cursor names.
CursorShape ==
  /\ curr \in Request => head # NULL /\ head <= curr /\ curr <= Linked
  /\ Holding => item = curr /\ item \in Request
  /\ ~ Holding => item = NULL
  /\ worker # "store" => follow = NULL
  /\ worker = "store" /\ follow # NULL => follow = curr + 1 /\ follow <= Linked

\* What the pusher remembers of the cursor is behind it.
PusherShape ==
  /\ pusher = "delete" => oldCurr # NULL
  /\ pusher = "insert" => oldCurr = NULL
  /\ pusher \in {"test", "delete"} =>
       /\ oldCurr = ALL_DONE => curr = ALL_DONE
       /\ oldCurr \in Request => /\ head # NULL
                                 /\ head <= oldCurr
                                 /\ oldCurr <= Linked
                                 /\ curr = ALL_DONE \/ oldCurr <= curr

\* No request between the one taken last and the cursor is still in the list.
PosShape ==
  /\ Holding => pos = item
  /\ curr = NULL => pos = 0 /\ freed = {}
  /\ ~ Holding /\ curr \in Request => curr <= pos + 1 \/ curr <= First

-----------------------------------------------------------------------------
(* Type correctness, with the assertion of worker_queue_pop_top: the       *)
(* cursor names the request in hand, however the build loads it.           *)

TypeInv ==
  /\ TypeOK
  /\ PopFindsItsRequest
  /\ pusher # "idle" => pushed # 0

\* Where the worker dereferences the cursor it is a request, so every variable
\* keeps its type: the next step of WorkerQueue preserves TypeInv.
LEMMA TypeInvStep == TypeInv /\ [Next]_vars => TypeInv'
<1> SUFFICES ASSUME TypeInv, [Next]_vars PROVE TypeInv'
  OBVIOUS
<1> USE WorkerQueueAssumption
    DEF TypeInv, TypeOK, PopFindsItsRequest, Holding, Request, Link, NULL, ALL_DONE
<1>1. CASE PushBegin
  BY <1>1 DEF PushBegin, queueVars, workerVars, eventVars
<1>2. CASE PushTest
  BY <1>2 DEF PushTest, queueVars, workerVars, eventVars
<1>3. CASE PushDelete
  BY <1>3 DEF PushDelete, pusherVars, workerVars, eventVars
<1>4. CASE PushInsert
  <2>1. pushed \in Request
    BY <1>4 DEF PushInsert
  <2> QED
    BY <1>4, <2>1 DEF PushInsert, workerVars, eventVars
<1>5. CASE PushCheck
  BY <1>5 DEF PushCheck, workerVars, eventVars
<1>6. CASE PushAlarm
  BY <1>6 DEF PushAlarm, queueVars, workerVars, eventVars
<1>7. CASE PushSignal
  <2>1. UNCHANGED <<queueVars, workerVars, pushed, oldCurr>> /\ pusher' = "idle"
    BY <1>7 DEF PushSignal
  <2>2. alarms' \in Nat
    BY <1>7 DEF PushSignal
  <2>3. inEvent' \in BOOLEAN
    BY <1>7, Zenon DEF PushSignal
  <2> QED
    BY <2>1, <2>2, <2>3 DEF queueVars, workerVars
<1>8. CASE WorkerTop
  BY <1>8 DEF WorkerTop, Cursor, pusherVars, eventVars
<1>9. CASE WorkerProcess
  BY <1>9 DEF WorkerProcess, queueVars, pusherVars, eventVars
<1>10. CASE WorkerPop
  BY <1>10 DEF WorkerPop, queueVars, pusherVars, eventVars
<1>11. CASE WorkerStore
  BY <1>11 DEF WorkerStore, pusherVars, eventVars
<1>12. CASE WorkerSleep
  BY <1>12 DEF WorkerSleep, queueVars, pusherVars
<1>13. CASE WorkerAlarmed
  BY <1>13 DEF WorkerAlarmed, queueVars, pusherVars
<1>14. CASE WorkerTimeout
  BY <1>14 DEF WorkerTimeout, queueVars, pusherVars, eventVars
<1>15. CASE WorkerAwake
  <2>1. UNCHANGED <<queueVars, pusherVars, item, follow, pos, procCount, alarms>>
        /\ worker' = "top"
    BY <1>15 DEF WorkerAwake
  <2>2. inEvent' \in BOOLEAN
    BY <1>15, Zenon DEF WorkerAwake
  <2> QED
    BY <2>1, <2>2 DEF queueVars, pusherVars
<1>16. CASE UNCHANGED vars
  BY <1>16 DEF vars, queueVars, pusherVars, workerVars, eventVars
<1> HIDE DEF TypeInv, TypeOK, PopFindsItsRequest, Holding, Request, Link
<1> QED
  BY <1>1, <1>2, <1>3, <1>4, <1>5, <1>6, <1>7, <1>8, <1>9, <1>10, <1>11,
     <1>12, <1>13, <1>14, <1>15, <1>16 DEF Next, PushContinues, Work

LEMMA TypeInvHolds == Spec => []TypeInv
<1>1. Init => TypeInv
  <2> SUFFICES ASSUME Init PROVE TypeInv
    OBVIOUS
  <2>1. inEvent \in BOOLEAN
    BY Zenon DEF Init
  <2> QED
    BY <2>1, WorkerQueueAssumption
       DEF Init, TypeInv, TypeOK, PopFindsItsRequest, Holding, Request, Link, NULL
<1> QED
  BY <1>1, TypeInvStep, PTL DEF Spec

\* For every length of the queue, every variable of the two threads stays in
\* its type: no thread follows a link out of the list of requests.
THEOREM TypeCorrect == Spec => []TypeOK
<1>1. TypeInv => TypeOK
  BY DEF TypeInv
<1> QED
  BY <1>1, TypeInvHolds, PTL

\* assert( curr == item ) of gr_worker.c:304 never fails, for every length of
\* the queue and however the build loads worker->curr.
THEOREM PopAssertion == Spec => []PopFindsItsRequest
<1>1. TypeInv => PopFindsItsRequest
  BY DEF TypeInv
<1> QED
  BY <1>1, TypeInvHolds, PTL

-----------------------------------------------------------------------------
(* The list, the cursor and what the pusher remembers of it, for a build   *)
(* that loads worker->curr once: a request is freed only when it is before *)
(* the cursor the push started from, and the cursor never moves back past  *)
(* that while the push runs.                                               *)

Shape == ListShape /\ CursorShape /\ PusherShape /\ PosShape

\* Every step of the two threads keeps the list in shape.
LEMMA ShapeStep ==
  ASSUME MayReload = FALSE, TypeInv, Shape, [Next]_vars
  PROVE  Shape'
<1> USE WorkerQueueAssumption
    DEF TypeInv, TypeOK, Holding, Request, Link, NULL, ALL_DONE, Shape,
        ListShape, CursorShape, PusherShape, PosShape, Linked, First
<1>1. CASE PushBegin
  <2>1. PusherShape'
    BY <1>1 DEF PushBegin, queueVars, workerVars, eventVars
  <2> QED
    BY <2>1, <1>1 DEF PushBegin, queueVars, workerVars, eventVars
<1>2. CASE PushTest
  <2>1. PusherShape'
    BY <1>2 DEF PushTest, queueVars, workerVars, eventVars
  <2> QED
    BY <2>1, <1>2 DEF PushTest, queueVars, workerVars, eventVars
<1>3. CASE PushDelete
  <2>1. /\ head \in Request /\ First = head /\ head <= Linked
        /\ head' = IF head < Linked THEN head + 1 ELSE NULL
        /\ freed' = freed \cup {head}
        /\ Linked' = Linked
    BY <1>3 DEF PushDelete, pusherVars
  <2>2. /\ oldCurr \in Request => head < oldCurr /\ oldCurr <= Linked
        /\ oldCurr = ALL_DONE => curr = ALL_DONE
        /\ oldCurr \in Request \cup {ALL_DONE}
    BY <1>3 DEF PushDelete, Keep
  <2>3. UNCHANGED <<tail, curr, next, pusherVars, workerVars>> /\ pusher = "delete"
    BY <1>3 DEF PushDelete
  <2>4. First' = head + 1
    BY <2>1
  <2>5. ListShape'
    BY <2>1, <2>2, <2>3, <2>4 DEF pusherVars
  <2>6. CursorShape'
    BY <2>1, <2>2, <2>3 DEF pusherVars, workerVars
  <2>7. PusherShape'
    BY <2>1, <2>2, <2>3 DEF pusherVars
  <2>8. PosShape'
    BY <2>1, <2>2, <2>3, <2>4 DEF pusherVars, workerVars
  <2> QED
    BY <2>5, <2>6, <2>7, <2>8
<1>4. CASE PushInsert
  <2>1. ListShape'
    BY <1>4 DEF PushInsert, workerVars, eventVars
  <2>2. CursorShape'
    BY <1>4 DEF PushInsert, workerVars, eventVars
  <2> QED
    BY <2>1, <2>2, <1>4 DEF PushInsert, workerVars, eventVars
<1>5. CASE PushCheck
  <2>1. CursorShape'
    BY <1>5 DEF PushCheck, workerVars, eventVars
  <2>2. PosShape'
    BY <1>5 DEF PushCheck, workerVars, eventVars
  <2> QED
    BY <2>1, <2>2, <1>5 DEF PushCheck, workerVars, eventVars
<1>6. CASE PushAlarm
  BY <1>6 DEF PushAlarm, queueVars, workerVars, eventVars
<1>7. CASE PushSignal
  BY <1>7 DEF PushSignal, queueVars, workerVars
<1>8. CASE WorkerTop
  <2>1. CursorShape'
    BY <1>8 DEF WorkerTop, Cursor, pusherVars, eventVars
  <2>2. PusherShape'
    BY <1>8 DEF WorkerTop, Cursor, pusherVars, eventVars
  <2>3. PosShape'
    BY <1>8 DEF WorkerTop, Cursor, pusherVars, eventVars
  <2> QED
    BY <2>1, <2>2, <2>3, <1>8 DEF WorkerTop, Cursor, pusherVars, eventVars
<1>9. CASE WorkerProcess
  BY <1>9 DEF WorkerProcess, queueVars, pusherVars, eventVars
<1>10. CASE WorkerPop
  <2>1. CursorShape'
    BY <1>10 DEF WorkerPop, queueVars, pusherVars, eventVars
  <2> QED
    BY <2>1, <1>10 DEF WorkerPop, queueVars, pusherVars, eventVars
<1>11. CASE WorkerStore
  <2>1. CursorShape'
    BY <1>11 DEF WorkerStore, pusherVars, eventVars
  <2>2. PusherShape'
    BY <1>11 DEF WorkerStore, pusherVars, eventVars
  <2>3. PosShape'
    BY <1>11 DEF WorkerStore, pusherVars, eventVars
  <2> QED
    BY <2>1, <2>2, <2>3, <1>11 DEF WorkerStore, pusherVars, eventVars
<1>12. CASE WorkerSleep
  BY <1>12 DEF WorkerSleep, queueVars, pusherVars
<1>13. CASE WorkerAlarmed
  BY <1>13 DEF WorkerAlarmed, queueVars, pusherVars
<1>14. CASE WorkerTimeout
  BY <1>14 DEF WorkerTimeout, queueVars, pusherVars, eventVars
<1>15. CASE WorkerAwake
  BY <1>15 DEF WorkerAwake, queueVars, pusherVars
<1>16. CASE UNCHANGED vars
  BY <1>16 DEF vars, queueVars, pusherVars, workerVars, eventVars
<1> QED
  BY <1>1, <1>2, <1>3, <1>4, <1>5, <1>6, <1>7, <1>8, <1>9, <1>10, <1>11,
     <1>12, <1>13, <1>14, <1>15, <1>16 DEF Next, PushContinues, Work

\* The inductive invariant holds of every behaviour of such a build.
LEMMA Invariant ==
  ASSUME MayReload = FALSE
  PROVE  Spec => [](TypeInv /\ Shape)
<1>1. Init => Shape
  BY WorkerQueueAssumption
     DEF Init, Shape, ListShape, CursorShape, PusherShape, PosShape, Linked,
         First, Holding, Request, NULL, ALL_DONE
<1>2. TypeInv /\ Shape /\ [Next]_vars => Shape'
  BY ShapeStep
<1> QED
  BY <1>1, <1>2, TypeInvHolds, PTL DEF Spec

\* Neither thread reaches freed memory: the cursor, the worker's request, the
\* head and the tail of a list of any length are not freed requests, although
\* the deletion of gr_worker.c:163-174 runs beside the worker without a lock.
THEOREM NoUseAfterFree ==
  ASSUME MayReload = FALSE
  PROVE  Spec => []MemorySafe
<1>1. TypeInv /\ Shape => MemorySafe
  BY WorkerQueueAssumption
     DEF TypeInv, TypeOK, Shape, ListShape, CursorShape, Linked, First,
         MemorySafe, Holding, Request, Link, NULL, ALL_DONE
<1> QED
  BY <1>1, Invariant, PTL

-----------------------------------------------------------------------------
(* The queue implements the stream: PushBegin hands in, WorkerTop takes,   *)
(* WorkerStore finishes, PushDelete reclaims, and every other step is      *)
(* invisible.                                                              *)

LEMMA StreamStep ==
  ASSUME TypeInv, Shape, [Next]_vars
  PROVE  [Stream!Next]_Stream!vars
<1> USE WorkerQueueAssumption
    DEF TypeInv, TypeOK, Holding, Request, Link, NULL, ALL_DONE, Shape,
        ListShape, CursorShape, PusherShape, PosShape, Linked, First
<1>1. CASE PushBegin
  <2>1. Stream!HandIn
    BY <1>1 DEF PushBegin, queueVars, workerVars, Stream!HandIn
  <2> QED
    BY <2>1 DEF Stream!Next
<1>2. CASE PushDelete
  <2>1. head \in 1..pushed /\ Stream!Reclaim(head)
    BY <1>2 DEF PushDelete, Keep, pusherVars, workerVars, Stream!Reclaim
  <2> QED
    BY <2>1 DEF Stream!Next
<1>3. CASE WorkerTop
  <2>1. CASE Cursor \in Request
    <3>1. Cursor \in 1..pushed /\ Cursor \notin freed
      BY <1>3, <2>1 DEF WorkerTop, Cursor
    <3>2. (pos + 1)..(Cursor - 1) \subseteq freed
      BY <1>3, <2>1 DEF WorkerTop, Cursor
    <3>3. item = 0 /\ item' = Cursor /\ pos' = Cursor /\ UNCHANGED <<pushed, freed>>
      BY <1>3, <2>1 DEF WorkerTop, pusherVars
    <3>4. Stream!Take(Cursor)
      BY <3>1, <3>2, <3>3 DEF Stream!Take
    <3> QED
      BY <3>1, <3>4 DEF Stream!Next
  <2>2. CASE Cursor \notin Request
    BY <1>3, <2>2 DEF WorkerTop, pusherVars, Stream!vars
  <2> QED
    BY <2>1, <2>2
<1>4. CASE WorkerStore
  <2>1. Stream!Finish
    BY <1>4 DEF WorkerStore, pusherVars, Stream!Finish
  <2> QED
    BY <2>1 DEF Stream!Next
<1>5. CASE UNCHANGED <<pushed, pos, item, freed>>
  BY <1>5 DEF Stream!vars
<1>6. ASSUME \/ PushTest \/ PushInsert \/ PushCheck \/ PushAlarm \/ PushSignal
             \/ WorkerProcess \/ WorkerPop \/ WorkerSleep \/ WorkerAlarmed
             \/ WorkerTimeout \/ WorkerAwake \/ UNCHANGED vars
      PROVE  UNCHANGED <<pushed, pos, item, freed>>
  BY <1>6 DEF PushTest, PushInsert, PushCheck, PushAlarm, PushSignal,
     WorkerProcess, WorkerPop, WorkerSleep, WorkerAlarmed, WorkerTimeout,
     WorkerAwake, vars, queueVars, pusherVars, workerVars
<1> QED
  BY <1>1, <1>2, <1>3, <1>4, <1>5, <1>6 DEF Next, PushContinues, Work

\* The worker never jumps over a request that is still in the list and never
\* holds one that is freed: the pointers of gr_worker.c implement the stream
\* of requests, whatever the length of the queue.
THEOREM Refinement ==
  ASSUME MayReload = FALSE
  PROVE  Spec => StreamSpec
<1>1. Init => Stream!Init
  BY DEF Init, Stream!Init, NULL
<1>2. TypeInv /\ Shape /\ [Next]_vars => [Stream!Next]_Stream!vars
  BY StreamStep
<1> QED
  BY <1>1, <1>2, Invariant, PTL DEF Spec, StreamSpec, Stream!Spec
=============================================================================
