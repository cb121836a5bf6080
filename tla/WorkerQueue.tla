---------------------------- MODULE WorkerQueue ----------------------------
(***************************************************************************)
(* The lock-free request queue between one tcp.input thread, which pushes, *)
(* and one svr.worker thread, which processes (gr_worker.c), with the      *)
(* event the worker sleeps on when it has nothing to do.                   *)
(*                                                                         *)
(* A request is named by the number of its push, so NULL, the requests and *)
(* QUEUE_ALL_DONE are integers.  The two threads interleave between any    *)
(* two accesses to memory they share; accesses to what only one of them    *)
(* touches (tail, and head once curr is set) are merged with the next      *)
(* shared one.  Memory is sequentially consistent: no reordering beyond    *)
(* the merged loads named at MayReload.                                    *)
(***************************************************************************)
EXTENDS Integers

CONSTANTS
  MaxPush,    \* bound: how many requests are pushed
  MayReload   \* worker->curr is no volatile: may the build load it a second
              \* time for the test of gr_worker.c:163?

ASSUME WorkerQueueAssumption ==
  /\ MaxPush \in Nat \ {0}
  /\ MayReload \in BOOLEAN

Request == 1..MaxPush
NULL == 0
ALL_DONE == -1
Link == Request \cup {NULL}

VARIABLES
  head, tail, curr,   \* gr_worker_item_t: list head, list tail, the cursor
  next,               \* gr_queue_item_t.next of every request
  freed,              \* requests given to worker_free_queue_item
  pushed,             \* the request being pushed, or pushed last
  pusher,             \* where the pushing thread is
  oldCurr,            \* the value of curr the push started from
  worker,             \* where the worker thread is
  item,               \* queue_item of worker_routine, NULL outside its use
  follow,             \* the local variable next of worker_queue_pop_top
  pos,                \* the request the worker took last
  procCount,          \* how often process_tcp ended (req_proc_count - 1)
  inEvent, alarms     \* gr_worker_item_t.in_event; the event's semaphore

queueVars == <<head, tail, curr, next, freed>>
pusherVars == <<pushed, pusher, oldCurr>>
workerVars == <<worker, item, follow, pos, procCount>>
eventVars == <<inEvent, alarms>>
vars == <<queueVars, pusherVars, workerVars, eventVars>>

TypeOK ==
  /\ head \in Link
  /\ tail \in Link
  /\ curr \in Link \cup {ALL_DONE}
  /\ next \in [Request -> Link]
  /\ freed \in SUBSET Request
  /\ pushed \in 0..MaxPush
  /\ pusher \in {"idle", "test", "delete", "insert", "check", "alarm", "signal"}
  /\ oldCurr \in Link \cup {ALL_DONE}
  /\ worker \in {"top", "process", "pop", "store", "wait", "asleep", "awake"}
  /\ item \in Link
  /\ follow \in Link
  /\ pos \in Link
  /\ procCount \in Nat
  /\ inEvent \in BOOLEAN
  /\ alarms \in Nat

Init ==
  /\ head = NULL /\ tail = NULL /\ curr = NULL
  /\ next = [r \in Request |-> NULL]
  /\ freed = {}
  /\ pushed = 0 /\ pusher = "idle" /\ oldCurr = NULL
  /\ worker = "top" /\ item = NULL /\ follow = NULL
  /\ pos = 0 /\ procCount = 0
  /\ inEvent = FALSE /\ alarms = 0

-----------------------------------------------------------------------------
(* worker_queue_push, run by the tcp.input thread.                         *)

PushBegin ==
  /\ pusher = "idle"
  /\ pushed < MaxPush
  /\ pushed' = pushed + 1
  /\ oldCurr' = curr
  /\ pusher' = "test"
  /\ UNCHANGED <<queueVars, workerVars, eventVars>>

\* `if ( NULL != worker->curr )`: the value just loaded, or a new load of it.
PushTest ==
  /\ pusher = "test"
  /\ \E seen \in {oldCurr} \cup (IF MayReload THEN {curr} ELSE {}) :
        pusher' = IF seen = NULL THEN "insert" ELSE "delete"
  /\ UNCHANGED <<queueVars, pushed, oldCurr, workerVars, eventVars>>

\* Seeded slip: the deletion does not stop at the cursor.
Keep_Nothing == NULL

\* The local variable curr: where the deletion stops.
Keep == IF oldCurr = ALL_DONE THEN NULL ELSE oldCurr

PushDelete ==
  /\ pusher = "delete"
  /\ head # NULL
  /\ head # Keep
  /\ freed' = freed \cup {head}
  /\ head' = next[head]
  /\ UNCHANGED <<tail, curr, next, pusherVars, workerVars, eventVars>>

\* Seeded slip: the new request is linked behind the head, not the tail.
PushInsert_BehindHead ==
  /\ \/ pusher = "insert"
     \/ pusher = "delete" /\ head \in {NULL, Keep}
  /\ head' = IF head = NULL THEN pushed ELSE head
  /\ next' = IF head = NULL THEN next ELSE [next EXCEPT ![head] = pushed]
  /\ tail' = pushed
  /\ pusher' = "check"
  /\ UNCHANGED <<curr, freed, pushed, oldCurr, workerVars, eventVars>>

PushInsert ==
  /\ \/ pusher = "insert"
     \/ pusher = "delete" /\ head \in {NULL, Keep}
  /\ IF head = NULL
     THEN /\ head' = pushed
          /\ next' = [next EXCEPT ![pushed] = NULL]
     ELSE /\ head' = head
          /\ next' = [next EXCEPT ![pushed] = NULL, ![tail] = pushed]
  /\ tail' = pushed
  /\ pusher' = "check"
  /\ UNCHANGED <<curr, freed, pushed, oldCurr, workerVars, eventVars>>

\* The worker never writes curr while it is QUEUE_ALL_DONE, so the test and
\* the assignment of lines 201-204 act as one step.
PushCheck ==
  /\ pusher = "check"
  /\ IF curr = ALL_DONE
     THEN curr' = head /\ pusher' = "alarm"
     ELSE curr' = curr /\ pusher' = "idle"
  /\ UNCHANGED <<head, tail, next, freed, pushed, oldCurr, workerVars, eventVars>>

\* alarm_event_if_need: the test of in_event ...
PushAlarm ==
  /\ pusher = "alarm"
  /\ pusher' = IF inEvent THEN "signal" ELSE "idle"
  /\ UNCHANGED <<queueVars, pushed, oldCurr, workerVars, eventVars>>

\* ... and what it does when it found the worker in its event.
PushSignal ==
  /\ pusher = "signal"
  /\ inEvent' = FALSE
  /\ alarms' = alarms + 1
  /\ pusher' = "idle"
  /\ UNCHANGED <<queueVars, pushed, oldCurr, workerVars>>

-----------------------------------------------------------------------------
(* worker_routine.                                                         *)

\* worker_queue_top_inner: the cursor moves onto the list the first time.
Cursor == IF curr = NULL THEN head ELSE curr

WorkerTop ==
  /\ worker = "top"
  /\ curr' = Cursor
  /\ IF Cursor \in Request
     THEN item' = Cursor /\ pos' = Cursor /\ worker' = "process"
     ELSE UNCHANGED <<item, pos>> /\ worker' = "wait"
  /\ UNCHANGED <<head, tail, next, freed, pusherVars, follow,
                 procCount, eventVars>>

WorkerProcess ==
  /\ worker = "process"
  /\ procCount' = procCount + 1
  /\ worker' = "pop"
  /\ UNCHANGED <<queueVars, pusherVars, item, follow, pos, eventVars>>

\* worker_queue_pop_top loads the link of the request ...
WorkerPop ==
  /\ worker = "pop"
  /\ follow' = next[curr]
  /\ worker' = "store"
  /\ UNCHANGED <<queueVars, pusherVars, item, pos, procCount, eventVars>>

\* ... and moves the cursor by what it loaded.
WorkerStore ==
  /\ worker = "store"
  /\ curr' = IF follow = NULL THEN ALL_DONE ELSE follow
  /\ item' = NULL
  /\ follow' = NULL
  /\ worker' = "top"
  /\ UNCHANGED <<head, tail, next, freed, pusherVars, pos, procCount,
                 eventVars>>

WorkerSleep ==
  /\ worker = "wait"
  /\ inEvent' = TRUE
  /\ worker' = "asleep"
  /\ UNCHANGED <<queueVars, pusherVars, item, follow, pos, procCount,
                 alarms>>

\* Seeded slip: an alarm is taken that was never given.
WorkerAlarmed_Unasked ==
  /\ worker = "asleep"
  /\ alarms' = alarms - 1
  /\ worker' = "awake"
  /\ UNCHANGED <<queueVars, pusherVars, item, follow, pos, procCount,
                 inEvent>>

\* gr_event_wait ends by an alarm or after its millisecond.
WorkerAlarmed ==
  /\ worker = "asleep"
  /\ alarms > 0
  /\ alarms' = alarms - 1
  /\ worker' = "awake"
  /\ UNCHANGED <<queueVars, pusherVars, item, follow, pos, procCount,
                 inEvent>>

\* Seeded slip: the worker waits for the alarm only.
WorkerTimeout_Never == FALSE

WorkerTimeout ==
  /\ worker = "asleep"
  /\ worker' = "awake"
  /\ UNCHANGED <<queueVars, pusherVars, item, follow, pos, procCount,
                 eventVars>>

WorkerAwake ==
  /\ worker = "awake"
  /\ inEvent' = FALSE
  /\ worker' = "top"
  /\ UNCHANGED <<queueVars, pusherVars, item, follow, pos, procCount,
                 alarms>>

-----------------------------------------------------------------------------
PushContinues ==
  PushTest \/ PushDelete \/ PushInsert \/ PushCheck \/ PushAlarm \/ PushSignal

Work ==
  \/ WorkerTop \/ WorkerProcess \/ WorkerPop \/ WorkerStore
  \/ WorkerSleep \/ WorkerAlarmed \/ WorkerTimeout \/ WorkerAwake

Next == PushBegin \/ PushContinues \/ Work

\* Both threads are scheduled; whether a client sends more is its business.
Spec == Init /\ [][Next]_vars /\ WF_vars(PushContinues) /\ WF_vars(Work)

-----------------------------------------------------------------------------
(* What holds when the two threads interleave freely, provided the build   *)
(* loads worker->curr once (MayReload = FALSE).                            *)

Holding == worker \in {"process", "pop", "store"}

\* Neither thread ever reaches a request after it was freed: not the worker
\* through the request it holds or through the cursor, not the pusher through
\* the head it deletes from or the tail it links to.  (The deletion loop of
\* gr_worker.c:163-174 runs while the worker processes; no lock protects it.)
MemorySafe ==
  /\ item \notin freed
  /\ curr \notin freed
  /\ head \notin freed
  /\ head # NULL => tail \notin freed
  /\ follow \notin freed

\* assert( curr == item ) of worker_queue_pop_top (gr_worker.c:304): whatever
\* the pusher does meanwhile, the cursor still names the request just handled.
PopFindsItsRequest == Holding => curr = item /\ item # NULL

\* The queue is what RequestStream promises of two threads: the worker jumps
\* over no request that is still in the list, and no request is freed that it
\* holds or that follows the one it holds.
Stream == INSTANCE RequestStream
            WITH Exact <- FALSE, last <- pushed, held <- item, reclaimed <- freed
StreamSpec == Stream!Spec

\* What the cursor points at is taken: a worker that went to sleep just before
\* the push is woken by the event or, if the alarm missed it, by the timeout.
PublishedIsTaken == (curr \in Request /\ ~ Holding) ~> Holding

-----------------------------------------------------------------------------
(* What the comments say and the code does not do when the pop of the last *)
(* request and the push of the next one overlap.                           *)

\* assert( conn->req_push_count >= conn->req_proc_count ) of gr_conn.c:424, which
\* docs/changelog.txt:150 reports as failing: no more requests have been
\* processed than were pushed when the next one is.
ProcessedWasPushed == worker = "process" => procCount <= pushed
=============================================================================
