---------------------------- MODULE ThreadedClose ----------------------------
(***************************************************************************)
(* The end of one connection of the threaded server.  Three threads use it *)
(* without a lock: tcp.input receives (on_tcp_recv), a worker processes    *)
(* (process_tcp) and tcp.output sends (on_tcp_send).  Whoever finds that   *)
(* it has to be closed tells tcp.output, by registering its socket for     *)
(* EPOLLOUT, and tcp.output frees it when the flags and counters say that  *)
(* the other two are done (gr_tcp_close_from_in, _from_worker, _from_out). *)
(*                                                                         *)
(* The threads interleave between any two accesses to what they share;     *)
(* reads of values that can only move one way are merged with the next     *)
(* access.  The list of replies is what ReplyList shows it to be, here     *)
(* only whether it has items and how many wait.  The request counts stay   *)
(* below GR_REQ_PUSH_COUNT_HI_WALTER.                                      *)
(***************************************************************************)
EXTENDS Integers

CONSTANTS
  MaxReq,      \* bound: how many requests the client sends
  SplitFlags   \* are writes to the bit fields of gr_conn.h:249-255 a load and a store?

ASSUME CloseAssumption == MaxReq \in Nat \ {0} /\ SplitFlags \in BOOLEAN

VARIABLES
  closeType, netError,  \* gr_tcp_conn_item_t.close_type, .is_network_error
  flags,                \* tcp_in_open, tcp_out_open, worker_open, as a set
  locked,               \* worker_locked
  pushCount, procCount, \* req_push_count, req_proc_count
  queue,                \* requests of the connection in the worker's queue
  listed, waiting,      \* is rsp_list_head set, and how many replies are unsent
  freed,                \* gr_tcp_conn_free has run
  input, worker, output, \* where the threads are
  seen,                 \* the byte of the flags as each thread has loaded it
  tells,                \* will the worker call gr_tcp_close_from_worker, or did it see no reason?
  inArmed, inEvent,     \* the socket in tcp.input's epoll, and an event there
  outArmed, outEvent,   \* the same of tcp.output: absent, registered for nothing, for EPOLLOUT
  sent, unread,         \* requests the client sent, and those still in the socket
  stream,               \* what the client did to the connection
  socketError,          \* an error the socket has to report
  slips                 \* what the threads missed of each other (a history variable)

shared     == <<closeType, netError, flags, locked, pushCount, procCount, queue>>
listVars  == <<listed, waiting>>
inputVars  == <<input, inArmed, inEvent>>
workerVars == <<worker, tells>>
outputVars == <<output, outArmed, outEvent>>
clientVars == <<sent, unread, stream>>
vars == <<shared, listVars, inputVars, workerVars, outputVars, clientVars, socketError,
          freed, seen, slips>>

Flag == {"in", "out", "worker"}
Thread == {"input", "worker", "output"}

TypeOK ==
  /\ closeType \in {"OPENING", "NEED_CLOSE"} /\ netError \in BOOLEAN
  /\ flags \subseteq Flag /\ locked \in BOOLEAN
  /\ pushCount \in 1 .. MaxReq + 1 /\ procCount \in 1 .. MaxReq + 1 /\ queue \in 0 .. MaxReq
  /\ listed \in BOOLEAN /\ waiting \in 0 .. MaxReq /\ freed \in BOOLEAN
  /\ input \in {"wait", "recv", "open1", "set1", "count", "open2", "set2", "queue",
                "del", "load", "busy", "store", "leave", "left", "notify", "gone"}
  /\ worker \in {"wait", "module", "send", "check", "add", "open", "set", "arm",
                 "pop", "last", "done", "notify"}
  /\ output \in {"wait", "send", "clear", "after", "error", "drop", "close", "del",
                 "load", "busy", "store", "leave", "left", "decide", "free"}
  /\ seen \in [Thread -> SUBSET Flag] /\ tells \in {"open", "no", "yes"}
  /\ inArmed \in BOOLEAN /\ inEvent \in BOOLEAN
  /\ outArmed \in {"absent", "nothing", "out"} /\ outEvent \in BOOLEAN
  /\ sent \in 0 .. MaxReq /\ unread \in 0 .. MaxReq
  /\ stream \in {"open", "fin", "reset"}
  /\ socketError \in BOOLEAN
  /\ slips \subseteq {"overtaken", "lost", "untold", "unheard"}

\* gr_tcp_conn_alloc and gr_tcp_in_add_conn
Init ==
  /\ closeType = "OPENING" /\ netError = FALSE /\ flags = {"in"} /\ locked = FALSE
  /\ pushCount = 1 /\ procCount = 1 /\ queue = 0
  /\ listed = FALSE /\ waiting = 0 /\ freed = FALSE
  /\ input = "wait" /\ worker = "wait" /\ output = "wait"
  /\ seen = [t \in Thread |-> {}] /\ tells = "no"
  /\ inArmed = TRUE /\ inEvent = FALSE /\ outArmed = "absent" /\ outEvent = FALSE
  /\ sent = 0 /\ unread = 0 /\ stream = "open"
  /\ socketError = FALSE
  /\ slips = {}

-----------------------------------------------------------------------------
(* The client and its socket                                               *)

ClientSends ==
  /\ ~ freed /\ stream = "open" /\ sent < MaxReq
  /\ sent' = sent + 1 /\ unread' = unread + 1
  /\ inEvent' = inArmed
  /\ UNCHANGED <<shared, listVars, input, inArmed, workerVars, outputVars, stream,
                 socketError, freed, seen, slips>>

\* Both epolls are woken; what is reported is looked up when they are asked.
ClientEnds ==
  /\ ~ freed
  /\ \/ stream = "open" /\ stream' = "fin" /\ UNCHANGED socketError
     \/ stream # "reset" /\ stream' = "reset" /\ socketError' = TRUE
  /\ inEvent' = inArmed
  /\ outEvent' = (outArmed # "absent")
  /\ UNCHANGED <<shared, listVars, input, inArmed, workerVars, output, outArmed, sent,
                 unread, freed, seen, slips>>

\* EPOLL_CTL_MOD, or ADD, of tcp.output's epoll: gr_poll_add_tcp_send_fd
Arm ==
  IF freed THEN UNCHANGED <<outArmed, outEvent>>
           ELSE outArmed' = "out" /\ outEvent' = TRUE

\* del_tcp_send_fd: an error of the socket is reported all the same.
Disarm ==
  IF outArmed = "absent" THEN UNCHANGED <<outArmed, outEvent>>
                         ELSE outArmed' = "nothing" /\ outEvent' = socketError

-----------------------------------------------------------------------------
(* The byte of the flags                                                   *)

\* The byte as it is loaded for a test that leads to a write.
Load(t, writes) == seen' = [seen EXCEPT ![t] = IF writes /\ SplitFlags THEN flags ELSE {}]

Loaded(t) == IF SplitFlags THEN seen[t] ELSE flags

\* The store that ends the write: what others stored since the load is undone.
Store(t, new) ==
  /\ flags' = new
  /\ slips' = slips \cup (IF Loaded(t) = flags THEN {} ELSE {"lost"})
  /\ seen' = [seen EXCEPT ![t] = {}]

\* is_worker_busy
IsWorkerBusy == pushCount > procCount \/ locked

-----------------------------------------------------------------------------
(* tcp.input: on_tcp_recv, gr_worker_add_tcp, gr_tcp_close_from_in         *)

AtInput(here, there) == input = here /\ input' = there

OtherThanInput == <<listVars, workerVars, outputVars, freed>>

\* epoll_wait reports what is there to read, or nothing.
InputWakes ==
  /\ inArmed /\ inEvent
  /\ IF unread = 0 /\ stream = "open"                   THEN AtInput("wait", "wait")
     ELSE IF netError \/ closeType = "NEED_CLOSE" THEN AtInput("wait", "del")
     ELSE AtInput("wait", "recv")
  /\ inEvent' = FALSE
  /\ UNCHANGED <<shared, inArmed, OtherThanInput, clientVars, socketError, seen, slips>>

\* gr_poll_recv takes what there is, the end of the stream included; then the module may
\* find an error, a request that is not complete, or one that is.
InputReceives ==
  /\ \E next \in IF unread = 0 THEN {"del"} ELSE {"del", "wait", "open1"} :
       AtInput("recv", next)
  /\ unread' = 0
  /\ closeType' = IF stream = "open" THEN closeType ELSE "NEED_CLOSE"
  /\ netError' = (netError \/ stream # "open")
  /\ socketError' = FALSE
  /\ UNCHANGED <<flags, locked, pushCount, procCount, queue, inArmed, inEvent, OtherThanInput,
                 sent, stream, seen, slips>>

\* worker_hash, and again gr_worker_add: worker_open is set unless it is.
InputOpens ==
  /\ IF "worker" \in flags
       THEN AtInput("open1", "count") \/ AtInput("open2", "queue")
       ELSE AtInput("open1", "set1") \/ AtInput("open2", "set2")
  /\ Load("input", "worker" \notin flags)
  /\ UNCHANGED <<shared, inArmed, inEvent, OtherThanInput, clientVars, socketError, slips>>

InputSetsOpen ==
  /\ AtInput("set1", "count") \/ AtInput("set2", "queue")
  /\ Store("input", Loaded("input") \cup {"worker"})
  /\ UNCHANGED <<closeType, netError, locked, pushCount, procCount, queue, inArmed, inEvent,
                 OtherThanInput, clientVars, socketError>>

\* prepare_add_tcp_req: a request object for the rest of the data may not be had.
InputCounts ==
  /\ \/ AtInput("count", "open2") /\ pushCount' = pushCount + 1
     \/ AtInput("count", "del") /\ UNCHANGED pushCount
  /\ UNCHANGED <<closeType, netError, flags, locked, procCount, queue, inArmed, inEvent,
                 OtherThanInput, clientVars, socketError, seen, slips>>

InputQueues ==
  /\ AtInput("queue", "wait")
  /\ queue' = queue + 1
  /\ UNCHANGED <<closeType, netError, flags, locked, pushCount, procCount, inArmed, inEvent,
                 OtherThanInput, clientVars, socketError, seen, slips>>

\* on_tcp_recv_error, and the mark of gr_tcp_close_from_in
InputStops ==
  /\ AtInput("del", "load")
  /\ inArmed' = FALSE /\ inEvent' = FALSE
  /\ closeType' = "NEED_CLOSE"
  /\ UNCHANGED <<netError, flags, locked, pushCount, procCount, queue, OtherThanInput,
                 clientVars, socketError, seen, slips>>

InputLoads ==
  /\ AtInput("load", IF "worker" \in flags THEN "busy" ELSE "leave")
  /\ Load("input", "worker" \in flags)
  /\ UNCHANGED <<shared, inArmed, inEvent, OtherThanInput, clientVars, socketError, slips>>

\* Seeded slip: the count of requests is not looked at.
InputLooks_LockOnly ==
  /\ AtInput("busy", IF locked THEN "leave" ELSE "store")
  /\ UNCHANGED <<shared, inArmed, inEvent, OtherThanInput, clientVars, socketError, seen, slips>>

InputLooks ==
  /\ AtInput("busy", IF IsWorkerBusy THEN "leave" ELSE "store")
  /\ UNCHANGED <<shared, inArmed, inEvent, OtherThanInput, clientVars, socketError, seen, slips>>

InputClearsWorker ==
  /\ AtInput("store", "leave")
  /\ Store("input", Loaded("input") \ {"worker"})
  /\ UNCHANGED <<closeType, netError, locked, pushCount, procCount, queue, inArmed, inEvent,
                 OtherThanInput, clientVars, socketError>>

InputLeaves ==
  /\ AtInput("leave", "left")
  /\ Load("input", TRUE)
  /\ UNCHANGED <<shared, inArmed, inEvent, OtherThanInput, clientVars, socketError, slips>>

InputClearsIn ==
  /\ AtInput("left", "notify")
  /\ Store("input", Loaded("input") \ {"in"})
  /\ UNCHANGED <<closeType, netError, locked, pushCount, procCount, queue, inArmed, inEvent,
                 OtherThanInput, clientVars, socketError>>

\* gr_tcp_out_notify_close
InputNotifies ==
  /\ AtInput("notify", "gone")
  /\ Arm
  /\ UNCHANGED <<shared, listVars, inArmed, inEvent, workerVars, output, clientVars,
                 socketError, freed, seen, slips>>

-----------------------------------------------------------------------------
(* The worker: process_tcp, gr_tcp_conn_pop_top_req                        *)

AtWorker(here, there) == worker = here /\ worker' = there

OtherThanWorker == <<inputVars, output, freed, sent, unread, stream>>

WorkerTakes ==
  /\ AtWorker("wait", "module")
  /\ queue > 0
  /\ queue' = queue - 1
  /\ locked' = TRUE
  /\ UNCHANGED <<closeType, netError, flags, pushCount, procCount, listVars, tells, outArmed,
                 outEvent, OtherThanWorker, socketError, seen, slips>>

\* The module answers or not, and may ask to close: a negative processed_len drops the
\* answer, zero keeps it.
WorkerProcesses ==
  /\ AtWorker("module", "send") \/ AtWorker("module", "pop")
  /\ closeType' \in {closeType, "NEED_CLOSE"}
  /\ UNCHANGED <<netError, flags, locked, pushCount, procCount, queue, listVars, tells,
                 outArmed, outEvent, OtherThanWorker, socketError, seen, slips>>

\* try_to_send_tcp_rsp: behind waiting replies nothing is tried; else all of it is sent,
\* or not.
WorkerSends ==
  /\ \/ listed /\ waiting > 0 /\ AtWorker("send", "check")
        /\ UNCHANGED <<closeType, netError, socketError>>
     \/ ~ (listed /\ waiting > 0) /\ stream # "reset"
        /\ \E next \in {"pop", "check"} : AtWorker("send", next)
        /\ UNCHANGED <<closeType, netError, socketError>>
     \/ ~ (listed /\ waiting > 0) /\ stream = "reset"
        /\ AtWorker("send", "pop")
        /\ netError' = TRUE /\ closeType' = "NEED_CLOSE" /\ socketError' = FALSE
  /\ UNCHANGED <<flags, locked, pushCount, procCount, queue, listVars, tells, outArmed,
                 outEvent, OtherThanWorker, seen, slips>>

\* The rest of the reply is dropped when the network failed, or when it cannot be had an
\* object for (gr_tcp_rsp_alloc), which closes the connection.
WorkerChecks ==
  /\ \/ netError /\ AtWorker("check", "pop") /\ UNCHANGED closeType
     \/ ~ netError /\ AtWorker("check", "add") /\ UNCHANGED closeType
     \/ ~ netError /\ AtWorker("check", "pop") /\ closeType' = "NEED_CLOSE"
  /\ UNCHANGED <<netError, flags, locked, pushCount, procCount, queue, listVars, tells,
                 outArmed, outEvent, OtherThanWorker, socketError, seen, slips>>

WorkerAdds ==
  /\ AtWorker("add", "open")
  /\ listed' = TRUE /\ waiting' = waiting + 1
  /\ UNCHANGED <<shared, tells, outArmed, outEvent, OtherThanWorker, socketError, seen, slips>>

\* gr_tcp_out_add
WorkerOpens ==
  /\ AtWorker("open", IF "out" \in flags THEN "arm" ELSE "set")
  /\ Load("worker", "out" \notin flags)
  /\ UNCHANGED <<shared, listVars, tells, outArmed, outEvent, OtherThanWorker, socketError,
                 slips>>

WorkerSetsOut ==
  /\ AtWorker("set", "arm")
  /\ Store("worker", Loaded("worker") \cup {"out"})
  /\ UNCHANGED <<closeType, netError, locked, pushCount, procCount, queue, listVars, tells,
                 outArmed, outEvent, OtherThanWorker, socketError>>

WorkerArms ==
  /\ AtWorker("arm", "pop")
  /\ Arm
  /\ UNCHANGED <<shared, listVars, tells, OtherThanWorker, socketError, seen, slips>>

\* gr_tcp_conn_pop_top_req: nothing to tell while the connection is open ..
WorkerPops ==
  /\ AtWorker("pop", IF closeType = "OPENING" THEN "done" ELSE "last")
  /\ tells' = IF closeType = "OPENING" THEN "open" ELSE "no"
  /\ UNCHANGED <<shared, listVars, outArmed, outEvent, OtherThanWorker, socketError, seen,
                 slips>>

\* Seeded slip: the request in hand is counted before it is done.
WorkerIsLast_OffByOne ==
  /\ AtWorker("last", "done")
  /\ tells' = IF procCount = pushCount /\ "worker" \in flags THEN "yes" ELSE "no"
  /\ UNCHANGED <<shared, listVars, outArmed, outEvent, OtherThanWorker, socketError, seen,
                 slips>>

\* .. and otherwise only the last request is told, if worker_open is still set.
WorkerIsLast ==
  /\ AtWorker("last", "done")
  /\ tells' = IF procCount + 1 = pushCount /\ "worker" \in flags THEN "yes" ELSE "no"
  /\ UNCHANGED <<shared, listVars, outArmed, outEvent, OtherThanWorker, socketError, seen,
                 slips>>

\* The count and the lock say the same to the others until both are done.  "untold":
\* the worker saw the connection open, and tcp.input has found the worker busy since.
WorkerFinishes ==
  /\ AtWorker("done", IF tells = "yes" THEN "notify" ELSE "wait")
  /\ procCount' = procCount + 1
  /\ locked' = FALSE
  /\ tells' = "no"
  /\ slips' = slips \cup
       IF tells = "open" /\ input \in {"leave", "left", "notify", "gone"}
         THEN {"untold"} ELSE {}
  /\ UNCHANGED <<closeType, netError, flags, pushCount, queue, listVars, outArmed,
                 outEvent, OtherThanWorker, socketError, seen>>

\* gr_tcp_close_from_worker
WorkerNotifies ==
  /\ AtWorker("notify", "wait")
  /\ Arm
  /\ UNCHANGED <<shared, listVars, tells, OtherThanWorker, socketError, seen, slips>>

-----------------------------------------------------------------------------
(* tcp.output: on_tcp_send, on_tcp_send_error, gr_tcp_close_from_out       *)

AtOutput(here, there) == output = here /\ output' = there

OtherThanOutput == <<inputVars, workerVars, clientVars>>

\* EPOLLOUT first; an error is reported without it too, a hang-up is not looked at.
OutputWakes ==
  /\ outEvent
  /\ IF outArmed = "out"   THEN AtOutput("wait", IF netError THEN "clear" ELSE "send")
     ELSE IF socketError   THEN AtOutput("wait", "error")
     ELSE AtOutput("wait", "wait")
  /\ outEvent' = FALSE
  /\ UNCHANGED <<shared, listVars, outArmed, OtherThanOutput, socketError, freed, seen, slips>>

\* gr_poll_send: it sends everything and gives up EPOLLOUT, or ends with an error.
\* "unheard": with it goes what tcp.output has been told since it looked at netError.
OutputSends ==
  /\ \/ /\ waiting = 0 \/ stream # "reset"
        /\ AtOutput("send", "after")
        /\ waiting' = 0
        /\ Disarm
        /\ slips' = slips \cup IF outEvent /\ netError /\ listed THEN {"unheard"} ELSE {}
        /\ UNCHANGED <<closeType, netError, socketError>>
     \/ /\ waiting > 0 /\ stream = "reset"
        /\ AtOutput("send", "drop")
        /\ netError' = TRUE /\ closeType' = "NEED_CLOSE" /\ socketError' = FALSE
        /\ outArmed' = "nothing" /\ outEvent' = FALSE
        /\ UNCHANGED <<waiting, slips>>
  /\ UNCHANGED <<flags, locked, pushCount, procCount, queue, listed, OtherThanOutput, freed,
                 seen>>

\* gr_poll_send: the socket is full, after some of the replies or none.  It stays registered
\* and there is an event as soon as the client has read.
OutputSendsSome ==
  /\ AtOutput("send", "after")
  /\ waiting > 0 /\ stream # "reset"
  /\ waiting' \in 1 .. waiting
  /\ outEvent' = TRUE
  /\ UNCHANGED <<shared, listed, outArmed, OtherThanOutput, socketError, freed, seen, slips>>

\* gr_tcp_conn_clear_rsp_list, on the way to each of the next steps
OutputClears ==
  /\ \/ AtOutput("clear", "after") \/ AtOutput("drop", "close")
     \/ AtOutput("close", "del")
  /\ listed' = FALSE /\ waiting' = 0
  /\ UNCHANGED <<shared, outArmed, outEvent, OtherThanOutput, socketError, freed, seen, slips>>

\* A list that was used is not empty until it is cleared, sent or not.
OutputLooks ==
  /\ AtOutput("after", IF closeType = "NEED_CLOSE" /\ ~ listed THEN "close" ELSE "wait")
  /\ UNCHANGED <<shared, listVars, outArmed, outEvent, OtherThanOutput, socketError, freed,
                 seen, slips>>

OutputFails ==
  /\ AtOutput("error", "drop")
  /\ netError' = TRUE /\ closeType' = "NEED_CLOSE"
  /\ UNCHANGED <<flags, locked, pushCount, procCount, queue, listVars, outArmed, outEvent,
                 OtherThanOutput, socketError, freed, seen, slips>>

\* gr_tcp_out_del_tcp_conn
OutputStops ==
  /\ AtOutput("del", "load")
  /\ Disarm
  /\ UNCHANGED <<shared, listVars, OtherThanOutput, socketError, freed, seen, slips>>

OutputLoads ==
  /\ AtOutput("load", IF "worker" \in flags THEN "busy" ELSE "leave")
  /\ Load("output", "worker" \in flags)
  /\ UNCHANGED <<shared, listVars, outArmed, outEvent, OtherThanOutput, socketError, freed,
                 slips>>

OutputChecks ==
  /\ AtOutput("busy", IF IsWorkerBusy THEN "leave" ELSE "store")
  /\ UNCHANGED <<shared, listVars, outArmed, outEvent, OtherThanOutput, socketError, freed,
                 seen, slips>>

\* "overtaken": tcp.input pushed a request after the worker was found idle.
OutputClearsWorker ==
  /\ AtOutput("store", "leave")
  /\ flags' = Loaded("output") \ {"worker"}
  /\ seen' = [seen EXCEPT !["output"] = {}]
  /\ slips' = slips \cup (IF Loaded("output") = flags THEN {} ELSE {"lost"})
                    \cup (IF IsWorkerBusy THEN {"overtaken"} ELSE {})
  /\ UNCHANGED <<closeType, netError, locked, pushCount, procCount, queue, listVars, outArmed,
                 outEvent, OtherThanOutput, socketError, freed>>

OutputLeaves ==
  /\ AtOutput("leave", IF "out" \in flags THEN "left" ELSE "decide")
  /\ Load("output", "out" \in flags)
  /\ UNCHANGED <<shared, listVars, outArmed, outEvent, OtherThanOutput, socketError, freed,
                 slips>>

OutputClearsOut ==
  /\ AtOutput("left", "decide")
  /\ Store("output", Loaded("output") \ {"out"})
  /\ UNCHANGED <<closeType, netError, locked, pushCount, procCount, queue, listVars, outArmed,
                 outEvent, OtherThanOutput, socketError, freed>>

OutputDecides ==
  /\ AtOutput("decide", IF flags \cap {"in", "worker"} # {} THEN "wait" ELSE "free")
  /\ UNCHANGED <<shared, listVars, outArmed, outEvent, OtherThanOutput, socketError, freed,
                 seen, slips>>

\* gr_tcp_conn_free; closing the socket takes it out of the epoll.
OutputFrees ==
  /\ AtOutput("free", "wait")
  /\ freed' = TRUE
  /\ listed' = FALSE /\ waiting' = 0
  /\ outArmed' = "absent" /\ outEvent' = FALSE
  /\ UNCHANGED <<shared, OtherThanOutput, socketError, seen, slips>>

-----------------------------------------------------------------------------
Input ==
  \/ InputWakes \/ InputReceives \/ InputOpens \/ InputSetsOpen
  \/ InputCounts \/ InputQueues \/ InputStops \/ InputLoads \/ InputLooks
  \/ InputClearsWorker \/ InputLeaves \/ InputClearsIn \/ InputNotifies

Worker ==
  \/ WorkerTakes \/ WorkerProcesses \/ WorkerSends \/ WorkerChecks
  \/ WorkerAdds \/ WorkerOpens \/ WorkerSetsOut \/ WorkerArms \/ WorkerPops \/ WorkerIsLast
  \/ WorkerFinishes \/ WorkerNotifies

Output ==
  \/ OutputWakes \/ OutputSends \/ OutputSendsSome \/ OutputClears \/ OutputLooks \/ OutputFails
  \/ OutputStops \/ OutputLoads \/ OutputChecks \/ OutputClearsWorker \/ OutputLeaves
  \/ OutputClearsOut \/ OutputDecides \/ OutputFrees

Next == Input \/ Worker \/ Output \/ ClientSends \/ ClientEnds

\* The three threads are scheduled.  What the client does is its business, but it goes on
\* reading: the socket is not full every time there is something to send.
Spec ==
  /\ Init /\ [][Next]_vars
  /\ WF_vars(Input) /\ WF_vars(Worker) /\ WF_vars(Output) /\ SF_vars(OutputSends)

-----------------------------------------------------------------------------
\* What gr_tcp_close.c:94 asks of whoever deletes: it waits until the others are out.
\* All that they may still do is to tell tcp.output that they are (they have no more to do
\* with the connection, but read conn->fd for it).  It does not hold as it stands.
DeletedLast ==
  freed => /\ queue = 0 /\ worker \in {"wait", "notify"}
           /\ input \in {"notify", "gone"}

\* A connection is deleted under another thread's hands only when tcp.output cleared
\* worker_open that tcp.input was just relying on, or one of the two stores undid the
\* other (gr_tcp_close.c:209, gr_worker.c:601).
DeletedLastUnlessOvertaken == slips \cap {"overtaken", "lost"} = {} => DeletedLast

\* gr_tcp_close.c:93: nobody may think that another will delete.  Once tcp.input has given
\* a broken connection up it is deleted, unless the worker decided that there was nothing
\* to tell before tcp.input gave up (gr_conn.c:440) and tcp.input found it busy after that
\* (gr_tcp_close.c:161), or a store to one of the flags undid another.
GivenUpIsDeleted ==
  (netError /\ input \in {"load", "busy", "store", "leave", "left", "notify", "gone"})
     ~> (freed \/ slips \cap {"untold", "unheard", "lost"} # {})
=============================================================================
