------------------------------ MODULE Lifecycle ------------------------------
(***************************************************************************)
(* The life of one server process: gr_server_impl.c starts the components  *)
(* one after another, each with its object, its global pointer and its     *)
(* threads (gr_thread.c), listens, waits for is_server_stopping, and takes *)
(* the components down in the reverse order while the threads of those     *)
(* that are still up go on serving.                                        *)
(*                                                                         *)
(* A component's polls, queues and buffers live and die with its object.   *)
(* Connections and requests appear only as a thread's use of another       *)
(* component.                                                              *)
(***************************************************************************)
EXTENDS Naturals, Sequences

CONSTANTS Configs,  \* grocketd.ini: records of listening ports and disabled components
          Num,      \* the number of threads of a component
          Faults    \* what may fail: see Fault

Threaded == {"accept", "in", "out", "udpin", "udpout", "worker"}
Comp     == Threaded \cup {"http", "conn", "backend"}
Fault    == {"bind", "child", "alloc", "create", "affinity", "routine", "listen"}

ASSUME ConfigAssumption ==
  /\ Configs \subseteq [ports : SUBSET {"tcp", "udp"}, disabled : SUBSET {"out", "worker"}]
  /\ Num \in [Threaded -> Nat \ {0}]
  /\ Faults \subseteq Fault

Thread == UNION {{c} \X (1 .. Num[c]) : c \in Threaded}

VARIABLES
  config,    \* the configuration the process was started with
  main,      \* the main thread: where it is, at which component and which of its threads
  comp,      \* the object of a component and the global that points to it
  thread,    \* where a thread is in gr_thread_runtine
  sem,       \* gr_thread_t.event: alarms not yet waited for
  needExit,  \* the threads whose is_need_exit is set
  using,     \* the component whose object a thread is working with
  child,     \* the module's GR_PROCESS_CHILD: init and term
  called,    \* the module's GR_PROCESS_THREAD_1 + n: init and term
  open,      \* the ports are in a poll: clients get connected
  stopping   \* is_server_stopping

vars == <<config, main, comp, thread, sem, needExit, using, child, called, open, stopping>>
threadVars == <<thread, sem, using, called>>

At == {"bind", "child", "alloc", "create", "wait", "publish", "listen", "serve",
       "term", "join", "free", "childterm", "done", "crashed"}
\* "closing": its threads are being joined and their cookies freed; "failed": the same
\* for a component whose init failed and that was never published.  "dangling": freed
\* while the global still points to it; "unpublished": the other order.
CompState   == {"none", "private", "failed", "published", "closing", "dangling",
                "unpublished", "gone"}
ThreadState == {"none", "new", "up", "inited", "entry", "loop", "left", "down",
                "exited", "joined"}
Callback    == {"none", "inited", "termed"}

\* Seeded slip: the worker is started first among the TCP components and so taken down last.
Order_WorkerFirst ==
  (IF "tcp" \in config.ports THEN <<"worker", "accept", "in", "out">> ELSE <<"worker">>)
    \o (IF "udp" \in config.ports THEN <<"udpin", "udpout">> ELSE <<>>)
    \o <<"http", "conn", "backend">>

\* server_init; server_term goes through it backwards.
Order ==
  (IF "tcp" \in config.ports THEN <<"accept", "in", "out">> ELSE <<>>)
    \o (IF "udp" \in config.ports THEN <<"udpin", "udpout">> ELSE <<>>)
    \o <<"http", "conn", "backend", "worker">>

C          == Order[main.n]
Last       == Len(Order)
Started(c) == c \in Threaded /\ c \notin config.disabled
Threads(c) == {t \in Thread : t[1] = c}
IsRunning(t) == thread[t] \in {"up", "inited", "entry", "loop", "left"}
Alive(t)     == thread[t] \notin {"none", "exited", "joined"}
Goto(at, n, i) == main' = [at |-> at, n |-> n, i |-> i]

Init ==
  /\ config \in Configs
  /\ main = [at |-> "bind", n |-> 1, i |-> 1]
  /\ comp = [c \in Comp |-> "none"]
  /\ thread = [t \in Thread |-> "none"]
  /\ sem = [t \in Thread |-> 0]
  /\ needExit = {}
  /\ using = [t \in Thread |-> "none"]
  /\ child = "none"
  /\ called = [t \in Threads("worker") |-> "none"]
  /\ open = FALSE
  /\ stopping = FALSE

-----------------------------------------------------------------------------
(* The main thread: server_run *)

\* Nothing to take down when the ports cannot be bound.
BindPorts ==
  /\ main.at = "bind"
  /\ \/ Goto("child", 1, 1)
     \/ "bind" \in Faults /\ Goto("done", 1, 1)
  /\ UNCHANGED <<config, comp, threadVars, needExit, child, open, stopping>>

ChildInit ==
  /\ main.at = "child"
  /\ \/ Goto("alloc", 1, 1) /\ child' = "inited"
     \/ "child" \in Faults /\ Goto("done", 1, 1) /\ UNCHANGED child
  /\ UNCHANGED <<config, comp, threadVars, needExit, open, stopping>>

\* An init that fails before its threads leaves nothing behind; gr_worker_init without
\* items goes through them all the same.
Alloc ==
  /\ main.at = "alloc"
  /\ \/ /\ comp' = [comp EXCEPT ![C] = "private"]
        /\ Goto(IF C \in Threaded THEN "create" ELSE "publish", main.n, 1)
     \/ "alloc" \in Faults /\ Goto("term", Last, 1) /\ UNCHANGED comp
     \/ "alloc" \in Faults /\ C = "worker" /\ Goto("crashed", main.n, 1) /\ UNCHANGED comp
  /\ UNCHANGED <<config, threadVars, needExit, child, open, stopping>>

\* gr_threads_close of a component whose init has failed: only the first k threads count.
CloseFailed(k) ==
  /\ comp' = [comp EXCEPT ![C] = "failed"]
  /\ needExit' = needExit \cup {t \in Threads(C) : Started(C) /\ t[2] <= k}
  /\ Goto("join", main.n, k)

\* One iteration of the loop of gr_threads_start.
Create ==
  /\ main.at = "create"
  /\ main.i <= Num[C]
  /\ \/ /\ thread' = IF Started(C) THEN [thread EXCEPT ![<<C, main.i>>] = "new"] ELSE thread
        /\ Goto("create", main.n, main.i + 1)
        /\ UNCHANGED <<comp, needExit>>
     \/ "create" \in Faults /\ CloseFailed(main.i - 1) /\ UNCHANGED thread
  /\ UNCHANGED <<config, sem, using, called, child, open, stopping>>

Created ==
  /\ main.at = "create"
  /\ main.i > Num[C]
  /\ Goto(IF Started(C) THEN "wait" ELSE "publish", main.n, 1)
  /\ UNCHANGED <<config, comp, threadVars, needExit, child, open, stopping>>

\* gr_event_wait for a thread, then the test of its is_running.
WaitReady ==
  LET t == <<C, main.i>> IN
  /\ main.at = "wait"
  /\ sem[t] > 0
  /\ sem' = [sem EXCEPT ![t] = @ - 1]
  /\ \/ IsRunning(t) /\ main.i < Num[C] /\ Goto("wait", main.n, main.i + 1) /\ UNCHANGED <<comp, needExit>>
     \/ IsRunning(t) /\ main.i = Num[C] /\ Goto("publish", main.n, 1) /\ UNCHANGED <<comp, needExit>>
     \/ ~ IsRunning(t) /\ CloseFailed(Num[C])
  /\ UNCHANGED <<config, thread, using, called, child, open, stopping>>

Publish ==
  /\ main.at = "publish"
  /\ comp' = [comp EXCEPT ![C] = "published"]
  /\ IF main.n < Last THEN Goto("alloc", main.n + 1, 1) ELSE Goto("listen", Last, 1)
  /\ UNCHANGED <<config, threadVars, needExit, child, open, stopping>>

\* start_listen returns 0 whether or not the ports are in a poll.
StartListen ==
  /\ main.at = "listen"
  /\ \/ open' = TRUE
     \/ "listen" \in Faults /\ open' = FALSE
  /\ Goto("serve", Last, 1)
  /\ UNCHANGED <<config, comp, threadVars, needExit, child, stopping>>

Served ==
  /\ main.at = "serve"
  /\ stopping
  /\ Goto("term", Last, 1)
  /\ UNCHANGED <<config, comp, threadVars, needExit, child, open, stopping>>

\* One call of server_term; a component that is not published has nothing to do.
Term ==
  /\ main.at = "term"
  /\ IF main.n = 0
       THEN Goto("childterm", 0, 1) /\ UNCHANGED <<comp, needExit>>
       ELSE IF comp[C] = "published"
       THEN /\ comp' = [comp EXCEPT ![C] = "closing"]
            /\ needExit' = needExit \cup {t \in Threads(C) : Started(C)}
            /\ Goto("join", main.n, IF C \in Threaded THEN Num[C] ELSE 0)
       ELSE Goto("term", main.n - 1, 1) /\ UNCHANGED <<comp, needExit>>
  /\ UNCHANGED <<config, threadVars, child, open, stopping>>

\* Seeded slip: the threads are told to exit but not joined.
Join_AtOnce ==
  /\ main.at = "join"
  /\ main.i > 0
  /\ Goto("join", main.n, main.i - 1)
  /\ UNCHANGED <<config, comp, threadVars, needExit, child, open, stopping>>

\* gr_threads_close: join the last thread, free its cookie and its event.
Join ==
  LET t == <<C, main.i>> IN
  /\ main.at = "join"
  /\ main.i > 0
  /\ Started(C) => thread[t] = "exited"
  /\ thread' = IF Started(C) THEN [thread EXCEPT ![t] = "joined"] ELSE thread
  /\ Goto("join", main.n, main.i - 1)
  /\ UNCHANGED <<config, comp, sem, needExit, using, called, child, open, stopping>>

\* Their globals are cleared before they are freed, the others' after.
ClearedFirst == {"accept", "udpin", "udpout", "worker"}

\* Seeded slip: the cleanup of a failed init forgets the object.
Free_OnlyPublished ==
  /\ main.at = "join"
  /\ main.i = 0
  /\ IF comp[C] = "closing"
       THEN comp' = [comp EXCEPT ![C] = "dangling"] /\ Goto("free", main.n, 0)
       ELSE Goto("term", Last, 1) /\ UNCHANGED comp
  /\ UNCHANGED <<config, threadVars, needExit, child, open, stopping>>

\* A component is freed and its global cleared in two steps, in one order or the other.
Free ==
  /\ main.at = "join"
  /\ main.i = 0
  /\ \/ /\ comp[C] = "failed"
        /\ comp' = [comp EXCEPT ![C] = "gone"]
        /\ Goto("term", Last, 1)
     \/ /\ comp[C] = "closing"
        /\ comp' = [comp EXCEPT ![C] = IF C \in ClearedFirst THEN "unpublished" ELSE "dangling"]
        /\ Goto("free", main.n, 0)
  /\ UNCHANGED <<config, threadVars, needExit, child, open, stopping>>

Freed ==
  /\ main.at = "free"
  /\ comp' = [comp EXCEPT ![C] = "gone"]
  /\ Goto("term", main.n - 1, 1)
  /\ UNCHANGED <<config, threadVars, needExit, child, open, stopping>>

ChildTerm ==
  /\ main.at = "childterm"
  /\ child' = "termed"
  /\ Goto("done", 0, 1)
  /\ UNCHANGED <<config, comp, threadVars, needExit, open, stopping>>

\* process_signal, at any time.
Signal ==
  /\ main.at # "done"
  /\ ~ stopping
  /\ stopping' = TRUE
  /\ UNCHANGED <<config, main, comp, threadVars, needExit, child, open>>

-----------------------------------------------------------------------------
(* A thread: gr_thread_runtine and the routines it runs *)

Move(t, from, to) == thread[t] = from /\ thread' = [thread EXCEPT ![t] = to]
Alarm(t)          == sem' = [sem EXCEPT ![t] = @ + 1]
others            == <<config, main, comp, needExit, child, open, stopping>>

\* Seeded slip: the alarm is posted when the thread is up, before its init routine.
Up_Alarms(t) ==
  /\ Move(t, "new", "up")
  /\ Alarm(t)
  /\ UNCHANGED <<others, using, called>>

\* A thread whose affinity cannot be set is never running.
Up(t) ==
  /\ \/ Move(t, "new", "up")
     \/ "affinity" \in Faults /\ Move(t, "new", "down")
  /\ UNCHANGED <<others, sem, using, called>>

\* worker_init_routine; what the module answers is not looked at.
InitRoutine(t) ==
  /\ Move(t, "up", "inited")
  /\ called' = IF t[1] = "worker" THEN [called EXCEPT ![t] = "inited"] ELSE called
  /\ UNCHANGED <<others, sem, using>>

Ready(t) ==
  /\ Move(t, "inited", "entry")
  /\ Alarm(t)
  /\ UNCHANGED <<others, using, called>>

\* The routines of the polling threads return at once when their events cannot be
\* allocated; udp_out_worker has no body.
Enter(t) ==
  /\ \/ t[1] # "udpout" /\ Move(t, "entry", "loop")
     \/ t[1] \in {"accept", "in", "out", "udpin"} /\ "routine" \in Faults /\ Move(t, "entry", "left")
     \/ t[1] = "udpout" /\ Move(t, "entry", "left")
  /\ UNCHANGED <<others, sem, using, called>>

\* The components a thread reaches through their globals.
Uses(c) ==
  CASE c = "accept" -> {"in"}
    [] c = "in"     -> {"conn", "worker", "out"} \cup {d \in {"http"} : "worker" \in config.disabled}
    [] c = "worker" -> {"out", "http"}
    [] OTHER        -> {}

\* gr_tcp_in_add_conn, gr_tcp_out_* and gr_tcp_conn_prepare_recv give up on NULL; the
\* callers of the worker and of http dereference it.
Checked == {"in", "out", "conn"}
GlobalIsSet(c) == comp[c] \in {"published", "closing", "dangling"}

\* In an iteration of its loop that has begun before need_exit was set, a thread goes
\* from one component to the next.
Use(t) ==
  /\ thread[t] = "loop"
  /\ open
  /\ using[t] = "none" => t \notin needExit
  /\ using[t] # "null"
  /\ \E c \in Uses(t[1]) \ {using[t]} :
       \/ GlobalIsSet(c) /\ using' = [using EXCEPT ![t] = c]
       \/ ~ GlobalIsSet(c) /\ c \notin Checked /\ using' = [using EXCEPT ![t] = "null"]
  /\ UNCHANGED <<others, thread, sem, called>>

EndUse(t) ==
  /\ using[t] # "none"
  /\ using' = [using EXCEPT ![t] = "none"]
  /\ UNCHANGED <<others, thread, sem, called>>

\* Seeded slip: worker_routine returns without gr_module_worker_term.
Leave_Silent(t) ==
  /\ t \in needExit
  /\ using[t] = "none"
  /\ Move(t, "loop", "left")
  /\ UNCHANGED <<others, sem, using, called>>

\* The routine returns; the worker's has called the module first.
Leave(t) ==
  /\ t \in needExit
  /\ using[t] = "none"
  /\ Move(t, "loop", "left")
  /\ called' = IF t[1] = "worker" THEN [called EXCEPT ![t] = "termed"] ELSE called
  /\ UNCHANGED <<others, sem, using>>

Down(t) ==
  /\ Move(t, "left", "down")
  /\ UNCHANGED <<others, sem, using, called>>

\* Seeded slip: a thread that cannot start returns without its alarm.
Exit_Silent(t) ==
  /\ Move(t, "down", "exited")
  /\ UNCHANGED <<others, sem, using, called>>

Exit(t) ==
  /\ Move(t, "down", "exited")
  /\ Alarm(t)
  /\ UNCHANGED <<others, using, called>>

-----------------------------------------------------------------------------
Main ==
  \/ BindPorts \/ ChildInit \/ Alloc \/ Create \/ Created \/ WaitReady \/ Publish
  \/ StartListen \/ Served \/ Term \/ Join \/ Free \/ Freed \/ ChildTerm

Progress(t) ==
  Up(t) \/ InitRoutine(t) \/ Ready(t) \/ Enter(t) \/ EndUse(t) \/ Leave(t) \/ Down(t) \/ Exit(t)

\* A NULL pointer was dereferenced: the process is gone.
Crashed == main.at = "crashed" \/ \E t \in Thread : using[t] = "null"

Over == (Crashed \/ main.at = "done") /\ UNCHANGED vars

Next ==
  \/ ~ Crashed /\ (Main \/ Signal \/ \E t \in Thread : Progress(t) \/ Use(t))
  \/ Over

\* Every thread is scheduled, and what it does with a component ends; nothing makes
\* clients come or an operator stop the server.
Spec ==
  /\ Init /\ [][Next]_vars
  /\ WF_vars(~ Crashed /\ Main)
  /\ \A t \in Thread : WF_vars(~ Crashed /\ Progress(t))

-----------------------------------------------------------------------------
(* Properties *)

\* The variables stay in their sets; a thread posts at most two alarms.
TypeOK ==
  /\ config \in Configs
  /\ main \in [at : At, n : 0 .. Last, i : Nat]
  /\ comp \in [Comp -> CompState]
  /\ thread \in [Thread -> ThreadState]
  /\ sem \in [Thread -> 0 .. 2]
  /\ needExit \subseteq Thread
  /\ using \in [Thread -> Comp \cup {"none", "null"}]
  /\ child \in Callback
  /\ called \in [Threads("worker") -> Callback]
  /\ open \in BOOLEAN
  /\ stopping \in BOOLEAN

\* A thread reads its component's object (thread->param) until it exits: the object is
\* there, also when the start of its component fails halfway (gr_threads_start,
\* gr_*_init).
ObjectOutlivesThreads ==
  \A t \in Thread : Alive(t) => comp[t[1]] \in {"private", "failed", "published", "closing"}

\* When the server listens, every thread has been through its init: no request reaches
\* a worker the module has not initialised (wait_for_all_thread_ready).
ReadyBeforeListening ==
  main.at \in {"listen", "serve"} =>
    \A t \in Thread : Started(t[1]) /\ (\E n \in 1 .. Last : t[1] = Order[n])
                        => thread[t] \notin {"none", "new", "up", "inited"}

\* The module sees its child process's init before every worker's and its term after
\* every worker's, and each init has its term, however far the start gets.
CallbacksNest ==
  /\ \A w \in Threads("worker") :
       /\ called[w] # "none" => child # "none"
       /\ child = "termed" => called[w] # "inited"
  /\ main.at = "done" => child # "inited"

\* A component is published while another's thread works with it: always for the
\* threads of the worker, and for all of them until the server is taken down.
UsesAreSafe ==
  \A t \in Thread :
    using[t] # "none" =>
      \/ using[t] \in Comp /\ comp[using[t]] = "published"
      \/ t[1] # "worker" /\ main.at \in {"term", "join", "free", "childterm", "done"}

\* The process ends with no object, no global and no thread left.
NothingLeft ==
  main.at = "done" =>
    /\ \A c \in Comp : comp[c] \in {"none", "gone"}
    /\ \A t \in Thread : thread[t] \in {"none", "joined"}

\* A start comes to an end: no thread that fails leaves the main thread waiting.  So does a
\* stop: no join waits for a thread that is not told to exit (gr_thread.c:436-508).
StartAndStopEnd ==
  /\ main.at = "bind" ~> main.at \in {"serve", "done"} \/ Crashed
  /\ stopping ~> main.at = "done" \/ Crashed

\* gr_server_impl.c:192-194 says of SIGTERM that it is used to ask a program to exit
\* normally.  No thread is left working with a component that is going away, or
\* without it.  The code does not keep to it (gr_server_impl.c:366): TLC finds such a thread
\* with the constants of MCLifecycle_full.cfg.
ExitIsNormal ==
  \A t \in Thread : using[t] # "none" => using[t] \in Comp /\ comp[using[t]] = "published"
=============================================================================
