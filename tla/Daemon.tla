------------------------------- MODULE Daemon -------------------------------
(***************************************************************************)
(* The processes of one start of the program.  gr_main initialises and     *)
(* then serves itself (daemon = false), or becomes a monitor that forks    *)
(* the server, waits for it and forks it again (gr_server_daemon_main); if *)
(* it is not run with -debug it first forks the monitor into the           *)
(* background (run_back).  An operator sends stopping signals to any of    *)
(* the processes at any time; servers crash; fork fails.                   *)
(*                                                                         *)
(* What a server does between its start and its end is Lifecycle's         *)
(* subject, what the initialisations of gr_main do Startup's.  A process   *)
(* that has ended is reaped at once (SIGCHLD is ignored) and its number    *)
(* is used again.                                                          *)
(***************************************************************************)
EXTENDS Integers

CONSTANTS
  NumProc,  \* bound: processes at one time; daemon mode needs three
  Modes     \* "console": daemon = false;  "debug": daemon = true with -debug;  "daemon"

ASSUME DaemonAssumption ==
  NumProc \in Nat \ {0, 1} /\ Modes \subseteq {"console", "debug", "daemon"}

Proc == 1 .. NumProc

VARIABLES
  mode,       \* how the program was configured and started
  at,         \* where a process is
  done,       \* how many of gr_main's initialisations have run
  handler,    \* its disposition for SIGTERM, SIGINT and SIGQUIT
  stopping,   \* its is_server_stopping
  pid,        \* the local variable pid of its gr_server_daemon_main; -1 before the first fork
  parent,     \* who forked it; 0 for the shell
  master      \* the module's GR_PROCESS_MASTER init and term, as this process has called them

vars == <<mode, at, done, handler, stopping, pid, parent, master>>

\* gr_main's initialisations: current directory, system, log, configuration, library, module,
\* server.
Steps == 7

At == {"none", "init", "mode", "back", "exit", "ignore", "master", "loop", "fork",
       "handlers", "wait", "masterterm", "console", "starting", "serving", "closing",
       "term", "ended", "killed"}
Over == {"none", "ended", "killed"}

Live(p)     == at[p] \notin Over
InServer(p) == at[p] \in {"console", "starting", "serving", "closing"}
Children(p) == {q \in Proc : Live(q) /\ parent[q] = p}

MonitorAt == {"ignore", "master", "loop", "fork", "handlers", "wait", "masterterm"}

\* The variables stay in their sets; a process in the code of the monitor is not the one
\* fork returned 0 to.
TypeOK ==
  /\ mode \in Modes
  /\ at \in [Proc -> At]
  /\ done \in [Proc -> 0 .. Steps]
  /\ handler \in [Proc -> {"default", "ignored", "parent", "server"}]
  /\ stopping \in [Proc -> BOOLEAN]
  /\ pid \in [Proc -> -1 .. NumProc]
  /\ parent \in [Proc -> 0 .. NumProc]
  /\ master \in [Proc -> {"none", "inited", "termed"}]
  /\ \A p \in Proc : at[p] \in MonitorAt => pid[p] # 0

Init ==
  /\ mode \in Modes
  /\ at = [p \in Proc |-> IF p = 1 THEN "init" ELSE "none"]
  /\ done = [p \in Proc |-> 0]
  /\ handler = [p \in Proc |-> "default"]
  /\ stopping = [p \in Proc |-> FALSE]
  /\ pid = [p \in Proc |-> -1]
  /\ parent = [p \in Proc |-> 0]
  /\ master = [p \in Proc |-> "none"]

Move(p, from, to) == at[p] = from /\ at' = [at EXCEPT ![p] = to]

memory == <<done, handler, stopping, pid, master>>

-----------------------------------------------------------------------------
(* gr_main *)

\* One initialisation; a failure goes straight to the end of gr_main.
InitStep(p) ==
  /\ \/ /\ done[p] < Steps
        /\ Move(p, "init", IF done[p] + 1 = Steps THEN "mode" ELSE "init")
        /\ done' = [done EXCEPT ![p] = @ + 1]
     \/ Move(p, "init", "term") /\ UNCHANGED done
  /\ UNCHANGED <<mode, handler, stopping, pid, parent, master>>

\* gr_config_is_daemon, and the arguments of gr_server_daemon_main
ChooseMode(p) ==
  /\ Move(p, "mode", CASE mode = "console" -> "console"
                       [] mode = "debug"   -> "ignore"
                       [] mode = "daemon"  -> "back")
  /\ UNCHANGED <<mode, parent, memory>>

\* The six terms at the end of gr_main; what has not been initialised has nothing to do.
Term(p) ==
  /\ Move(p, "term", "ended")
  /\ UNCHANGED <<mode, parent, memory>>

-----------------------------------------------------------------------------
(* The monitor *)

\* A process p becomes two: what is theirs in the child q is copied.
ForkInto(p, q, parentAt, childAt, parentPid, childPid) ==
  /\ ~ Live(q)
  /\ at' = [at EXCEPT ![p] = parentAt, ![q] = childAt]
  /\ parent' = [parent EXCEPT ![q] = p]
  /\ pid' = [pid EXCEPT ![p] = parentPid, ![q] = childPid]
  /\ done' = [done EXCEPT ![q] = done[p]]
  /\ handler' = [handler EXCEPT ![q] = handler[p]]
  /\ stopping' = [stopping EXCEPT ![q] = stopping[p]]
  /\ master' = [master EXCEPT ![q] = master[p]]
  /\ UNCHANGED mode

\* run_back: the child goes on, its parent exits.  When fork fails the process goes on in
\* the foreground.
RunBack(p) ==
  \/ /\ at[p] = "back"
     /\ \E q \in Proc \ {p} : ForkInto(p, q, "exit", "ignore", pid[p], pid[p])
  \/ /\ Move(p, "back", "ignore")
     /\ UNCHANGED <<mode, parent, memory>>

\* exit( 0 ) in the middle of gr_main: nothing is taken down.
ExitFront(p) ==
  /\ Move(p, "exit", "ended")
  /\ UNCHANGED <<mode, parent, memory>>

IgnoreSignals(p) ==
  /\ Move(p, "ignore", "master")
  /\ handler' = [handler EXCEPT ![p] = "ignored"]
  /\ UNCHANGED <<mode, done, stopping, pid, parent, master>>

\* gr_module_master_process_init
MasterInit(p) ==
  /\ \/ /\ Move(p, "master", "loop")
        /\ master' = [master EXCEPT ![p] = "inited"]
        /\ stopping' = [stopping EXCEPT ![p] = FALSE]
     \/ Move(p, "master", "term") /\ UNCHANGED <<master, stopping>>
  /\ UNCHANGED <<mode, done, handler, pid, parent>>

\* while( ! is_server_stopping )
Loop(p) ==
  /\ Move(p, "loop", IF stopping[p] THEN "masterterm" ELSE "fork")
  /\ UNCHANGED <<mode, parent, memory>>

\* Seeded slip: is_server_stopping is reset for each new server instead of once.
ForkServer_Fresh(p) ==
  /\ at[p] = "fork"
  /\ \E q \in Proc \ {p} :
       /\ ~ Live(q)
       /\ at' = [at EXCEPT ![p] = "handlers", ![q] = "console"]
       /\ parent' = [parent EXCEPT ![q] = p]
       /\ pid' = [pid EXCEPT ![p] = q, ![q] = 0]
       /\ done' = [done EXCEPT ![q] = done[p]]
       /\ handler' = [handler EXCEPT ![q] = handler[p]]
       /\ stopping' = [stopping EXCEPT ![q] = FALSE]
       /\ master' = [master EXCEPT ![q] = master[p]]
       /\ UNCHANGED mode

ForkServer(p) ==
  /\ at[p] = "fork"
  /\ \E q \in Proc \ {p} : ForkInto(p, q, "handlers", "console", q, 0)

\* The branch of the parent is taken for -1, too.
ForkFails(p) ==
  /\ Move(p, "fork", "handlers")
  /\ pid' = [pid EXCEPT ![p] = -1]
  /\ UNCHANGED <<mode, done, handler, stopping, parent, master>>

Handlers(p) ==
  /\ Move(p, "handlers", "wait")
  /\ handler' = [handler EXCEPT ![p] = "parent"]
  /\ UNCHANGED <<mode, done, stopping, pid, parent, master>>

\* Seeded slip: the loop ends with the first server.
Wait_Once(p) ==
  /\ Children(p) = {}
  /\ Move(p, "wait", "masterterm")
  /\ UNCHANGED <<mode, parent, memory>>

\* Seeded slip: waitpid( -1, WNOHANG ) where wait() was.
Wait_NoHang(p) ==
  /\ Move(p, "wait", IF stopping[p] THEN "masterterm" ELSE "loop")
  /\ UNCHANGED <<mode, parent, memory>>

\* wait(): with SIGCHLD ignored it returns, with ECHILD, when no child is left; a
\* handler that runs meanwhile does not end it (signal() sets SA_RESTART).
Wait(p) ==
  /\ Children(p) = {}
  /\ Move(p, "wait", IF stopping[p] THEN "masterterm" ELSE "loop")
  /\ UNCHANGED <<mode, parent, memory>>

MasterTerm(p) ==
  /\ Move(p, "masterterm", "term")
  /\ master' = [master EXCEPT ![p] = "termed"]
  /\ UNCHANGED <<mode, done, handler, stopping, pid, parent>>

-----------------------------------------------------------------------------
(* The server *)

\* gr_server_main: init_signal
InitSignal(p) ==
  /\ Move(p, "console", "starting")
  /\ handler' = [handler EXCEPT ![p] = "server"]
  /\ UNCHANGED <<mode, done, stopping, pid, parent, master>>

\* server_run: a port that cannot be bound, a module or a component that cannot be
\* initialised; or the server listens.
Start(p) ==
  /\ \/ Move(p, "starting", "serving")
     \/ Move(p, "starting", "closing")
  /\ UNCHANGED <<mode, parent, memory>>

\* server_loop
Serve(p) ==
  /\ stopping[p]
  /\ Move(p, "serving", "closing")
  /\ UNCHANGED <<mode, parent, memory>>

\* Seeded slip: without the test of pid the server, too, terms the master.
Closed_AsMaster(p) ==
  /\ Move(p, "closing", IF pid[p] = -1 THEN "term" ELSE "masterterm")
  /\ UNCHANGED <<mode, parent, memory>>

\* The server has been taken down: out of the loop of gr_server_daemon_main with pid 0, or
\* back in gr_main.
Closed(p) ==
  /\ Move(p, "closing", "term")
  /\ UNCHANGED <<mode, parent, memory>>

-----------------------------------------------------------------------------
(* From outside *)

\* A server crashes, or is killed.
Crash(p) ==
  /\ InServer(p)
  /\ at' = [at EXCEPT ![p] = "killed"]
  /\ UNCHANGED <<mode, parent, memory>>

\* The monitor is killed; its server is left alone.
KillMonitor(p) ==
  /\ at[p] \in {"loop", "fork", "handlers", "wait"}
  /\ at' = [at EXCEPT ![p] = "killed"]
  /\ UNCHANGED <<mode, parent, memory>>

\* The operator sends SIGTERM: process_signal and process_parent_signal do the same.
Signal(p) ==
  /\ Live(p)
  /\ \/ /\ handler[p] = "default"
        /\ at' = [at EXCEPT ![p] = "killed"]
        /\ UNCHANGED stopping
     \/ /\ handler[p] \in {"parent", "server"}
        /\ ~ stopping[p]
        /\ stopping' = [stopping EXCEPT ![p] = TRUE]
        /\ UNCHANGED at
  /\ UNCHANGED <<mode, done, handler, pid, parent, master>>

Step(p) ==
  \/ InitStep(p) \/ ChooseMode(p) \/ Term(p)
  \/ RunBack(p) \/ ExitFront(p) \/ IgnoreSignals(p) \/ MasterInit(p) \/ Loop(p)
  \/ ForkServer(p) \/ ForkFails(p) \/ Handlers(p) \/ Wait(p) \/ MasterTerm(p)
  \/ InitSignal(p) \/ Start(p) \/ Serve(p) \/ Closed(p)

Next == \E p \in Proc : Step(p) \/ Crash(p) \/ KillMonitor(p) \/ Signal(p)

\* The processes are scheduled, and fork does not fail for ever.
Spec ==
  /\ Init /\ [][Next]_vars
  /\ \A p \in Proc : WF_vars(Step(p)) /\ SF_vars(ForkServer(p))

-----------------------------------------------------------------------------
(* Properties *)

IsMonitor(p) == Live(p) /\ master[p] = "inited" /\ pid[p] # 0

\* However servers crash, forks fail and signals come, there is never a second server
\* besides the one the ports belong to: the next is forked when the last is gone
\* (gr_server_impl_posix.c:117, 146).
OneServer == \A p, q \in Proc : InServer(p) /\ InServer(q) => p = q

\* What the module set up for all its servers (gr_module_master_process_init,
\* gr_server_impl_posix.c:110) is taken down once, by the monitor, and not while a server
\* is using it; a monitor that ends by itself has taken it down.
MasterEncloses ==
  \A p \in Proc :
    /\ master[p] = "termed" => pid[p] # 0 /\ Children(p) = {}
    /\ at[p] = "ended" /\ pid[p] # 0 => master[p] # "inited"

\* A monitor whose server is gone comes to have another one, until it is told to stop or
\* is killed itself: also after a fork that failed (gr_server_impl_posix.c:117).
Restarted ==
  \A p \in Proc :
    IsMonitor(p) /\ Children(p) = {}
      ~> (\E q \in Children(p) : InServer(q)) \/ stopping[p] \/ at[p] = "killed"

\* When every process has been told to stop, all of them end: no server is left that was
\* forked after its monitor was told (gr_server_impl_posix.c:115, 148).
ToldEnd ==
  (\A p \in Proc : Live(p) => stopping[p]) ~> (\A p \in Proc : ~ Live(p))
=============================================================================
