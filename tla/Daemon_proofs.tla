--------------------------- MODULE Daemon_proofs ---------------------------
(***************************************************************************)
(* For any number of processes and every mode: there is one server at a    *)
(* time, and what the module set up for all servers is taken down when no  *)
(* server is left.                                                         *)
(*                                                                         *)
(* Neither is inductive.  A server is the only one because the monitor     *)
(* forks when it has no child, and because it is the only process that can *)
(* fork at all: the process that stays in the foreground of gr_main is     *)
(* always one (a chief), also while the front of run_back is leaving, and  *)
(* its server is a process of which fork returned 0 (a sub).               *)
(***************************************************************************)
EXTENDS Daemon, TLAPS

Chief(p) == Live(p) /\ at[p] # "exit" /\ pid[p] # 0
Sub(p)   == Live(p) /\ pid[p] = 0

Early == {"init", "mode", "back", "exit"}

OneChief == \A p, q \in Proc : Chief(p) /\ Chief(q) => p = q
OneSub   == \A p, q \in Proc : Sub(p) /\ Sub(q) => p = q

\* A server that was forked is its monitor's child, and the monitor waits for it.
SubIsWaitedFor ==
  \A p, q \in Proc :
    Chief(p) /\ Sub(q) => at[p] \in {"handlers", "wait"} /\ parent[q] = p

\* Nobody has forked a process before it comes to run_back.
EarlyShape ==
  \A p \in Proc :
    /\ at[p] \in Early => pid[p] # 0 /\ parent[p] = 0
    /\ parent[p] # p

\* Who has called the module's init for the master, and not yet its term.
MasterShape ==
  \A p \in Proc :
    /\ at[p] \in Early \cup {"ignore", "master"} => master[p] = "none"
    /\ InServer(p) \/ at[p] \in {"term", "ended"} => pid[p] = 0 \/ master[p] # "inited"
    /\ master[p] = "termed" => /\ pid[p] # 0 /\ at[p] \in {"term", "ended", "killed"}
                               /\ \A q \in Proc : Live(q) => q = p \/ at[q] = "exit"

IInv == /\ TypeOK /\ OneChief /\ OneSub /\ SubIsWaitedFor /\ EarlyShape /\ MasterShape

LEMMA InitHolds == Init => IInv
BY DaemonAssumption
   DEF Init, IInv, TypeOK, OneChief, OneSub, SubIsWaitedFor, EarlyShape, MasterShape, Chief, Sub,
       Early, Live, Over, InServer, At, MonitorAt, Steps, Proc

-----------------------------------------------------------------------------
(* A process that goes on by itself *)

AsMonitor == {"handlers", "wait"}

\* A step of p that forks nobody: it leaves run_back's exit only to end, the monitor's
\* wait only when it has no child left, and does not become what it has not been.
Goes(p, to) ==
  /\ at' = [at EXCEPT ![p] = to]
  /\ Live(p)
  /\ mode' = mode /\ parent' = parent
  /\ pid' = pid \/ (pid' = [pid EXCEPT ![p] = -1] /\ pid[p] # 0)
  /\ at[p] = "exit" => to \in Over \cup {"exit"}
  /\ at[p] \in AsMonitor => to \in AsMonitor \cup Over \/ Children(p) = {}
  /\ to \in Early => at[p] \in Early

LEMMA OneMoves ==
  ASSUME TypeOK, NEW p \in Proc, NEW to \in At, Goes(p, to), NEW q \in Proc
  PROVE  /\ Live(q)' => Live(q)
         /\ (pid'[q] = 0) <=> (pid[q] = 0)
         /\ q # p => at'[q] = at[q]
         /\ at'[p] = to
<1>1. at \in [Proc -> At] /\ pid \in [Proc -> Int] /\ at' = [at EXCEPT ![p] = to]
  BY DaemonAssumption DEF TypeOK, Goes
<1>2. (pid'[q] = 0) <=> (pid[q] = 0)
  BY <1>1 DEF Goes
<1>3. q # p => at'[q] = at[q]
  BY <1>1
<1> QED
  BY <1>1, <1>2, <1>3 DEF Goes, Live

LEMMA GoesOn ==
  ASSUME IInv, NEW p \in Proc, NEW to \in At, Goes(p, to)
  PROVE  OneChief' /\ OneSub' /\ SubIsWaitedFor' /\ EarlyShape'
<1>1. \A q \in Proc : /\ Live(q)' => Live(q)
                      /\ (pid'[q] = 0) <=> (pid[q] = 0)
                      /\ q # p => at'[q] = at[q]
                      /\ at'[p] = to
  BY OneMoves DEF IInv
<1>2. \A q \in Proc : /\ Chief(q)' => Chief(q)
                      /\ Sub(q)' => Sub(q)
  BY <1>1 DEF Chief, Sub, Goes, Live, Over
<1>3. OneChief' /\ OneSub'
  BY <1>2 DEF OneChief, OneSub, IInv
<1>4. ASSUME NEW q \in Proc, NEW s \in Proc, Chief(q)', Sub(s)'
      PROVE  at'[q] \in AsMonitor /\ parent'[s] = q
  <2>1. Chief(q) /\ Sub(s) /\ at[q] \in AsMonitor /\ parent[s] = q /\ parent' = parent
    BY <1>2, <1>4 DEF IInv, SubIsWaitedFor, AsMonitor, Goes
  <2>2. Children(q) # {}
    BY <2>1 DEF Children, Sub
  <2>3. to \notin Over \/ q # p
    BY <1>1, <1>4 DEF Chief, Live
  <2> QED
    BY <1>1, <2>1, <2>2, <2>3 DEF Goes
<1>5. EarlyShape'
  BY <1>1 DEF IInv, EarlyShape, Goes
<1> QED
  BY <1>3, <1>4, <1>5 DEF SubIsWaitedFor, AsMonitor

\* It neither inits nor terms the master, and serves or ends only when that is not left to it.
Neither(p, to) ==
  /\ master' = master
  /\ to \in Early \cup {"ignore", "master"} => at[p] \in Early \cup {"ignore", "master"}
  /\ at[p] = "term" => to \in {"ended", "killed", "term"}
  /\ to \in {"console", "starting", "serving", "closing", "term", "ended"} =>
       \/ at[p] \in Early \cup {"master", "console", "starting", "serving", "closing", "term"}

LEMMA GoesWithout ==
  ASSUME IInv, NEW p \in Proc, NEW to \in At, Goes(p, to), Neither(p, to)
  PROVE  MasterShape'
<1>1. \A q \in Proc : /\ Live(q)' => Live(q)
                      /\ (pid'[q] = 0) <=> (pid[q] = 0)
                      /\ q # p => at'[q] = at[q]
                      /\ at'[p] = to
  BY OneMoves DEF IInv
<1> QED
  BY <1>1 DEF IInv, MasterShape, Goes, Neither, Live, Over, Early, InServer

-----------------------------------------------------------------------------
(* The actions *)

Alone(p) ==
  \/ InitStep(p) \/ ChooseMode(p) \/ Term(p) \/ ExitFront(p) \/ IgnoreSignals(p) \/ Loop(p)
  \/ ForkFails(p) \/ Handlers(p) \/ Wait(p) \/ InitSignal(p) \/ Start(p) \/ Serve(p)
  \/ Closed(p) \/ Crash(p) \/ KillMonitor(p) \/ Signal(p) \/ MasterInit(p) \/ MasterTerm(p)

\* All but fork go on by themselves.
LEMMA AloneGoes ==
  ASSUME IInv, NEW p \in Proc, Alone(p)
  PROVE  \E to \in At : Goes(p, to) /\ (MasterInit(p) \/ MasterTerm(p) \/ Neither(p, to))
<1> USE DEF IInv, TypeOK, EarlyShape, Goes, Neither, Live, Over, At, Early, AsMonitor, Move, memory,
            Steps, MonitorAt, InServer
<1>1. CASE InitStep(p)
  BY <1>1 DEF InitStep
<1>2. CASE ChooseMode(p)
  <2>1. CASE mode = "console"
    BY <1>2, <2>1 DEF ChooseMode
  <2>2. CASE mode = "debug"
    BY <1>2, <2>2 DEF ChooseMode
  <2>3. CASE mode = "daemon"
    BY <1>2, <2>3 DEF ChooseMode
  <2> QED
    BY <2>1, <2>2, <2>3, DaemonAssumption
<1>3. CASE Term(p)
  BY <1>3 DEF Term
<1>4. CASE ExitFront(p)
  BY <1>4 DEF ExitFront
<1>5. CASE IgnoreSignals(p)
  BY <1>5 DEF IgnoreSignals
<1>6. CASE Loop(p)
  BY <1>6 DEF Loop
<1>7. CASE ForkFails(p)
  BY <1>7 DEF ForkFails
<1>8. CASE Handlers(p)
  BY <1>8 DEF Handlers
<1>9. CASE Wait(p)
  BY <1>9 DEF Wait
<1>10. CASE InitSignal(p)
  BY <1>10 DEF InitSignal
<1>11. CASE Start(p)
  BY <1>11 DEF Start
<1>12. CASE Serve(p)
  BY <1>12 DEF Serve
<1>13. CASE Closed(p)
  BY <1>13 DEF Closed
<1>14. CASE Crash(p)
  BY <1>14 DEF Crash
<1>15. CASE KillMonitor(p)
  BY <1>15 DEF KillMonitor
<1>16. CASE Signal(p)
  BY <1>16 DEF Signal
<1>17. CASE MasterInit(p)
  BY <1>17 DEF MasterInit
<1>18. CASE MasterTerm(p)
  BY <1>18 DEF MasterTerm
<1> QED
  BY <1>1, <1>2, <1>3, <1>4, <1>5, <1>6, <1>7, <1>8, <1>9, <1>10, <1>11, <1>12, <1>13, <1>14,
     <1>15, <1>16, <1>17, <1>18 DEF Alone

LEMMA AloneTypes ==
  ASSUME IInv, NEW p \in Proc, Alone(p)
  PROVE  TypeOK'
<1> USE DaemonAssumption
    DEF IInv, TypeOK, EarlyShape, Early, At, MonitorAt, Steps, Proc, Move, memory
<1>1. CASE InitStep(p)
  <2>1. CASE done' = done
    BY <1>1, <2>1, SMTT(30) DEF InitStep
  <2>2. CASE done' # done
    <3>1. done[p] < Steps /\ done' = [done EXCEPT ![p] = done[p] + 1]
      BY <1>1, <2>2 DEF InitStep
    <3>2. \E to \in {"init", "mode"} : at' = [at EXCEPT ![p] = to]
      BY <1>1, <2>2 DEF InitStep
    <3>3. done' \in [Proc -> 0 .. Steps]
      <4>1. done \in [Proc -> 0 .. Steps]
        OBVIOUS
      <4> HIDE DEF TypeOK, IInv, Proc
      <4>2. done[p] \in 0 .. 7 /\ done[p] < 7
        BY <3>1, <4>1
      <4>3. done[p] + 1 \in 0 .. 7
        BY <4>2
      <4> QED
        BY <3>1, <4>1, <4>3
    <3> QED
      BY <1>1, <3>2, <3>3 DEF InitStep
  <2> QED
    BY <2>1, <2>2
<1>2. CASE ChooseMode(p)
  BY <1>2 DEF ChooseMode
<1>3. CASE Term(p)
  BY <1>3 DEF Term
<1>4. CASE ExitFront(p)
  BY <1>4 DEF ExitFront
<1>5. CASE IgnoreSignals(p)
  BY <1>5 DEF IgnoreSignals
<1>6. CASE Loop(p)
  BY <1>6 DEF Loop
<1>7. CASE ForkFails(p)
  BY <1>7 DEF ForkFails
<1>8. CASE Handlers(p)
  BY <1>8 DEF Handlers
<1>9. CASE Wait(p)
  BY <1>9 DEF Wait
<1>10. CASE InitSignal(p)
  BY <1>10 DEF InitSignal
<1>11. CASE Start(p)
  <2>1. \E to \in {"serving", "closing"} : at' = [at EXCEPT ![p] = to]
    BY <1>11 DEF Start
  <2> QED
    BY <1>11, <2>1 DEF Start
<1>12. CASE Serve(p)
  BY <1>12 DEF Serve
<1>13. CASE Closed(p)
  BY <1>13 DEF Closed
<1>14. CASE Crash(p)
  BY <1>14 DEF Crash, InServer
<1>15. CASE KillMonitor(p)
  BY <1>15 DEF KillMonitor
<1>16. CASE Signal(p)
  <2>1. CASE stopping' = stopping
    BY <1>16, <2>1, SMTT(30) DEF Signal
  <2>2. CASE stopping' # stopping
    <3>1. stopping' = [stopping EXCEPT ![p] = TRUE] /\ at' = at
      BY <1>16, <2>2 DEF Signal
    <3>2. stopping' \in [Proc -> BOOLEAN]
      BY <3>1
    <3> QED
      BY <1>16, <3>1, <3>2 DEF Signal
  <2> QED
    BY <2>1, <2>2
<1>17. CASE MasterInit(p)
  <2>1. CASE at'[p] = "loop"
    <3>1. /\ Move(p, "master", "loop")
          /\ master' = [master EXCEPT ![p] = "inited"]
          /\ stopping' = [stopping EXCEPT ![p] = FALSE]
      BY <1>17, <2>1 DEF MasterInit
    <3>2. stopping' \in [Proc -> BOOLEAN]
      BY <3>1
    <3> QED
      BY <1>17, <3>1, <3>2 DEF MasterInit
  <2>2. CASE at'[p] # "loop"
    BY <1>17, <2>2, SMTT(30) DEF MasterInit
  <2> QED
    BY <2>1, <2>2
<1>18. CASE MasterTerm(p)
  BY <1>18 DEF MasterTerm
<1> QED
  BY <1>1, <1>2, <1>3, <1>4, <1>5, <1>6, <1>7, <1>8, <1>9, <1>10, <1>11, <1>12, <1>13, <1>14,
     <1>15, <1>16, <1>17, <1>18 DEF Alone

-----------------------------------------------------------------------------
(* The monitor's init and term of the module *)

LEMMA MasterInitKeeps ==
  ASSUME IInv, NEW p \in Proc, MasterInit(p)
  PROVE  MasterShape'
<1>1. \A q \in Proc : q # p => at'[q] = at[q] /\ master'[q] = master[q] /\ pid'[q] = pid[q]
  BY DEF MasterInit, Move, IInv, TypeOK
<1>2. at[p] = "master" /\ master[p] = "none" /\ pid' = pid /\ at'[p] \in {"loop", "term"}
  BY DEF MasterInit, Move, IInv, TypeOK, MasterShape
<1>3. at'[p] = "loop" \/ master'[p] = "none"
  BY <1>2 DEF MasterInit, Move, IInv, TypeOK
<1>4. master'[p] # "termed"
  BY <1>2 DEF MasterInit, Move, IInv, TypeOK
<1>5. \A q \in Proc : master'[q] # "termed"
  BY <1>1, <1>2, <1>4 DEF IInv, MasterShape, Live, Over
<1> QED
  BY <1>1, <1>2, <1>3, <1>5 DEF IInv, MasterShape, Early, InServer

\* The monitor comes here from wait() when it had no child, and is the only one in front.
LEMMA MasterTermKeeps ==
  ASSUME IInv, NEW p \in Proc, MasterTerm(p)
  PROVE  MasterShape'
<1>1. \A q \in Proc : q # p => at'[q] = at[q] /\ master'[q] = master[q] /\ pid'[q] = pid[q]
  BY DEF MasterTerm, Move, IInv, TypeOK
<1>2. /\ at[p] = "masterterm" /\ pid[p] # 0 /\ pid' = pid
      /\ at'[p] = "term" /\ master'[p] = "termed"
  BY DEF MasterTerm, Move, IInv, TypeOK, MonitorAt
<1>3. Chief(p)
  BY <1>2 DEF Chief, Live, Over
<1>4. \A q \in Proc : Live(q) => q = p \/ at[q] = "exit"
  BY <1>2, <1>3 DEF IInv, OneChief, SubIsWaitedFor, Chief, Sub
<1>5. \A q \in Proc : Live(q)' => q = p \/ at'[q] = "exit"
  BY <1>1, <1>4 DEF Live
<1>6. \A q \in Proc \ {p} : master[q] = "termed" => at[q] \in {"ended", "killed"}
  BY <1>4, <1>2 DEF IInv, MasterShape, Live, Over, Early
<1>7. ASSUME NEW q \in Proc
      PROVE  /\ at'[q] \in Early \cup {"ignore", "master"} => master'[q] = "none"
             /\ InServer(q)' \/ at'[q] \in {"term", "ended"} => pid'[q] = 0 \/ master'[q] # "inited"
             /\ master'[q] = "termed" => /\ pid'[q] # 0 /\ at'[q] \in {"term", "ended", "killed"}
  BY <1>1, <1>2, <1>6 DEF IInv, MasterShape, Early, InServer
<1>8. ASSUME NEW q \in Proc, master'[q] = "termed", NEW s \in Proc, Live(s)'
      PROVE  s = q \/ at'[s] = "exit"
  <2>1. CASE q = p
    BY <1>5, <1>8, <2>1
  <2>2. CASE q # p
    BY <1>1, <1>2, <1>8, <2>2 DEF IInv, MasterShape, Live, Over
  <2> QED
    BY <2>1, <2>2
<1> QED
  BY <1>7, <1>8 DEF MasterShape

LEMMA AloneKeeps ==
  ASSUME IInv, NEW p \in Proc, Alone(p)
  PROVE  IInv'
<1>1. PICK to \in At : Goes(p, to) /\ (MasterInit(p) \/ MasterTerm(p) \/ Neither(p, to))
  BY AloneGoes
<1>2. TypeOK'
  BY AloneTypes
<1>3. OneChief' /\ OneSub' /\ SubIsWaitedFor' /\ EarlyShape'
  BY <1>1, GoesOn
<1>4. MasterShape'
  BY <1>1, MasterInitKeeps, MasterTermKeeps, GoesWithout
<1> QED
  BY <1>2, <1>3, <1>4 DEF IInv

-----------------------------------------------------------------------------
(* fork *)

\* What fork does to every process, with the variables as functions.
LEMMA Forked ==
  ASSUME TypeOK, NEW p \in Proc, NEW q \in Proc \ {p},
         NEW a \in At, NEW b \in At, NEW m \in -1 .. NumProc, NEW n \in -1 .. NumProc,
         ForkInto(p, q, a, b, m, n)
  PROVE  /\ ~ Live(q)
         /\ at'[p] = a /\ at'[q] = b /\ pid'[p] = m /\ pid'[q] = n
         /\ parent'[q] = p /\ parent'[p] = parent[p]
         /\ master'[p] = master[p] /\ master'[q] = master[p]
         /\ \A r \in Proc \ {p, q} :
              at'[r] = at[r] /\ pid'[r] = pid[r] /\ parent'[r] = parent[r]
                /\ master'[r] = master[r]
BY DEF TypeOK, ForkInto

LEMMA ForkTypes ==
  ASSUME TypeOK, NEW p \in Proc, NEW q \in Proc \ {p},
         NEW a \in At, NEW b \in At, NEW m \in -1 .. NumProc, NEW n \in -1 .. NumProc,
         a \in MonitorAt => m # 0, b \in MonitorAt => n # 0,
         ForkInto(p, q, a, b, m, n)
  PROVE  TypeOK'
<1>1. mode' \in Modes /\ at' \in [Proc -> At] /\ done' \in [Proc -> 0 .. Steps]
  BY DEF TypeOK, ForkInto
<1>2. /\ handler' \in [Proc -> {"default", "ignored", "parent", "server"}]
      /\ master' \in [Proc -> {"none", "inited", "termed"}]
  BY DEF TypeOK, ForkInto
<1>3. stopping' \in [Proc -> BOOLEAN]
  BY DEF TypeOK, ForkInto
<1>4. pid' \in [Proc -> -1 .. NumProc]
  BY DEF TypeOK, ForkInto
<1>5. parent' \in [Proc -> 0 .. NumProc]
  <2>1. /\ parent \in [Proc -> 0 .. NumProc]
        /\ parent' = [parent EXCEPT ![q] = p]
    BY DEF TypeOK, ForkInto
  <2>2. p \in 0 .. NumProc
    BY DaemonAssumption DEF Proc
  <2> QED
    BY <2>1, <2>2
<1>6. \A r \in Proc : at'[r] \in MonitorAt => pid'[r] # 0
  <2>1. /\ at'[p] = a /\ at'[q] = b /\ pid'[p] = m /\ pid'[q] = n
        /\ \A r \in Proc \ {p, q} : at'[r] = at[r] /\ pid'[r] = pid[r]
    BY Forked
  <2> QED
    BY <2>1 DEF TypeOK
<1> QED
  BY <1>1, <1>2, <1>3, <1>4, <1>5, <1>6 DEF TypeOK

\* Only the one in front can go into the background: it has no child yet, so after the
\* fork the new process is the only one in front.
LEMMA RunBackKeeps ==
  ASSUME IInv, NEW p \in Proc, NEW q \in Proc \ {p}, at[p] = "back",
         ForkInto(p, q, "exit", "ignore", pid[p], pid[p])
  PROVE  IInv'
<1>1. /\ pid[p] \in -1 .. NumProc /\ pid[p] # 0 /\ parent[p] = 0 /\ master[p] = "none"
      /\ Chief(p) /\ "exit" \in At /\ "ignore" \in At
  BY DEF IInv, TypeOK, EarlyShape, MasterShape, Early, Chief, Live, Over, At
<1>2. TypeOK'
  BY <1>1, ForkTypes DEF IInv, MonitorAt
<1>3. /\ ~ Live(q)
      /\ at'[p] = "exit" /\ at'[q] = "ignore" /\ pid'[p] # 0 /\ pid'[q] # 0
      /\ parent'[q] = p /\ parent'[p] = 0
      /\ master'[p] = "none" /\ master'[q] = "none"
      /\ \A r \in Proc \ {p, q} :
           at'[r] = at[r] /\ pid'[r] = pid[r] /\ parent'[r] = parent[r] /\ master'[r] = master[r]
  BY <1>1, Forked DEF IInv
<1>4. \A r \in Proc : ~ Sub(r)
  BY <1>1 DEF IInv, SubIsWaitedFor
<1>5. \A r \in Proc : ~ Sub(r)'
  BY <1>3, <1>4 DEF Sub, Live
<1>6. \A r \in Proc : Chief(r)' => r = q
  BY <1>1, <1>3 DEF IInv, OneChief, Chief, Live
<1>7. EarlyShape'
  BY <1>3 DEF IInv, EarlyShape, Early
<1>8. \A r \in Proc : master'[r] # "termed"
  BY <1>1, <1>3 DEF IInv, MasterShape, Live, Over
<1>9. MasterShape'
  BY <1>3, <1>8 DEF IInv, MasterShape, Early, InServer
<1> QED
  BY <1>2, <1>5, <1>6, <1>7, <1>9 DEF IInv, OneChief, OneSub, SubIsWaitedFor

\* The one in front has no server when it forks one, as it does not wait.
LEMMA ForkServerKeeps ==
  ASSUME IInv, NEW p \in Proc, NEW q \in Proc \ {p}, at[p] = "fork",
         ForkInto(p, q, "handlers", "console", q, 0)
  PROVE  IInv'
<1>1. /\ pid[p] # 0 /\ Chief(p) /\ "handlers" \in At /\ "console" \in At
      /\ 0 \in -1 .. NumProc /\ q \in -1 .. NumProc /\ q # 0
  BY DaemonAssumption DEF IInv, TypeOK, Chief, Live, Over, At, MonitorAt, Proc
<1>2. TypeOK'
  BY <1>1, ForkTypes DEF IInv, MonitorAt
<1>3. /\ ~ Live(q)
      /\ at'[p] = "handlers" /\ at'[q] = "console" /\ pid'[p] = q /\ pid'[q] = 0
      /\ parent'[q] = p /\ parent'[p] = parent[p]
      /\ master'[p] = master[p] /\ master'[q] = master[p]
      /\ \A r \in Proc \ {p, q} :
           at'[r] = at[r] /\ pid'[r] = pid[r] /\ parent'[r] = parent[r] /\ master'[r] = master[r]
  BY <1>1, Forked DEF IInv
<1>4. \A r \in Proc : ~ Sub(r)
  BY <1>1 DEF IInv, SubIsWaitedFor
<1>5. \A r \in Proc : Sub(r)' => r = q
  <2>1. pid'[p] # 0
    BY <1>1, <1>3
  <2>2. \A r \in Proc \ {p, q} : ~ Sub(r)'
    BY <1>3, <1>4 DEF Sub, Live
  <2> QED
    BY <2>1, <2>2 DEF Sub
<1>6. \A r \in Proc : Chief(r)' => r = p
  BY <1>1, <1>3 DEF IInv, OneChief, Chief, Live
<1>7. EarlyShape'
  BY <1>3 DEF IInv, EarlyShape, Early
<1>8. \A r \in Proc : master'[r] # "termed"
  BY <1>1, <1>3 DEF IInv, MasterShape, Live, Over
<1>9. MasterShape'
  BY <1>3, <1>8 DEF IInv, MasterShape, Early, InServer
<1> QED
  BY <1>2, <1>3, <1>5, <1>6, <1>7, <1>9 DEF IInv, OneChief, OneSub, SubIsWaitedFor

LEMMA ForegroundKeeps ==
  ASSUME IInv, NEW p \in Proc, Move(p, "back", "ignore"), UNCHANGED <<mode, parent, memory>>
  PROVE  IInv'
<1>1. Goes(p, "ignore") /\ Neither(p, "ignore") /\ "ignore" \in At
  BY DEF Goes, Neither, Move, memory, Live, Over, At, AsMonitor, Early
<1>2. OneChief' /\ OneSub' /\ SubIsWaitedFor' /\ EarlyShape' /\ MasterShape'
  BY <1>1, GoesOn, GoesWithout
<1>3. TypeOK'
  BY DEF IInv, TypeOK, EarlyShape, Early, Move, memory, At, MonitorAt
<1> QED
  BY <1>2, <1>3 DEF IInv

-----------------------------------------------------------------------------
(* The theorems *)

LEMMA StepHolds == IInv /\ [Next]_vars => IInv'
<1> SUFFICES ASSUME IInv, [Next]_vars
             PROVE  IInv'
  OBVIOUS
<1>1. CASE UNCHANGED vars
  BY <1>1 DEF vars, IInv, TypeOK, OneChief, OneSub, SubIsWaitedFor, EarlyShape, MasterShape, Chief,
              Sub, Live, InServer
<1>2. ASSUME NEW p \in Proc, RunBack(p)
      PROVE  IInv'
  BY <1>2, RunBackKeeps, ForegroundKeeps DEF RunBack
<1>3. ASSUME NEW p \in Proc, ForkServer(p)
      PROVE  IInv'
  BY <1>3, ForkServerKeeps DEF ForkServer
<1>4. ASSUME NEW p \in Proc, Alone(p)
      PROVE  IInv'
  BY <1>4, AloneKeeps
<1> QED
  BY <1>1, <1>2, <1>3, <1>4 DEF Next, Step, Alone

LEMMA Invariance == Spec => []IInv
<1>1. Init => IInv
  BY InitHolds
<1>2. IInv /\ [Next]_vars => IInv'
  BY StepHolds
<1> QED
  BY <1>1, <1>2, PTL DEF Spec

\* Every process is in a known place of gr_main, and the code of the monitor runs only in
\* a process that fork has not returned 0 to.
THEOREM DaemonTypes == Spec => []TypeOK
<1>1. IInv => TypeOK
  BY DEF IInv
<1> QED
  BY <1>1, Invariance, PTL

\* Whatever crashes, fails or is signalled, in every mode: two processes never serve at a
\* time (gr_server_impl_posix.c:117, 146).
THEOREM OneServerAlways == Spec => []OneServer
<1>1. IInv => OneServer
  <2> SUFFICES ASSUME IInv, NEW p \in Proc, NEW q \in Proc, InServer(p), InServer(q)
               PROVE  p = q
    BY DEF OneServer
  <2>1. (Chief(p) \/ Sub(p)) /\ (Chief(q) \/ Sub(q))
    BY DEF InServer, Chief, Sub, Live, Over
  <2>2. ~ (Chief(p) /\ Sub(q)) /\ ~ (Chief(q) /\ Sub(p))
    BY DEF IInv, SubIsWaitedFor, InServer
  <2> QED
    BY <2>1, <2>2 DEF IInv, OneChief, OneSub
<1> QED
  BY <1>1, Invariance, PTL

\* The module's term for the master is called by the monitor alone, after its last server
\* is gone, and is not forgotten (gr_server_impl_posix.c:110, 156).
THEOREM MasterEnclosesAlways == Spec => []MasterEncloses
<1>1. IInv => MasterEncloses
  <2> SUFFICES ASSUME IInv, NEW p \in Proc
               PROVE  /\ master[p] = "termed" => pid[p] # 0 /\ Children(p) = {}
                      /\ at[p] = "ended" /\ pid[p] # 0 => master[p] # "inited"
    BY DEF MasterEncloses
  <2>1. at[p] = "ended" /\ pid[p] # 0 => master[p] # "inited"
    BY DEF IInv, MasterShape
  <2>2. ASSUME master[p] = "termed", NEW q \in Proc, Live(q)
        PROVE  parent[q] # p
    BY <2>2 DEF IInv, MasterShape, EarlyShape, Early, Proc
  <2>3. master[p] = "termed" => pid[p] # 0
    BY DEF IInv, MasterShape
  <2> QED
    BY <2>1, <2>2, <2>3 DEF Children
<1> QED
  BY <1>1, Invariance, PTL
=============================================================================
