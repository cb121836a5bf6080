--------------------------- MODULE Lifecycle_proofs ---------------------------
(***************************************************************************)
(* The safety properties of Lifecycle, for every configuration, every      *)
(* number of threads and whatever fails.                                   *)
(*                                                                         *)
(* The inductive invariant says which components are up for each place of  *)
(* the main thread (Position), which states that leaves to their threads   *)
(* (ThreadShape), how many alarms a thread has posted (AlarmShape), which  *)
(* callbacks it has made (CallShape), and whom it works with (UseShape).   *)
(***************************************************************************)
EXTENDS Lifecycle, SequenceTheorems, TLAPS

Starting == {"create", "wait", "publish"}
Stopping == {"term", "join", "free", "childterm", "done"}
Settled  == {"none", "published", "gone"}
Absent   == {"none", "gone", "dangling", "unpublished"}

AtRest(t)   == thread[t] \in {"none", "joined"}
PastInit(t) == thread[t] \notin {"none", "new", "up", "inited"}

\* One component at a time is on its way up or down: those before it are up, and those
\* after it are down.
Position ==
  /\ main.n = 0 => main.at \in {"term", "childterm", "done"}
  /\ \A c \in Comp : (\A k \in 1 .. Last : Order[k] # c) => comp[c] = "none"
  /\ \A k \in 1 .. Last : k # main.n \/ main.at \notin Starting \cup {"join", "free"}
                            => comp[Order[k]] \in Settled
  /\ main.at \in Starting => comp[Order[main.n]] = "private"
  /\ main.at = "join" => comp[Order[main.n]] \in {"closing", "failed"}
  /\ main.at = "free" => comp[Order[main.n]] \in {"dangling", "unpublished"}
  /\ \A k \in 1 .. Last :
       /\ main.at \in {"bind", "child"} => comp[Order[k]] = "none"
       /\ main.at \in Starting \cup {"alloc", "crashed"} /\ k < main.n => comp[Order[k]] = "published"
       /\ main.at \in Starting /\ k > main.n => comp[Order[k]] = "none"
       /\ main.at \in {"alloc", "crashed"} /\ k >= main.n => comp[Order[k]] = "none"
       /\ main.at \in {"listen", "serve"} => comp[Order[k]] = "published"
       /\ main.at \in {"term", "join", "free"} /\ k > main.n => comp[Order[k]] \in {"none", "gone"}
       /\ main.at \in {"childterm", "done"} => comp[Order[k]] \in {"none", "gone"}

\* The ports are open only after a start that was complete, of which the server_term
\* has not yet come to what is left.
OpenShape ==
  open => /\ main.at \in {"serve"} \cup Stopping
          /\ \A k \in 1 .. Last :
               main.at \in {"term", "join", "free"} /\ k < main.n => comp[Order[k]] = "published"
          /\ main.at = "term" /\ main.n # 0 => comp[Order[main.n]] = "published"
          /\ main.at = "join" => comp[Order[main.n]] = "closing"

\* The threads that have not been created, that have been waited for, and that have
\* been joined, by the place of the main thread.
ThreadShape ==
  /\ \A t \in Thread :
       /\ ~ Started(t[1]) \/ comp[t[1]] = "none" => thread[t] = "none"
       /\ comp[t[1]] \in Absent => AtRest(t)
       /\ comp[t[1]] = "published" /\ Started(t[1]) => PastInit(t)
  /\ main.at = "create" => Order[main.n] \in Threaded /\ main.i # 0
  /\ main.at = "wait" => Started(Order[main.n]) /\ main.i \in 1 .. Num[Order[main.n]]
  /\ \A t \in Thread : main.n # 0 /\ t[1] = Order[main.n] =>
       /\ main.at = "create" /\ t[2] >= main.i => thread[t] = "none"
       /\ main.at = "wait" /\ t[2] < main.i => PastInit(t)
       /\ main.at = "publish" /\ Started(t[1]) => PastInit(t)
       /\ main.at = "join" /\ t[2] > main.i => AtRest(t)

\* An alarm comes from a thread that has been through its init, or that is gone.
AlarmShape ==
  \A t \in Thread :
    /\ thread[t] \in {"none", "new", "up", "inited"} => sem[t] = 0
    /\ thread[t] \in {"entry", "loop", "left", "down"} => sem[t] <= 1

CallShape ==
  /\ main.at \in {"bind", "child"} => child = "none"
  /\ main.at \in Starting \cup {"alloc", "crashed", "listen", "serve", "term", "join", "free",
                                "childterm"} => child = "inited"
  /\ main.at = "done" => child # "inited"
  /\ \A w \in Threads("worker") :
       /\ called[w] # "none" => child # "none"
       /\ called[w] = "inited" => thread[w] \in {"inited", "entry", "loop"}

\* A thread that works with a component runs, and the ports have been opened.  Only
\* while the server is taken down it may find nothing there.
UseShape ==
  \A t \in Thread : using[t] # "none" =>
    /\ thread[t] = "loop" /\ open
    /\ \/ using[t] \in Uses(t[1]) /\ \E k \in 1 .. Last : Order[k] = using[t]
       \/ using[t] = "null" /\ t[1] # "worker" /\ main.at \in Stopping

IInv ==
  /\ TypeOK /\ Position /\ OpenShape /\ ThreadShape /\ AlarmShape /\ CallShape /\ UseShape
-----------------------------------------------------------------------------
(* The order of the components                                             *)

TcpOrder  == <<"accept", "in", "out", "http", "conn", "backend", "worker">>
UdpOrder  == <<"udpin", "udpout", "http", "conn", "backend", "worker">>
BothOrder == <<"accept", "in", "out", "udpin", "udpout", "http", "conn", "backend", "worker">>
BareOrder == <<"http", "conn", "backend", "worker">>

\* What the concatenations of Order come to.
LEMMA Concatenations ==
  /\ <<"accept", "in", "out">> \o <<"http", "conn", "backend", "worker">> = TcpOrder
  /\ <<"udpin", "udpout">> \o <<"http", "conn", "backend", "worker">> = UdpOrder
  /\ (<<"accept", "in", "out">> \o <<"udpin", "udpout">>)
       \o <<"http", "conn", "backend", "worker">> = BothOrder
<1> DEFINE tcp  == <<"accept", "in", "out">>
           udp  == <<"udpin", "udpout">>
           rest == <<"http", "conn", "backend", "worker">>
           ports == <<"accept", "in", "out", "udpin", "udpout">>
<1>1. /\ tcp \in Seq(Comp) /\ udp \in Seq(Comp) /\ rest \in Seq(Comp) /\ ports \in Seq(Comp)
      /\ TcpOrder \in Seq(Comp) /\ UdpOrder \in Seq(Comp) /\ BothOrder \in Seq(Comp)
  BY DEF TcpOrder, UdpOrder, BothOrder, Comp, Threaded
<1>2. ASSUME NEW s \in Seq(Comp), NEW t \in Seq(Comp), NEW u \in Seq(Comp),
             Len(u) = Len(s) + Len(t),
             \A k \in 1 .. Len(u) : u[k] = IF k <= Len(s) THEN s[k] ELSE t[k - Len(s)]
      PROVE  s \o t = u
  <2>1. s \o t \in Seq(Comp) /\ Len(s \o t) = Len(u)
        /\ \A k \in 1 .. Len(s \o t) : (s \o t)[k] = u[k]
    BY <1>2, ConcatProperties
  <2> QED
    BY <2>1, SeqEqual
<1>3. tcp \o rest = TcpOrder
  <2>1. Len(tcp) = 3 /\ Len(rest) = 4 /\ Len(TcpOrder) = Len(tcp) + Len(rest)
    BY DEF TcpOrder
  <2>2. \A k \in 1 .. 7 : TcpOrder[k] = IF k <= 3 THEN tcp[k] ELSE rest[k - 3]
    BY DEF TcpOrder
  <2> HIDE DEF tcp, udp, rest, ports
  <2>3. \A k \in 1 .. Len(TcpOrder) : TcpOrder[k] = IF k <= Len(tcp) THEN tcp[k] ELSE rest[k - Len(tcp)]
    BY <2>1, <2>2
  <2> QED
    BY <1>1, <1>2, <2>1, <2>3, Zenon
<1>4. udp \o rest = UdpOrder
  <2>1. Len(udp) = 2 /\ Len(rest) = 4 /\ Len(UdpOrder) = Len(udp) + Len(rest)
    BY DEF UdpOrder
  <2>2. \A k \in 1 .. 6 : UdpOrder[k] = IF k <= 2 THEN udp[k] ELSE rest[k - 2]
    BY DEF UdpOrder
  <2> HIDE DEF tcp, udp, rest, ports
  <2>3. \A k \in 1 .. Len(UdpOrder) : UdpOrder[k] = IF k <= Len(udp) THEN udp[k] ELSE rest[k - Len(udp)]
    BY <2>1, <2>2
  <2> QED
    BY <1>1, <1>2, <2>1, <2>3, Zenon
<1>5. tcp \o udp = ports
  <2>1. Len(tcp) = 3 /\ Len(udp) = 2 /\ Len(ports) = Len(tcp) + Len(udp)
    OBVIOUS
  <2>2. \A k \in 1 .. 5 : ports[k] = IF k <= 3 THEN tcp[k] ELSE udp[k - 3]
    OBVIOUS
  <2> HIDE DEF tcp, udp, rest, ports
  <2>3. \A k \in 1 .. Len(ports) : ports[k] = IF k <= Len(tcp) THEN tcp[k] ELSE udp[k - Len(tcp)]
    BY <2>1, <2>2
  <2> QED
    BY <1>1, <1>2, <2>1, <2>3, Zenon
<1>6. ports \o rest = BothOrder
  <2>1. Len(ports) = 5 /\ Len(rest) = 4 /\ Len(BothOrder) = Len(ports) + Len(rest)
    BY DEF BothOrder
  <2>2. \A k \in 1 .. 9 : BothOrder[k] = IF k <= 5 THEN ports[k] ELSE rest[k - 5]
    BY DEF BothOrder
  <2> HIDE DEF tcp, udp, rest, ports
  <2>3. \A k \in 1 .. Len(BothOrder) : BothOrder[k] = IF k <= Len(ports) THEN ports[k] ELSE rest[k - Len(ports)]
    BY <2>1, <2>2
  <2> QED
    BY <1>1, <1>2, <2>1, <2>3, Zenon
<1> QED
  BY <1>3, <1>4, <1>5, <1>6

\* Whatever the ports are, the components are distinct, http is among them and the
\* worker comes last.
LEMMA OrderFacts ==
  /\ Last \in Nat /\ Last >= 4
  /\ \A k \in 1 .. Last : Order[k] \in Comp
  /\ \A k, m \in 1 .. Last : Order[k] = Order[m] => k = m
  /\ Order[Last] = "worker"
  /\ \E k \in 1 .. Last : k # Last /\ Order[k] = "http"
<1>1. Order \in {TcpOrder, UdpOrder, BothOrder, BareOrder}
  <2> DEFINE rest == <<"http", "conn", "backend", "worker">>
             tcp  == <<"accept", "in", "out">>
             udp  == <<"udpin", "udpout">>
  <2>1. /\ <<>> \o udp = udp /\ tcp \o <<>> = tcp
        /\ (<<>> \o <<>>) \o rest = BareOrder
    BY ConcatEmptySeq DEF BareOrder
  <2>2. Order = ((IF "tcp" \in config.ports THEN tcp ELSE <<>>)
                   \o (IF "udp" \in config.ports THEN udp ELSE <<>>)) \o rest
    BY DEF Order
  <2>3. \/ Order = tcp \o rest \/ Order = udp \o rest
        \/ Order = (tcp \o udp) \o rest \/ Order = BareOrder
    BY <2>1, <2>2
  <2> QED
    BY <2>3, Concatenations
<1>2. CASE Order = TcpOrder
  BY <1>2 DEF Last, TcpOrder, Comp, Threaded
<1>3. CASE Order = UdpOrder
  BY <1>3 DEF Last, UdpOrder, Comp, Threaded
<1>4. CASE Order = BothOrder
  BY <1>4 DEF Last, BothOrder, Comp, Threaded
<1>5. CASE Order = BareOrder
  BY <1>5 DEF Last, BareOrder, Comp, Threaded
<1> QED
  BY <1>1, <1>2, <1>3, <1>4, <1>5

\* The configuration does not change, and the order with it.
LEMMA OrderKept ==
  ASSUME [Next]_vars
  PROVE  /\ config' = config /\ Order' = Order /\ Last' = Last
         /\ \A c : Started(c)' <=> Started(c)
<1>1. config' = config
  BY DEF Next, Main, Progress, Over, vars, others, BindPorts, ChildInit, Alloc, Create, Created,
         WaitReady, Publish, StartListen, Served, Term, Join, Free, Freed, ChildTerm, Signal,
         Up, InitRoutine, Ready, Enter, EndUse, Leave, Down, Exit, Use
<1> QED
  BY <1>1 DEF Order, Last, Started
-----------------------------------------------------------------------------
(* The steps *)

\* What the main thread has at hand.
LEMMA AtHand ==
  ASSUME IInv, main.at \notin {"term", "childterm", "done"} \/ main.n # 0
  PROVE  /\ main.n \in 1 .. Last /\ C \in Comp /\ C = Order[main.n]
         /\ \A k \in 1 .. Last : Order[k] = C <=> k = main.n
         /\ C \in Threaded => Num[C] \in Nat \ {0}
<1>1. main.n \in 1 .. Last
  BY OrderFacts DEF IInv, TypeOK, Position
<1> QED
  BY <1>1, OrderFacts, ConfigAssumption DEF C

\* A step leaves every variable in its set.
LEMMA TypeStep == IInv /\ [Next]_vars => TypeOK'
<1> SUFFICES ASSUME IInv, [Next]_vars PROVE TypeOK'
  OBVIOUS
<1> USE DEF TypeOK, threadVars, others
<1>1. /\ TypeOK /\ Last \in Nat /\ Last >= 4
      /\ config' = config /\ Last' = Last
  BY OrderFacts, OrderKept DEF IInv
<1>2. CASE BindPorts
  BY <1>1, <1>2 DEF BindPorts, Goto, At
<1>3. CASE ChildInit
  BY <1>1, <1>3 DEF ChildInit, Goto, At, Callback
<1>4. CASE Alloc
  <2>1. main.n \in 1 .. Last /\ C \in Comp
    BY <1>4, AtHand DEF Alloc
  <2> QED
    BY <1>1, <1>4, <2>1 DEF Alloc, Goto, At, CompState
<1>5. CASE Create
  <2>1. main.n \in 1 .. Last /\ C \in Comp /\ main.i # 0
    BY <1>5, AtHand DEF Create, IInv, ThreadShape
  <2>2. /\ main' \in [at : At, n : 0 .. Last, i : Nat] /\ comp' \in [Comp -> CompState]
        /\ needExit' \subseteq Thread
    BY <1>1, <1>5, <2>1 DEF Create, CloseFailed, Goto, At, CompState, Threads
  <2>3. thread' \in [Thread -> ThreadState]
    BY <1>1, <1>5, <2>1 DEF Create, ThreadState
  <2> QED
    BY <1>1, <1>5, <2>2, <2>3 DEF Create
<1>6. CASE Created
  BY <1>1, <1>6 DEF Created, Goto, At
<1>7. CASE WaitReady
  <2>1. main.n \in 1 .. Last /\ C \in Comp /\ C \in Threaded /\ Num[C] \in Nat
    BY <1>7, AtHand DEF WaitReady, IInv, ThreadShape, Started
  <2>2. /\ main' \in [at : At, n : 0 .. Last, i : Nat] /\ comp' \in [Comp -> CompState]
        /\ needExit' \subseteq Thread
    BY <1>1, <1>7, <2>1 DEF WaitReady, CloseFailed, Goto, At, CompState, Threads
  <2>3. sem' \in [Thread -> 0 .. 2]
    <3>1. sem[<<C, main.i>>] > 0 /\ sem' = [sem EXCEPT ![<<C, main.i>>] = sem[<<C, main.i>>] - 1]
      BY <1>7 DEF WaitReady
    <3>2. CASE <<C, main.i>> \in Thread
      BY <1>1, <3>1, <3>2
    <3>3. CASE <<C, main.i>> \notin Thread
      BY <1>1, <3>1, <3>3
    <3> QED
      BY <3>2, <3>3
  <2> QED
    BY <1>1, <1>7, <2>2, <2>3 DEF WaitReady
<1>8. CASE Publish
  <2>1. main.n \in 1 .. Last /\ C \in Comp
    BY <1>8, AtHand DEF Publish
  <2> QED
    BY <1>1, <1>8, <2>1 DEF Publish, Goto, At, CompState
<1>9. CASE StartListen
  <2>1. open' \in BOOLEAN
    BY <1>9, Zenon DEF StartListen
  <2> QED
    BY <1>1, <1>9, <2>1 DEF StartListen, Goto, At
<1>10. CASE Served
  BY <1>1, <1>10 DEF Served, Goto, At
<1>11. CASE Term
  <2>1. main.n # 0 => C \in Comp /\ (C \in Threaded => Num[C] \in Nat)
    BY <1>11, AtHand
  <2> QED
    BY <1>1, <1>11, <2>1 DEF Term, Goto, At, CompState, Threads
<1>12. CASE Join
  <2>1. main' \in [at : At, n : 0 .. Last, i : Nat]
    BY <1>1, <1>12 DEF Join, Goto, At
  <2>2. thread' \in [Thread -> ThreadState]
    BY <1>1, <1>12 DEF Join, ThreadState
  <2> QED
    BY <1>1, <1>12, <2>1, <2>2 DEF Join
<1>13. CASE Free
  <2>1. C \in Comp
    BY <1>13, AtHand DEF Free
  <2> QED
    BY <1>1, <1>13, <2>1 DEF Free, Goto, At, CompState
<1>14. CASE Freed
  <2>1. main.n \in 1 .. Last /\ C \in Comp
    BY <1>14, AtHand DEF Freed
  <2> QED
    BY <1>1, <1>14, <2>1 DEF Freed, Goto, At, CompState
<1>15. CASE ChildTerm
  BY <1>1, <1>15 DEF ChildTerm, Goto, At, Callback
<1>16. CASE Signal
  BY <1>1, <1>16 DEF Signal
<1>17. ASSUME NEW t \in Thread, Progress(t) \/ Use(t) PROVE TypeOK'
  <2>1. CASE Up(t)
    BY <1>1, <2>1 DEF Up, Move, ThreadState
  <2>2. CASE InitRoutine(t)
    BY <1>1, <2>2 DEF InitRoutine, Move, ThreadState, Callback
  <2>3. CASE Ready(t)
    BY <1>1, <2>3 DEF Ready, Move, Alarm, ThreadState, IInv, AlarmShape
  <2>4. CASE Enter(t)
    BY <1>1, <2>4 DEF Enter, Move, ThreadState
  <2>5. CASE EndUse(t)
    BY <1>1, <2>5 DEF EndUse
  <2>6. CASE Leave(t)
    BY <1>1, <2>6 DEF Leave, Move, ThreadState, Callback
  <2>7. CASE Down(t)
    BY <1>1, <2>7 DEF Down, Move, ThreadState
  <2>8. CASE Exit(t)
    BY <1>1, <2>8 DEF Exit, Move, Alarm, ThreadState, IInv, AlarmShape
  <2>9. CASE Use(t)
    <3>1. Uses(t[1]) \subseteq Comp
      BY DEF Uses, Comp, Threaded
    <3> QED
      BY <1>1, <2>9, <3>1 DEF Use
  <2> QED
    BY <1>17, <2>1, <2>2, <2>3, <2>4, <2>5, <2>6, <2>7, <2>8, <2>9 DEF Progress
<1>18. CASE UNCHANGED vars
  BY <1>1, <1>18 DEF vars
<1> HIDE DEF TypeOK
<1> QED
  BY <1>2, <1>3, <1>4, <1>5, <1>6, <1>7, <1>8, <1>9, <1>10, <1>11, <1>12, <1>13, <1>14,
     <1>15, <1>16, <1>17, <1>18 DEF Next, Main, Over

\* A step of a thread concerns no component and not the main thread.
LEMMA ThreadStepKeeps ==
  ASSUME NEW t \in Thread, Progress(t) \/ Use(t)
  PROVE  UNCHANGED others
BY DEF Progress, Up, InitRoutine, Ready, Enter, EndUse, Leave, Down, Exit, Use

\* The main thread takes one component after another up, and down again.
LEMMA PositionStep == IInv /\ [Next]_vars => Position'
<1> SUFFICES ASSUME IInv, [Next]_vars PROVE Position'
  OBVIOUS
<1> USE DEF Starting, Settled
<1>1. /\ Position /\ Last \in Nat /\ Last >= 4
      /\ Last' = Last /\ Order' = Order
      /\ main \in [at : At, n : 0 .. Last, i : Nat] /\ comp \in [Comp -> CompState]
      /\ \A k \in 1 .. Last : Order[k] \in Comp
      /\ \A k, m \in 1 .. Last : Order[k] = Order[m] => k = m
  BY OrderFacts, OrderKept DEF IInv, TypeOK
<1>2. CASE BindPorts
  BY <1>1, <1>2 DEF BindPorts, Goto, Position
<1>3. CASE ChildInit
  BY <1>1, <1>3 DEF ChildInit, Goto, Position
<1>4. CASE Alloc
  <2>1. main.n \in 1 .. Last /\ C = Order[main.n]
    BY <1>4, AtHand DEF Alloc
  <2> QED
    BY <1>1, <1>4, <2>1 DEF Alloc, Goto, Position
<1>5. CASE Create
  <2>1. main.n \in 1 .. Last /\ C = Order[main.n]
    BY <1>5, AtHand DEF Create
  <2> QED
    BY <1>1, <1>5, <2>1 DEF Create, CloseFailed, Goto, Position
<1>6. CASE Created
  BY <1>1, <1>6 DEF Created, Goto, Position
<1>7. CASE WaitReady
  <2>1. main.n \in 1 .. Last /\ C = Order[main.n]
    BY <1>7, AtHand DEF WaitReady
  <2> QED
    BY <1>1, <1>7, <2>1 DEF WaitReady, CloseFailed, Goto, Position
<1>8. CASE Publish
  <2>1. main.n \in 1 .. Last /\ C = Order[main.n]
    BY <1>8, AtHand DEF Publish
  <2> QED
    BY <1>1, <1>8, <2>1 DEF Publish, Goto, Position
<1>9. CASE StartListen
  BY <1>1, <1>9 DEF StartListen, Goto, Position
<1>10. CASE Served
  BY <1>1, <1>10 DEF Served, Goto, Position
<1>11. CASE Term
  <2>1. main.n # 0 => main.n \in 1 .. Last /\ C = Order[main.n]
    BY <1>11, AtHand
  <2> QED
    BY <1>1, <1>11, <2>1 DEF Term, Goto, Position
<1>12. CASE Join
  BY <1>1, <1>12 DEF Join, Goto, Position
<1>13. CASE Free
  <2>1. main.n \in 1 .. Last /\ C = Order[main.n]
    BY <1>13, AtHand DEF Free
  <2> QED
    BY <1>1, <1>13, <2>1 DEF Free, Goto, Position
<1>14. CASE Freed
  <2>1. main.n \in 1 .. Last /\ C = Order[main.n]
    BY <1>14, AtHand DEF Freed
  <2> QED
    BY <1>1, <1>14, <2>1 DEF Freed, Goto, Position
<1>15. CASE ChildTerm
  BY <1>1, <1>15 DEF ChildTerm, Goto, Position
<1>16. CASE UNCHANGED <<main, comp>>
  BY <1>1, <1>16 DEF Position
<1>17. Signal \/ (\E t \in Thread : Progress(t) \/ Use(t)) => UNCHANGED <<main, comp>>
  BY ThreadStepKeeps DEF Signal, others
<1>18. Over \/ UNCHANGED vars => UNCHANGED <<main, comp>>
  BY DEF Over, vars
<1> QED
  BY <1>2, <1>3, <1>4, <1>5, <1>6, <1>7, <1>8, <1>9, <1>10, <1>11, <1>12, <1>13, <1>14,
     <1>15, <1>16, <1>17, <1>18 DEF Next, Main

\* The ports are opened when all is up, and what is up is then taken down in order.
LEMMA OpenStep == IInv /\ [Next]_vars => OpenShape'
<1> SUFFICES ASSUME IInv, [Next]_vars PROVE OpenShape'
  OBVIOUS
<1> USE DEF Starting, Stopping, Settled
<1>1. /\ Position /\ OpenShape /\ Last \in Nat /\ Last >= 4
      /\ Last' = Last /\ Order' = Order
      /\ main \in [at : At, n : 0 .. Last, i : Nat] /\ comp \in [Comp -> CompState]
      /\ \A k \in 1 .. Last : Order[k] \in Comp
      /\ \A k, m \in 1 .. Last : Order[k] = Order[m] => k = m
  BY OrderFacts, OrderKept DEF IInv, TypeOK
<1>2. CASE BindPorts
  BY <1>1, <1>2 DEF BindPorts, OpenShape
<1>3. CASE ChildInit
  BY <1>1, <1>3 DEF ChildInit, OpenShape
<1>4. CASE Alloc
  BY <1>1, <1>4 DEF Alloc, OpenShape
<1>5. CASE Create
  BY <1>1, <1>5 DEF Create, OpenShape
<1>6. CASE Created
  BY <1>1, <1>6 DEF Created, OpenShape
<1>7. CASE WaitReady
  BY <1>1, <1>7 DEF WaitReady, OpenShape
<1>8. CASE Publish
  BY <1>1, <1>8 DEF Publish, OpenShape
<1>9. CASE StartListen
  BY <1>1, <1>9 DEF StartListen, Goto, OpenShape
<1>10. CASE Served
  BY <1>1, <1>10 DEF Served, Goto, OpenShape, Position
<1>11. CASE Term
  <2>1. main.n # 0 => main.n \in 1 .. Last /\ C = Order[main.n]
    BY <1>11, AtHand
  <2> QED
    BY <1>1, <1>11, <2>1 DEF Term, Goto, OpenShape
<1>12. CASE Join
  BY <1>1, <1>12 DEF Join, Goto, OpenShape
<1>13. CASE Free
  <2>1. main.n \in 1 .. Last /\ C = Order[main.n]
    BY <1>13, AtHand DEF Free
  <2> QED
    BY <1>1, <1>13, <2>1 DEF Free, Goto, OpenShape
<1>14. CASE Freed
  <2>1. main.n \in 1 .. Last /\ C = Order[main.n]
    BY <1>14, AtHand DEF Freed
  <2> QED
    BY <1>1, <1>14, <2>1 DEF Freed, Goto, OpenShape
<1>15. CASE ChildTerm
  BY <1>1, <1>15 DEF ChildTerm, Goto, OpenShape
<1>16. CASE UNCHANGED <<main, comp, open>>
  BY <1>1, <1>16 DEF OpenShape
<1>17. Signal \/ (\E t \in Thread : Progress(t) \/ Use(t)) => UNCHANGED <<main, comp, open>>
  BY ThreadStepKeeps DEF Signal, others
<1>18. Over \/ UNCHANGED vars => UNCHANGED <<main, comp, open>>
  BY DEF Over, vars
<1> QED
  BY <1>2, <1>3, <1>4, <1>5, <1>6, <1>7, <1>8, <1>9, <1>10, <1>11, <1>12, <1>13, <1>14,
     <1>15, <1>16, <1>17, <1>18 DEF Next, Main

\* A thread is named by its component and its number in gr_threads_t.
LEMMA ThreadIs ==
  ASSUME NEW t
  PROVE  t \in Thread <=> /\ t = <<t[1], t[2]>> /\ t[1] \in Threaded
                         /\ t[2] \in 1 .. Num[t[1]]
BY DEF Thread

\* The threads of a component are there when they have to be, and only then.
LEMMA ThreadShapeStep == IInv /\ [Next]_vars => ThreadShape'
<1> SUFFICES ASSUME IInv, [Next]_vars PROVE ThreadShape'
  OBVIOUS
<1> USE DEF Starting, Settled, Absent, AtRest, PastInit
<1>1. /\ Position /\ ThreadShape /\ AlarmShape /\ Last \in Nat /\ Last >= 4
      /\ Last' = Last /\ Order' = Order /\ (\A c : Started(c)' <=> Started(c))
      /\ main \in [at : At, n : 0 .. Last, i : Nat] /\ comp \in [Comp -> CompState]
      /\ thread \in [Thread -> ThreadState]
      /\ \A k \in 1 .. Last : Order[k] \in Comp
      /\ \A t \in Thread : t[1] \in Threaded /\ t[1] \in Comp
                         /\ t[2] \in 1 .. Num[t[1]] /\ t = <<t[1], t[2]>>
  BY OrderFacts, OrderKept, ThreadIs DEF IInv, TypeOK, Comp
<1>2. CASE BindPorts
  BY <1>1, <1>2 DEF BindPorts, threadVars, Goto, ThreadShape
<1>3. CASE ChildInit
  BY <1>1, <1>3 DEF ChildInit, threadVars, Goto, ThreadShape
<1>4. CASE Alloc
  <2>1. main.n \in 1 .. Last /\ C = Order[main.n] /\ comp[C] = "none"
    BY <1>1, <1>4, AtHand DEF Alloc, Position
  <2> QED
    BY <1>1, <1>4, <2>1 DEF Alloc, threadVars, Goto, ThreadShape
<1>5. CASE Create
  <2>1. main.n \in 1 .. Last /\ C = Order[main.n] /\ comp[C] = "private" /\ C \in Threaded
    BY <1>1, <1>5, AtHand DEF Create, Position, ThreadShape
  <2> QED
    BY <1>1, <1>5, <2>1 DEF Create, CloseFailed, Goto, ThreadShape
<1>6. CASE Created
  <2>1. main.n \in 1 .. Last /\ C = Order[main.n] /\ Num[C] \in Nat \ {0}
    BY <1>1, <1>6, AtHand DEF Created, ThreadShape
  <2> QED
    BY <1>1, <1>6, <2>1 DEF Created, threadVars, Goto, ThreadShape
<1>7. CASE WaitReady
  <2>1. /\ main.n \in 1 .. Last /\ C = Order[main.n] /\ comp[C] = "private"
        /\ Started(C) /\ C \in Threaded /\ main.i \in 1 .. Num[C] /\ Num[C] \in Nat
    BY <1>1, <1>7, AtHand DEF WaitReady, Position, ThreadShape, Started
  <2>2. <<C, main.i>> \in Thread /\ sem[<<C, main.i>>] > 0 /\ PastInit(<<C, main.i>>)
    BY <1>1, <1>7, <2>1, ThreadIs DEF WaitReady, AlarmShape
  <2> QED
    BY <1>1, <1>7, <2>1, <2>2 DEF WaitReady, CloseFailed, Goto, ThreadShape
<1>8. CASE Publish
  <2>1. main.n \in 1 .. Last /\ C = Order[main.n]
    BY <1>8, AtHand DEF Publish
  <2> QED
    BY <1>1, <1>8, <2>1 DEF Publish, threadVars, Goto, ThreadShape
<1>9. CASE StartListen
  BY <1>1, <1>9 DEF StartListen, threadVars, Goto, ThreadShape
<1>10. CASE Served
  BY <1>1, <1>10 DEF Served, threadVars, Goto, ThreadShape
<1>11. CASE Term
  <2>1. main.n # 0 => main.n \in 1 .. Last /\ C = Order[main.n]
                      /\ (C \in Threaded => Num[C] \in Nat)
    BY <1>11, AtHand
  <2> QED
    BY <1>1, <1>11, <2>1 DEF Term, threadVars, Goto, ThreadShape
<1>12. CASE Join
  <2>1. main.n \in 1 .. Last /\ C = Order[main.n] /\ comp[C] \in {"closing", "failed"}
    BY <1>1, <1>12, AtHand DEF Join, Position
  <2> QED
    BY <1>1, <1>12, <2>1 DEF Join, Goto, ThreadShape
<1>13. CASE Free
  <2>1. main.n \in 1 .. Last /\ C = Order[main.n]
    BY <1>13, AtHand DEF Free
  <2>2. \A t \in Thread : t[1] = C => AtRest(t)
    BY <1>1, <1>13, <2>1 DEF Free, ThreadShape
  <2> QED
    BY <1>1, <1>13, <2>1, <2>2 DEF Free, threadVars, Goto, ThreadShape
<1>14. CASE Freed
  <2>1. main.n \in 1 .. Last /\ C = Order[main.n] /\ comp[C] \in {"dangling", "unpublished"}
    BY <1>1, <1>14, AtHand DEF Freed, Position
  <2> QED
    BY <1>1, <1>14, <2>1 DEF Freed, threadVars, Goto, ThreadShape
<1>15. CASE ChildTerm
  BY <1>1, <1>15 DEF ChildTerm, threadVars, Goto, ThreadShape
<1>16. CASE UNCHANGED <<main, comp, thread>>
  BY <1>1, <1>16 DEF ThreadShape
<1>17. ASSUME NEW t \in Thread, Progress(t) PROVE ThreadShape'
  <2>1. UNCHANGED <<main, comp>>
    BY <1>17, ThreadStepKeeps DEF others
  <2>2. CASE UNCHANGED thread
    BY <1>16, <2>1, <2>2
  <2>3. ASSUME NEW s \in ThreadState, thread' = [thread EXCEPT ![t] = s],
               ~ AtRest(t), PastInit(t) => s \notin {"none", "new", "up", "inited"}
        PROVE  ThreadShape'
    BY <1>1, <2>1, <2>3 DEF ThreadShape
  <2> QED
    BY <1>17, <2>2, <2>3 DEF Progress, Up, InitRoutine, Ready, Enter, EndUse, Leave, Down, Exit,
       Move, ThreadState
<1>18. Signal \/ (\E t \in Thread : Use(t)) => UNCHANGED <<main, comp, thread>>
  BY DEF Signal, threadVars, Use, others
<1>19. Over \/ UNCHANGED vars => UNCHANGED <<main, comp, thread>>
  BY DEF Over, vars
<1> QED
  BY <1>2, <1>3, <1>4, <1>5, <1>6, <1>7, <1>8, <1>9, <1>10, <1>11, <1>12, <1>13, <1>14,
     <1>15, <1>16, <1>17, <1>18, <1>19 DEF Next, Main

\* An alarm is posted after the init and at the exit.
LEMMA AlarmStep == IInv /\ [Next]_vars => AlarmShape'
<1> SUFFICES ASSUME IInv, [Next]_vars PROVE AlarmShape'
  OBVIOUS
<1>1. /\ AlarmShape /\ ThreadShape /\ Position
      /\ thread \in [Thread -> ThreadState] /\ sem \in [Thread -> 0 .. 2]
  BY DEF IInv, TypeOK
<1>2. CASE UNCHANGED <<thread, sem>>
  BY <1>1, <1>2 DEF AlarmShape
<1>3. CASE Create
  <2>1. main.n # 0 /\ C = Order[main.n] /\ C \in Threaded
    BY <1>1, <1>3 DEF Create, Position, ThreadShape, C
  <2>2. <<C, main.i>> \in Thread => thread[<<C, main.i>>] = "none"
    BY <1>1, <1>3, <2>1, ThreadIs DEF Create, ThreadShape
  <2> QED
    BY <1>1, <1>3, <2>2 DEF Create, AlarmShape
<1>4. CASE WaitReady
  BY <1>1, <1>4 DEF WaitReady, AlarmShape
<1>5. CASE Join
  BY <1>1, <1>5 DEF Join, AlarmShape
<1>6. ASSUME NEW t \in Thread, Progress(t) PROVE AlarmShape'
  BY <1>1, <1>6 DEF Progress, Up, InitRoutine, Ready, Enter, EndUse, Leave, Down, Exit, Move,
     Alarm, AlarmShape
<1>7. BindPorts \/ ChildInit \/ Alloc \/ Created \/ Publish \/ StartListen \/ Served \/ Term
        \/ Free \/ Freed \/ ChildTerm \/ Signal \/ (\E t \in Thread : Use(t)) \/ Over
        \/ UNCHANGED vars
      => UNCHANGED <<thread, sem>>
  BY DEF BindPorts, ChildInit, Alloc, Created, Publish, StartListen, Served, Term, Free, Freed,
     ChildTerm, Signal, Use, Over, vars, threadVars
<1> QED
  BY <1>2, <1>3, <1>4, <1>5, <1>6, <1>7 DEF Next, Main

\* While a thread runs, its component is neither down nor about to be started, so the
\* module's init has been called.
LEMMA RunningMeansUp ==
  ASSUME IInv, NEW t \in Thread, ~ AtRest(t)
  PROVE  /\ comp[t[1]] \notin Absent
         /\ main.at \notin {"bind", "child", "childterm", "done"}
         /\ \E k \in 1 .. Last : Order[k] = t[1]
<1>1. comp[t[1]] \notin Absent /\ t[1] \in Comp
  BY ThreadIs DEF IInv, ThreadShape, Comp
<1>2. PICK k \in 1 .. Last : Order[k] = t[1]
  BY <1>1 DEF IInv, Position, Absent
<1> QED
  BY <1>1, <1>2 DEF IInv, Position, Absent

\* The module sees its callbacks in order.
LEMMA CallStep == IInv /\ [Next]_vars => CallShape'
<1> SUFFICES ASSUME IInv, [Next]_vars PROVE CallShape'
  OBVIOUS
<1> USE DEF Starting
<1>1. /\ CallShape /\ ThreadShape /\ Position
      /\ main \in [at : At, n : 0 .. Last, i : Nat]
      /\ thread \in [Thread -> ThreadState] /\ called \in [Threads("worker") -> Callback]
      /\ Threads("worker") \subseteq Thread
  BY DEF IInv, TypeOK, Threads
<1> DEFINE Nested == \A w \in Threads("worker") :
             /\ called[w] # "none" => child # "none"
             /\ called[w] = "inited" => thread[w] \in {"inited", "entry", "loop"}
<1>2. UNCHANGED <<called, thread, child>> => Nested'
  BY <1>1 DEF CallShape
<1>3. CASE BindPorts
  BY <1>1, <1>2, <1>3 DEF BindPorts, Goto, threadVars, CallShape
<1>4. CASE ChildInit
  BY <1>1, <1>4 DEF ChildInit, Goto, threadVars, CallShape
<1>5. CASE ChildTerm
  BY <1>1, <1>5 DEF ChildTerm, Goto, threadVars, CallShape
<1>6. CASE Create
  <2>1. main.n # 0 /\ C = Order[main.n] /\ C \in Threaded
    BY <1>1, <1>6 DEF Create, Position, ThreadShape, C
  <2>2. <<C, main.i>> \in Thread => thread[<<C, main.i>>] = "none"
    BY <1>1, <1>6, <2>1, ThreadIs DEF Create, ThreadShape
  <2> QED
    BY <1>1, <1>6, <2>2 DEF Create, CloseFailed, Goto, CallShape
<1>7. CASE Join
  BY <1>1, <1>7 DEF Join, Goto, CallShape
<1>8. CASE Alloc \/ Created \/ WaitReady \/ Publish \/ StartListen \/ Served \/ Term \/ Free \/ Freed
  <2>1. UNCHANGED <<called, thread, child>>
    BY <1>8 DEF Alloc, Created, WaitReady, Publish, StartListen, Served, Term, Free, Freed, threadVars
  <2>2. /\ main.at \in Starting \cup {"alloc", "listen", "serve", "term", "join", "free"}
        /\ main'.at \in Starting \cup {"alloc", "crashed", "listen", "serve", "term", "join",
                                      "free", "childterm"}
    BY <1>8 DEF Alloc, Created, WaitReady, Publish, StartListen, Served, Term, Free, Freed,
       Goto, CloseFailed
  <2> QED
    BY <1>1, <1>2, <2>1, <2>2 DEF CallShape
<1>9. ASSUME NEW t \in Thread, Progress(t) PROVE CallShape'
  <2>1. UNCHANGED <<main, child>>
    BY <1>9, ThreadStepKeeps DEF others
  <2>2. CASE InitRoutine(t)
    <3>1. child = "inited"
      BY <1>1, <2>2, RunningMeansUp DEF InitRoutine, Move, AtRest, CallShape, At
    <3> QED
      BY <1>1, <2>1, <2>2, <3>1 DEF InitRoutine, Move, CallShape
  <2>3. CASE Leave(t)
    <3>1. t[1] = "worker" <=> t \in Threads("worker")
      BY DEF Threads
    <3>2. child = "inited"
      BY <1>1, <2>3, RunningMeansUp DEF Leave, Move, AtRest, CallShape, At
    <3>3. CASE t[1] = "worker"
      BY <1>1, <2>1, <2>3, <3>1, <3>2, <3>3 DEF Leave, Move, CallShape
    <3>4. CASE t[1] # "worker"
      BY <1>1, <2>1, <2>3, <3>1, <3>2, <3>4 DEF Leave, Move, CallShape
    <3> QED
      BY <3>3, <3>4
  <2>4. CASE Enter(t)
    BY <1>1, <2>1, <2>4 DEF Enter, Move, CallShape, Threads
  <2>5. CASE Up(t) \/ Ready(t) \/ EndUse(t) \/ Down(t) \/ Exit(t)
    BY <1>1, <2>1, <2>5 DEF Up, Ready, EndUse, Down, Exit, Move, CallShape
  <2> QED
    BY <1>9, <2>2, <2>3, <2>4, <2>5 DEF Progress
<1>10. CASE UNCHANGED <<main, called, thread, child>>
  BY <1>1, <1>10 DEF CallShape
<1>11. Signal \/ (\E t \in Thread : Use(t)) \/ Over \/ UNCHANGED vars
       => UNCHANGED <<main, called, thread, child>>
  BY DEF Signal, Use, others, Over, vars, threadVars
<1> QED
  BY <1>3, <1>4, <1>5, <1>6, <1>7, <1>8, <1>9, <1>10, <1>11 DEF Next, Main

\* What a thread finds up while it runs and the ports are open: everything before the
\* component that is being taken down, hence before its own.
LEMMA FindsUp ==
  ASSUME IInv, NEW t \in Thread, thread[t] = "loop", open
  PROVE  /\ main.at = "serve" => \A k \in 1 .. Last : comp[Order[k]] = "published"
         /\ t[1] = "worker" => /\ main.at \in {"serve", "term", "join", "free"}
                               /\ \A k \in 1 .. Last : k # Last => comp[Order[k]] = "published"
<1>1. /\ comp[t[1]] \notin Absent /\ main.at \notin {"childterm", "done"}
  BY RunningMeansUp DEF AtRest
<1>2. main.at = "serve" => \A k \in 1 .. Last : comp[Order[k]] = "published"
  BY DEF IInv, Position
<1>3. main.at \in {"serve", "term", "join", "free"}
  BY <1>1 DEF IInv, OpenShape, Stopping
<1>4. ASSUME t[1] = "worker", main.at \in {"term", "join", "free"}
      PROVE  main.n = Last
  <2>1. /\ Order[Last] = "worker" /\ comp[Order[Last]] \notin {"none", "gone"}
        /\ Last \in Nat /\ Last >= 4 /\ main.n \in 0 .. Last
    BY <1>1, <1>4, OrderFacts DEF Absent, IInv, TypeOK
  <2> QED
    BY <1>4, <2>1 DEF IInv, Position
<1>5. ASSUME t[1] = "worker", main.at \in {"term", "join", "free"},
             NEW k \in 1 .. Last, k # Last
      PROVE  comp[Order[k]] = "published"
  BY <1>4, <1>5, OrderFacts DEF IInv, OpenShape
<1> QED
  BY <1>2, <1>3, <1>5

\* A thread finds what it uses, as long as it is not taken down itself.
LEMMA UseStep == IInv /\ [Next]_vars => UseShape'
<1> SUFFICES ASSUME IInv, [Next]_vars PROVE UseShape'
  OBVIOUS
<1>1. /\ UseShape /\ Position /\ OpenShape /\ ThreadShape
      /\ Last' = Last /\ Order' = Order /\ (\A c : Uses(c)' = Uses(c))
      /\ main \in [at : At, n : 0 .. Last, i : Nat] /\ comp \in [Comp -> CompState]
      /\ thread \in [Thread -> ThreadState]
      /\ using \in [Thread -> Comp \cup {"none", "null"}]
  BY OrderKept DEF IInv, TypeOK, Uses
<1>2. CASE UNCHANGED <<using, thread, open>> /\ (main.at \in Stopping => main'.at \in Stopping)
  BY <1>1, <1>2 DEF UseShape
<1>3. CASE Create
  BY <1>1, <1>3 DEF Create, UseShape, OpenShape, Stopping
<1>4. CASE StartListen
  BY <1>1, <1>4 DEF StartListen, threadVars, UseShape, OpenShape, Stopping
<1>5. CASE Join
  BY <1>1, <1>5 DEF Join, Goto, UseShape, Stopping
<1>6. ASSUME NEW t \in Thread, Progress(t) PROVE UseShape'
  <2>1. UNCHANGED <<main, open>>
    BY <1>6, ThreadStepKeeps DEF others
  <2>2. using' = using \/ using' = [using EXCEPT ![t] = "none"]
    BY <1>6 DEF Progress, Up, InitRoutine, Ready, Enter, EndUse, Leave, Down, Exit
  <2>3. \A u \in Thread : using'[u] # "none" => thread'[u] = thread[u]
    BY <1>1, <1>6 DEF Progress, Up, InitRoutine, Ready, Enter, EndUse, Leave, Down, Exit, Move,
       UseShape
  <2> QED
    BY <1>1, <2>1, <2>2, <2>3 DEF UseShape
<1>7. ASSUME NEW t \in Thread, Use(t) PROVE UseShape'
  <2>1. UNCHANGED <<main, comp, thread, open>> /\ thread[t] = "loop" /\ open
    BY <1>7 DEF Use, others
  <2>2. PICK c \in Uses(t[1]) :
          \/ GlobalIsSet(c) /\ using' = [using EXCEPT ![t] = c]
          \/ ~ GlobalIsSet(c) /\ c \notin Checked /\ using' = [using EXCEPT ![t] = "null"]
    BY <1>7 DEF Use
  <2>3. c \in Comp
    BY <2>2 DEF Uses, Comp, Threaded
  <2>4. CASE GlobalIsSet(c)
    <3>1. \E k \in 1 .. Last : Order[k] = c
      BY <1>1, <2>3, <2>4 DEF Position, GlobalIsSet
    <3> QED
      BY <1>1, <2>1, <2>2, <2>4, <3>1 DEF UseShape
  <2>5. CASE ~ GlobalIsSet(c)
    <3>1. /\ c \in {"http", "worker"} /\ c \notin Checked
          /\ using' = [using EXCEPT ![t] = "null"]
          /\ t[1] = "worker" => c = "http"
      BY <2>2, <2>5 DEF Uses, Checked
    <3>2. PICK k \in 1 .. Last : Order[k] = c /\ (c = "http" => k # Last)
      BY <3>1, OrderFacts
    <3>3. comp[Order[k]] # "published"
      BY <3>2, <2>5 DEF GlobalIsSet
    <3>4. t[1] # "worker" /\ main.at # "serve"
      BY <2>1, <3>1, <3>2, <3>3, FindsUp
    <3>5. main.at \in Stopping
      BY <1>1, <2>1, <3>4 DEF OpenShape
    <3> QED
      BY <1>1, <2>1, <3>1, <3>4, <3>5 DEF UseShape
  <2> QED
    BY <2>4, <2>5
<1>8. BindPorts \/ ChildInit \/ Alloc \/ Created \/ WaitReady \/ Publish \/ Served \/ Term
        \/ Free \/ Freed \/ ChildTerm \/ Signal \/ Over \/ UNCHANGED vars
      => UNCHANGED <<using, thread, open>> /\ (main.at \in Stopping => main'.at \in Stopping)
  BY DEF BindPorts, ChildInit, Alloc, Created, WaitReady, Publish, Served, Term, Free, Freed,
     ChildTerm, Signal, Over, vars, threadVars, Goto, Stopping
<1> QED
  BY <1>2, <1>3, <1>4, <1>5, <1>6, <1>7, <1>8 DEF Next, Main

-----------------------------------------------------------------------------
(* The theorems                                                            *)

\* A process that is being started has nothing yet.
LEMMA InitShape == Init => IInv
<1> SUFFICES ASSUME Init PROVE IInv
  OBVIOUS
<1> USE DEF Init
<1>1. Last \in Nat /\ Last >= 4 /\ \A k \in 1 .. Last : Order[k] \in Comp
  BY OrderFacts
<1>2. TypeOK
  <2>1. open \in BOOLEAN /\ stopping \in BOOLEAN
    BY Zenon
  <2>2. config \in Configs /\ main \in [at : At, n : 0 .. Last, i : Nat]
    BY <1>1 DEF At
  <2>3. /\ comp \in [Comp -> CompState] /\ thread \in [Thread -> ThreadState]
        /\ sem \in [Thread -> 0 .. 2] /\ needExit \subseteq Thread
    BY DEF CompState, ThreadState
  <2>4. /\ using \in [Thread -> Comp \cup {"none", "null"}] /\ child \in Callback
        /\ called \in [Threads("worker") -> Callback]
    BY DEF Callback
  <2> QED
    BY <2>1, <2>2, <2>3, <2>4 DEF TypeOK
<1>3. Position
  BY <1>1 DEF Position, Starting, Settled
<1>4. ThreadShape
  BY ThreadIs DEF ThreadShape, AtRest, Absent, Comp
<1>5. OpenShape /\ AlarmShape /\ CallShape /\ UseShape
  BY DEF OpenShape, AlarmShape, CallShape, UseShape, Starting, Threads
<1> QED
  BY <1>2, <1>3, <1>4, <1>5 DEF IInv

LEMMA IInvHolds == Spec => []IInv
<1>1. IInv /\ [Next]_vars => IInv'
  BY TypeStep, PositionStep, OpenStep, ThreadShapeStep, AlarmStep, CallStep, UseStep DEF IInv
<1> QED
  BY InitShape, <1>1, PTL DEF Spec

\* Every variable stays in its set, and gr_thread_t.event counts two alarms at most.
THEOREM LifecycleType == Spec => []TypeOK
<1>1. IInv => TypeOK
  BY DEF IInv
<1> QED
  BY IInvHolds, <1>1, PTL

\* gr_thread_runtine never reads thread->param of a component that has been freed, however
\* far its start came.
THEOREM ObjectsOutlive == Spec => []ObjectOutlivesThreads
<1>1. IInv => ObjectOutlivesThreads
  <2> SUFFICES ASSUME IInv, NEW t \in Thread, Alive(t)
               PROVE  comp[t[1]] \in {"private", "failed", "published", "closing"}
    BY DEF ObjectOutlivesThreads
  <2> QED
    BY RunningMeansUp, ThreadIs DEF IInv, TypeOK, CompState, Absent, AtRest, Alive, Comp
<1> QED
  BY IInvHolds, <1>1, PTL

\* start_listen is reached only when every thread has posted that it is ready.
THEOREM ListensWhenReady == Spec => []ReadyBeforeListening
<1>1. IInv => ReadyBeforeListening
  BY DEF IInv, Position, ThreadShape, ReadyBeforeListening, PastInit
<1> QED
  BY IInvHolds, <1>1, PTL

\* gr_module_child_init and gr_module_child_term enclose what the workers call.
THEOREM ChildEnclosesWorkers == Spec => []CallbacksNest
<1>1. IInv => CallbacksNest
  <2> SUFFICES ASSUME IInv PROVE CallbacksNest
    OBVIOUS
  <2>1. ASSUME NEW w \in Threads("worker"), child = "termed" PROVE called[w] # "inited"
    <3>1. main.at = "done"
      BY <2>1 DEF IInv, TypeOK, CallShape, Starting, At
    <3>2. w \in Thread
      BY DEF Threads
    <3> QED
      BY <3>1, <3>2, RunningMeansUp DEF IInv, CallShape, AtRest
  <2> QED
    BY <2>1 DEF IInv, CallShape, CallbacksNest
<1> QED
  BY IInvHolds, <1>1, PTL

\* gr_server_term takes the worker down first: its threads find all they use, to the end.
THEOREM WorkersFindTheirs == Spec => []UsesAreSafe
<1>1. IInv => UsesAreSafe
  <2> SUFFICES ASSUME IInv, NEW t \in Thread, using[t] # "none"
               PROVE  \/ using[t] \in Comp /\ comp[using[t]] = "published"
                      \/ t[1] # "worker" /\ main.at \in Stopping
    BY DEF UsesAreSafe, Stopping
  <2>1. /\ thread[t] = "loop" /\ open
        /\ \/ using[t] \in Uses(t[1]) /\ \E k \in 1 .. Last : Order[k] = using[t]
           \/ using[t] = "null" /\ t[1] # "worker" /\ main.at \in Stopping
    BY DEF IInv, UseShape
  <2>2. ASSUME using[t] \in Uses(t[1]), NEW k \in 1 .. Last, Order[k] = using[t],
               t[1] = "worker" \/ main.at = "serve"
        PROVE  using[t] \in Comp /\ comp[using[t]] = "published"
    <3>1. t[1] = "worker" => k # Last
      BY <2>2, OrderFacts DEF Uses
    <3> QED
      BY <2>1, <2>2, <3>1, FindsUp, OrderFacts
  <2>3. main.at = "serve" \/ main.at \in Stopping
    BY <2>1 DEF IInv, OpenShape
  <2> QED
    BY <2>1, <2>2, <2>3
<1> QED
  BY IInvHolds, <1>1, PTL

\* server_run returns with everything freed and every thread joined.
THEOREM EndsWithNothing == Spec => []NothingLeft
<1>1. IInv => NothingLeft
  <2> SUFFICES ASSUME IInv, main.at = "done" PROVE NothingLeft
    BY DEF NothingLeft
  <2>1. \A c \in Comp : comp[c] \in {"none", "gone"}
    BY DEF IInv, Position
  <2>2. \A t \in Thread : thread[t] \in {"none", "joined"}
    BY RunningMeansUp DEF AtRest
  <2> QED
    BY <2>1, <2>2 DEF NothingLeft
<1> QED
  BY IInvHolds, <1>1, PTL
=============================================================================
