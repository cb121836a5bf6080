------------------------- MODULE WorkerSlots_proofs -------------------------
(***************************************************************************)
(* Proofs about WorkerSlots for any number of threads and connections: as  *)
(* long as connections that use one slot are received by one thread, no    *)
(* request is shared or lost, and every client gets its own answers.       *)
(***************************************************************************)
EXTENDS WorkerSlots, FiniteSetTheorems, WellFoundedInduction, TLAPS

Working(t) == at[t] \in {"recv", "proc", "send", "free", "link"}

\* All units of s come from connection f.
From(f, s) == \A i \in 1..Len(s) : s[i] = f

\* No connection has request r and no thread works with it.
Unused(r) ==
  /\ \A f \in Fds : connReq[f] # r
  /\ \A t \in Threads : Working(t) => hold[t] # r

\* A request that waits in a list.
Idle(r) == r \in Request /\ r <= fresh /\ r \notin released /\ Unused(r)

MemoryShape ==
  /\ \A r \in Request : r <= fresh => parent[r] \in Fds
  /\ \A r \in Request : ~(r <= fresh) => buf[r] = <<>> /\ r \notin released

\* A connection's request names it, and holds nothing of another one.
ConnShape ==
  \A f \in Fds : connReq[f] # NULL =>
    /\ connReq[f] <= fresh
    /\ connReq[f] \notin released
    /\ parent[connReq[f]] = f
    /\ From(f, buf[connReq[f]])

ThreadShape ==
  \A t \in Threads : at[t] # "idle" => on[t] \in Fds /\ Thread(on[t]) = t

AllocShape ==
  \A t \in Threads :
    /\ at[t] \in {"alloc", "unlink"} => connReq[on[t]] = NULL
    /\ at[t] = "unlink" => hold[t] # NULL /\ hold[t] = pool[Slot(on[t])]

\* So does the request a thread works with, which stays with the connection
\* until it is processed.
AtWork(t) ==
  /\ hold[t] \in Request /\ hold[t] <= fresh /\ hold[t] \notin released
  /\ parent[hold[t]] = on[t]
  /\ at[t] \in {"recv", "proc"} <=> connReq[on[t]] = hold[t]
  /\ From(on[t], buf[hold[t]])
  /\ at[t] = "send" => From(on[t], ctxt[Slot(on[t])])
  /\ at[t] = "link" => buf[hold[t]] = <<>> /\ link[hold[t]] = pool[Slot(on[t])]

WorkShape == \A t \in Threads : Working(t) => AtWork(t)

\* The lists: what they start with and what follows is idle, empty, was last
\* used with the same slot, and is followed to from one place only.
PoolShape ==
  /\ \A s \in Slots : pool[s] # NULL => Idle(pool[s]) /\ Slot(parent[pool[s]]) = s
  /\ \A r \in Request : Idle(r) =>
       /\ buf[r] = <<>>
       /\ link[r] # NULL => /\ Idle(link[r])
                            /\ Slot(parent[link[r]]) = Slot(parent[r])
                            /\ \A s \in Slots : pool[s] # link[r]
  /\ \A q, r \in Request :
       Idle(q) /\ Idle(r) /\ link[q] = link[r] /\ link[q] # NULL => q = r

GotShape == \A f \in Fds : From(f, got[f])

\* What a step does that leaves every list as it is.
SameLists ==
  /\ pool' = pool
  /\ \A q \in Request : Idle(q)' <=> Idle(q)
  /\ \A q \in Request : Idle(q) => link'[q] = link[q] /\ parent'[q] = parent[q]

Shape ==
  /\ TypeOK /\ MemoryShape /\ ConnShape /\ ThreadShape /\ AllocShape
  /\ WorkShape /\ PoolShape /\ GotShape

-----------------------------------------------------------------------------
(* Type correctness.                                                       *)

\* What the step of a thread that receives for one of the connections keeps.
LEMMA HomeSlot ==
  ASSUME NEW f \in Fds
  PROVE  Slot(f) \in Slots /\ Thread(f) \in Threads
BY DEF Slots, Threads

LEMMA FromAppend ==
  ASSUME NEW f \in Fds, NEW s \in Seq(Fds)
  PROVE  /\ Append(s, f) \in Seq(Fds)
         /\ From(f, s) => From(f, Append(s, f))
BY DEF From

LEMMA FromConcat ==
  ASSUME NEW f \in Fds, NEW s \in Seq(Fds), NEW u \in Seq(Fds)
  PROVE  /\ s \o u \in Seq(Fds)
         /\ From(f, s) /\ From(f, u) => From(f, s \o u)
BY DEF From

\* Every step keeps the types of all variables.
LEMMA TypeStep == Shape /\ [Next]_vars => TypeOK'
<1> SUFFICES ASSUME Shape, [Next]_vars PROVE TypeOK'
  OBVIOUS
<1> USE WorkerSlotsAssumption, HomeSlot DEF Shape, TypeOK, Request, NULL, slotVars, reqVars, threadVars
<1>1. ASSUME NEW f \in Fds, Event(f) PROVE TypeOK'
  BY <1>1 DEF Event
<1>2. ASSUME NEW f \in Fds, Close(f) PROVE TypeOK'
  BY <1>2 DEF Close
<1>3. ASSUME NEW t \in Threads, Step(t) PROVE TypeOK'
  <2> at[t] # "idle"
    BY <1>3 DEF Step, AllocNew, AllocTake, AllocUnlink, Recv, Process, Send, FreeReset, FreeLink
  <2> on[t] \in Fds
    BY DEF ThreadShape
  <2> Working(t) => hold[t] \in Request /\ parent[hold[t]] \in Fds
    BY DEF WorkShape, AtWork
  <2>1. CASE AllocNew(t)
    <3>1. fresh + 1 \in Request /\ fresh' \in 0 .. MaxReq
      BY <2>1 DEF AllocNew
    <3> QED
      BY <2>1, <3>1 DEF AllocNew, Give
  <2>2. CASE AllocTake(t)
    BY <2>2 DEF AllocTake
  <2>3. CASE AllocUnlink(t)
    <3> hold[t] \in Request
      BY <2>3 DEF AllocUnlink, AllocShape
    <3> QED
      BY <2>3 DEF AllocUnlink, Give
  <2>4. CASE Recv(t)
    <3> Append(buf[hold[t]], on[t]) \in Seq(Fds)
      BY <2>4, FromAppend DEF Recv, Working
    <3> QED
      BY <2>4 DEF Recv, Working
  <2>5. CASE Process(t)
    BY <2>5 DEF Process, Working
  <2>6. CASE Send(t)
    <3> hold[t] \in Request /\ parent[hold[t]] \in Fds
      BY <2>6 DEF Send, Working
    <3> <<>> \in Seq(Fds)
      OBVIOUS
    <3> Slot(parent[hold[t]]) \in Slots
      BY HomeSlot
    <3> got[parent[hold[t]]] \o ctxt[Slot(parent[hold[t]])] \in Seq(Fds)
      BY <2>6, FromConcat DEF Send, Working
    <3> QED
      BY <2>6 DEF Send, Working
  <2>7. CASE FreeReset(t)
    <3> hold[t] \in Request /\ parent[hold[t]] \in Fds
      BY <2>7 DEF FreeReset, Working
    <3> pool[Slot(parent[hold[t]])] \in Request \cup {NULL}
      BY HomeSlot
    <3> <<>> \in Seq(Fds)
      OBVIOUS
    <3> QED
      BY <2>7 DEF FreeReset
  <2>8. CASE FreeLink(t)
    BY <2>8 DEF FreeLink, Working
  <2> QED
    BY <1>3, <2>1, <2>2, <2>3, <2>4, <2>5, <2>6, <2>7, <2>8 DEF Step
<1>4. CASE UNCHANGED vars
  BY <1>4 DEF vars
<1> QED
  BY <1>1, <1>2, <1>3, <1>4 DEF Next

-----------------------------------------------------------------------------
(* The steps of a thread that is alone with its slot.                      *)

\* Two threads that are both at work use two slots, for two connections, with
\* two requests.
LEMMA Apart ==
  ASSUME Separate, Shape, NEW t \in Threads, NEW u \in Threads, t # u,
         at[t] # "idle", at[u] # "idle"
  PROVE  /\ Slot(on[t]) # Slot(on[u])
         /\ on[t] # on[u]
         /\ Working(t) /\ Working(u) => hold[t] # hold[u]
BY DEF Separate, Shape, ThreadShape, WorkShape, AtWork

\* The lists are untouched, and so is what waits in them.
LEMMA PoolKept ==
  ASSUME TypeOK, PoolShape, UNCHANGED <<pool, link>>,
         \A r \in Request : Idle(r)' <=> Idle(r),
         \A r \in Request : Idle(r) => parent'[r] = parent[r] /\ buf'[r] = buf[r]
  PROVE  PoolShape'
<1>1. ASSUME NEW s \in Slots, pool'[s] # NULL
      PROVE  Idle(pool[s])' /\ Slot(parent'[pool'[s]]) = s
  <2>1. pool[s] \in Request /\ Idle(pool[s]) /\ Slot(parent[pool[s]]) = s /\ pool'[s] = pool[s]
    BY <1>1 DEF PoolShape, TypeOK
  <2>2. ASSUME NEW r \in Request, r = pool[s] PROVE Idle(pool[s])'
    BY <2>1, <2>2
  <2> QED
    BY <2>1, <2>2
<1>2. ASSUME NEW r \in Request, Idle(r)'
      PROVE  /\ buf'[r] = <<>>
             /\ link'[r] # NULL => /\ Idle(link[r])'
                                   /\ Slot(parent'[link'[r]]) = Slot(parent'[r])
                                   /\ \A s \in Slots : pool'[s] # link'[r]
  <2>1. Idle(r) /\ buf[r] = <<>> /\ buf'[r] = buf[r] /\ parent'[r] = parent[r]
    BY <1>2 DEF PoolShape
  <2>2. ASSUME link'[r] # NULL
        PROVE  /\ Idle(link[r])'
               /\ Slot(parent'[link'[r]]) = Slot(parent'[r])
               /\ \A s \in Slots : pool'[s] # link'[r]
    <3>1. /\ link[r] \in Request /\ Idle(link[r]) /\ Slot(parent[link[r]]) = Slot(parent[r])
          /\ \A s \in Slots : pool[s] # link[r]
      BY <2>1, <2>2 DEF PoolShape, TypeOK
    <3>2. ASSUME NEW q \in Request, q = link[r] PROVE Idle(link[r])'
      BY <3>1, <3>2
    <3> QED
      BY <2>1, <3>1, <3>2
  <2> QED
    BY <2>1, <2>2
<1>3. \A q, r \in Request :
        Idle(q)' /\ Idle(r)' /\ link'[q] = link'[r] /\ link'[q] # NULL => q = r
  BY DEF PoolShape
<1> QED
  BY <1>1, <1>2, <1>3 DEF PoolShape

LEMMA EventShape ==
  ASSUME Shape, NEW f \in Fds, Event(f), TypeOK'
  PROVE  Shape' /\ SameLists
<1> USE DEF Shape
<1> DEFINE t == Thread(f)
<1> t \in Threads
  BY HomeSlot
<1> USE DEF slotVars, reqVars, Request, NULL
<1>1. /\ at[t] = "idle" /\ on' = [on EXCEPT ![t] = f]
      /\ hold' = [hold EXCEPT ![t] = connReq[f]]
      /\ at' = [at EXCEPT ![t] = IF connReq[f] = NULL THEN "alloc" ELSE "recv"]
      /\ UNCHANGED <<pool, ctxt, link, parent, buf, fresh, released, connReq, got>>
  BY DEF Event
<1>2. /\ at'[t] = (IF connReq[f] = NULL THEN "alloc" ELSE "recv")
      /\ on'[t] = f /\ hold'[t] = connReq[f]
      /\ \A u \in Threads : u # t => at'[u] = at[u] /\ on'[u] = on[u] /\ hold'[u] = hold[u]
  BY <1>1 DEF TypeOK
<1> HIDE DEF t
<1>3. MemoryShape' /\ ConnShape' /\ GotShape'
  BY <1>1 DEF MemoryShape, ConnShape, GotShape, From
<1>4. ThreadShape'
  BY <1>2 DEF ThreadShape, t
<1>5. AllocShape'
  BY <1>1, <1>2 DEF AllocShape
<1>6. WorkShape'
  <2> SUFFICES ASSUME NEW u \in Threads, Working(u)'
               PROVE AtWork(u)'
    BY DEF WorkShape
  <2>1. CASE u = t
    <3>1. at'[t] = "recv" /\ on'[t] = f /\ hold'[t] = connReq[f] /\ connReq[f] # NULL
      BY <2>1, <1>2 DEF Working
    <3>2. /\ connReq[f] \in Request /\ connReq[f] <= fresh /\ connReq[f] \notin released
          /\ parent[connReq[f]] = f /\ From(f, buf[connReq[f]])
      BY <3>1 DEF ConnShape, TypeOK
    <3> QED
      BY <2>1, <3>1, <3>2, <1>1 DEF AtWork, From
  <2>2. CASE u # t
    <3>1. Working(u) /\ AtWork(u)
      BY <2>2, <1>2 DEF WorkShape, Working
    <3> QED
      BY <2>2, <3>1, <1>1, <1>2 DEF AtWork, From
  <2> QED
    BY <2>1, <2>2
<1>7. \A r \in Request : Idle(r)' <=> Idle(r)
  BY <1>1, <1>2 DEF Idle, Unused, Working
<1>8. PoolShape'
  BY <1>1, <1>7, PoolKept
<1>9. SameLists
  BY <1>1, <1>7 DEF SameLists
<1> QED
  BY <1>3, <1>4, <1>5, <1>6, <1>8, <1>9

LEMMA CloseShape ==
  ASSUME Shape, NEW f \in Fds, Close(f), TypeOK'
  PROVE  Shape' /\ SameLists
<1> USE DEF Shape, slotVars, reqVars, threadVars, Request, NULL
<1>1. /\ at[Thread(f)] = "idle" /\ connReq[f] # NULL
      /\ released' = released \cup {connReq[f]}
      /\ connReq' = [connReq EXCEPT ![f] = NULL]
      /\ UNCHANGED <<pool, ctxt, link, parent, buf, fresh, at, on, hold, got>>
  BY DEF Close
<1>2. connReq'[f] = NULL /\ \A g \in Fds : g # f => connReq'[g] = connReq[g]
  BY <1>1 DEF TypeOK
<1>3. /\ connReq[f] \in Request /\ connReq[f] <= fresh /\ parent[connReq[f]] = f
      /\ \A g \in Fds : g # f => connReq[g] # connReq[f]
  BY <1>1 DEF ConnShape, TypeOK
<1>4. \A u \in Threads : at[u] # "idle" => on[u] # f /\ on[u] \in Fds
  BY <1>1 DEF ThreadShape
<1>5. MemoryShape' /\ ConnShape' /\ GotShape'
  BY <1>1, <1>2, <1>3 DEF MemoryShape, ConnShape, GotShape, From, TypeOK
<1>6. ThreadShape' /\ AllocShape'
  BY <1>1, <1>2, <1>4 DEF ThreadShape, AllocShape
<1>7. WorkShape'
  <2> SUFFICES ASSUME NEW u \in Threads, Working(u)'
               PROVE AtWork(u)'
    BY DEF WorkShape
  <2>1. Working(u) /\ AtWork(u) /\ at[u] # "idle"
    BY <1>1 DEF WorkShape, Working
  <2>2. hold[u] # connReq[f]
    BY <2>1, <1>3, <1>4 DEF AtWork
  <2> QED
    BY <2>1, <2>2, <1>1, <1>2, <1>4 DEF AtWork, From
<1>8. \A r \in Request : Idle(r)' <=> Idle(r)
  <2> SUFFICES ASSUME NEW r \in Request PROVE Idle(r)' <=> Idle(r)
    OBVIOUS
  <2>1. CASE r = connReq[f]
    BY <2>1, <1>1 DEF Idle, Unused
  <2>2. CASE r # connReq[f]
    BY <2>2, <1>1, <1>2 DEF Idle, Unused, Working
  <2> QED
    BY <2>1, <2>2
<1>9. PoolShape'
  BY <1>1, <1>8, PoolKept
<1>10. SameLists
  BY <1>1, <1>8 DEF SameLists
<1> QED
  BY <1>5, <1>6, <1>7, <1>9, <1>10

LEMMA AllocNewShape ==
  ASSUME Shape, NEW t \in Threads, AllocNew(t), TypeOK'
  PROVE  Shape' /\ SameLists
<1> USE WorkerSlotsAssumption DEF Shape, slotVars, reqVars, Request, NULL
<1> DEFINE f == on[t]
           r == fresh + 1
<1>1. /\ at[t] = "alloc" /\ fresh < MaxReq /\ fresh' = fresh + 1
      /\ connReq' = [connReq EXCEPT ![f] = r]
      /\ parent' = [parent EXCEPT ![r] = f]
      /\ hold' = [hold EXCEPT ![t] = r]
      /\ at' = [at EXCEPT ![t] = "recv"]
      /\ UNCHANGED <<pool, ctxt, link, buf, released, on, got>>
  BY DEF AllocNew, Give
<1>2. f \in Fds /\ Thread(f) = t /\ connReq[f] = NULL
  BY <1>1 DEF ThreadShape, AllocShape
<1>3. r \in Request /\ ~(r <= fresh) /\ buf[r] = <<>> /\ r \notin released
  BY <1>1 DEF TypeOK, MemoryShape
<1> HIDE DEF f, r
<1>4. /\ at'[t] = "recv" /\ hold'[t] = r /\ parent'[r] = f /\ connReq'[f] = r
      /\ \A u \in Threads : u # t => at'[u] = at[u] /\ hold'[u] = hold[u]
      /\ \A q \in Request : q # r => parent'[q] = parent[q]
      /\ \A g \in Fds : g # f => connReq'[g] = connReq[g]
  BY <1>1, <1>2, <1>3 DEF TypeOK
<1>5. \A q \in Request : (q <= fresh') <=> (q <= fresh \/ q = r)
  <2>1. fresh \in Nat /\ fresh' = fresh + 1 /\ r = fresh + 1
    BY <1>1 DEF r, TypeOK
  <2> HIDE DEF Shape
  <2> QED
    BY <2>1
<1>6. MemoryShape' /\ GotShape'
  <2>1. \A q \in Request : q <= fresh' => parent'[q] \in Fds
    BY <1>2, <1>4, <1>5 DEF MemoryShape
  <2>2. \A q \in Request : ~(q <= fresh') => buf'[q] = <<>> /\ q \notin released'
    BY <1>1, <1>5 DEF MemoryShape
  <2> QED
    BY <2>1, <2>2, <1>1 DEF MemoryShape, GotShape, From
<1>7. ConnShape'
  <2> SUFFICES ASSUME NEW g \in Fds, connReq'[g] # NULL
               PROVE  /\ connReq'[g] <= fresh'
                      /\ connReq'[g] \notin released'
                      /\ parent'[connReq'[g]] = g
                      /\ From(g, buf'[connReq'[g]])
    BY DEF ConnShape, From
  <2>1. CASE g = f
    BY <2>1, <1>1, <1>3, <1>4, <1>5 DEF From
  <2>2. CASE g # f
    <3>1. connReq'[g] = connReq[g] /\ connReq[g] \in Request /\ connReq[g] <= fresh
      BY <2>2, <1>4 DEF ConnShape, TypeOK
    <3> QED
      BY <3>1, <1>1, <1>3, <1>4, <1>5 DEF ConnShape
  <2> QED
    BY <2>1, <2>2
<1>8. ThreadShape' /\ AllocShape'
  BY <1>1, <1>2, <1>4, f = on[t] DEF ThreadShape, AllocShape, f
<1>9. WorkShape'
  <2> SUFFICES ASSUME NEW u \in Threads, Working(u)'
               PROVE AtWork(u)'
    BY DEF WorkShape
  <2>1. CASE u = t
    BY <2>1, <1>1, <1>3, <1>4, <1>5 DEF AtWork, From, f
  <2>2. CASE u # t
    <3>1. Working(u) /\ AtWork(u)
      BY <2>2, <1>4 DEF WorkShape, Working
    <3>2. hold[u] # r /\ on[u] # f
      BY <3>1, <1>2, <1>3, <2>2 DEF AtWork, Working, ThreadShape
    <3>3. on[u] \in Fds
      BY <3>1 DEF ThreadShape, Working
    <3> QED
      BY <2>2, <3>1, <3>2, <3>3, <1>1, <1>4, <1>5 DEF AtWork, From
  <2> QED
    BY <2>1, <2>2
<1>10. \A q \in Request : Idle(q)' <=> Idle(q)
  <2> SUFFICES ASSUME NEW q \in Request PROVE Idle(q)' <=> Idle(q)
    OBVIOUS
  <2>1. CASE q = r
    BY <2>1, <1>2, <1>3, <1>4 DEF Idle, Unused
  <2>2. CASE q # r
    BY <2>2, <1>1, <1>2, <1>4, <1>5 DEF Idle, Unused, Working
  <2> QED
    BY <2>1, <2>2
<1>11. \A q \in Request : Idle(q) => parent'[q] = parent[q]
  BY <1>3, <1>4 DEF Idle
<1>12. PoolShape'
  BY <1>1, <1>10, <1>11, PoolKept DEF PoolShape
<1>13. SameLists
  BY <1>1, <1>10, <1>11 DEF SameLists
<1> QED
  BY <1>6, <1>7, <1>8, <1>9, <1>12, <1>13

LEMMA AllocTakeShape ==
  ASSUME Separate, Shape, NEW t \in Threads, AllocTake(t), TypeOK'
  PROVE  Shape' /\ SameLists
<1> USE DEF Shape, slotVars, reqVars, Request, NULL
<1>1. /\ at[t] = "alloc" /\ pool[Slot(on[t])] # NULL
      /\ hold' = [hold EXCEPT ![t] = pool[Slot(on[t])]]
      /\ at' = [at EXCEPT ![t] = "unlink"]
      /\ UNCHANGED <<pool, ctxt, link, parent, buf, fresh, released, connReq, on, got>>
  BY DEF AllocTake
<1>2. /\ at'[t] = "unlink" /\ hold'[t] = pool[Slot(on[t])]
      /\ \A u \in Threads : u # t => at'[u] = at[u] /\ hold'[u] = hold[u]
  BY <1>1 DEF TypeOK
<1>3. MemoryShape' /\ ConnShape' /\ GotShape'
  BY <1>1 DEF MemoryShape, ConnShape, GotShape, From
<1>4. ThreadShape' /\ AllocShape'
  BY <1>1, <1>2 DEF ThreadShape, AllocShape
<1>5. WorkShape'
  <2> SUFFICES ASSUME NEW u \in Threads, Working(u)'
               PROVE AtWork(u)'
    BY DEF WorkShape
  <2>1. u # t
    BY <1>2 DEF Working
  <2>2. Working(u) /\ AtWork(u)
    BY <2>1, <1>2 DEF WorkShape, Working
  <2> QED
    BY <2>1, <2>2, <1>1, <1>2 DEF AtWork, From
<1>6. \A r \in Request : Idle(r)' <=> Idle(r)
  BY <1>1, <1>2 DEF Idle, Unused, Working
<1>7. PoolShape'
  BY <1>1, <1>6, PoolKept
<1>8. SameLists
  BY <1>1, <1>6 DEF SameLists
<1> QED
  BY <1>3, <1>4, <1>5, <1>7, <1>8

LEMMA AllocUnlinkShape ==
  ASSUME Separate, Shape, NEW t \in Threads, AllocUnlink(t), TypeOK'
  PROVE  /\ Shape'
         /\ on[t] \in Fds /\ hold[t] \in Request /\ pool[Slot(on[t])] = hold[t]
         /\ pool' = [pool EXCEPT ![Slot(on[t])] = link[hold[t]]]
         /\ link' = link /\ \A q \in Request : q # hold[t] => parent'[q] = parent[q]
         /\ \A q \in Request : Idle(q)' <=> Idle(q) /\ q # hold[t]
<1> USE DEF Shape, slotVars, reqVars, Request, NULL
<1> DEFINE f == on[t]
           r == hold[t]
           s == Slot(f)
<1>1. /\ at[t] = "unlink"
      /\ pool' = [pool EXCEPT ![s] = link[r]]
      /\ connReq' = [connReq EXCEPT ![f] = r]
      /\ parent' = [parent EXCEPT ![r] = f]
      /\ hold' = hold
      /\ at' = [at EXCEPT ![t] = "recv"]
      /\ UNCHANGED <<ctxt, link, buf, fresh, released, on, got>>
  BY DEF AllocUnlink, Give, TypeOK
<1>2. f \in Fds /\ Thread(f) = t /\ connReq[f] = NULL /\ s \in Slots
  BY <1>1, HomeSlot DEF ThreadShape, AllocShape
<1>3. r # NULL /\ r = pool[s] /\ Idle(r) /\ Slot(parent[r]) = s /\ buf[r] = <<>>
  BY <1>1, <1>2 DEF AllocShape, PoolShape, Idle
<1>4. r \in Request /\ r <= fresh /\ r \notin released /\ Unused(r)
  BY <1>3 DEF Idle
<1>5. /\ at'[t] = "recv" /\ parent'[r] = f /\ connReq'[f] = r /\ pool'[s] = link[r]
      /\ \A u \in Threads : u # t => at'[u] = at[u]
      /\ \A q \in Request : q # r => parent'[q] = parent[q]
      /\ \A g \in Fds : g # f => connReq'[g] = connReq[g]
      /\ \A z \in Slots : z # s => pool'[z] = pool[z]
  BY <1>1, <1>2, <1>4 DEF TypeOK
<1>6. \A u \in Threads : u # t /\ at[u] # "idle" =>
        Slot(on[u]) # s /\ on[u] # f /\ on[u] \in Fds /\ Slot(on[u]) \in Slots
  BY <1>1, Apart, HomeSlot DEF ThreadShape
<1> HIDE DEF f, r, s
<1>7. MemoryShape' /\ GotShape'
  BY <1>1, <1>2, <1>5 DEF MemoryShape, GotShape, From
<1>8. ConnShape'
  BY <1>1, <1>2, <1>3, <1>4, <1>5 DEF ConnShape, Unused, From, TypeOK
<1>9. ThreadShape'
  BY <1>1, <1>5 DEF ThreadShape
<1>10. AllocShape'
  <2> SUFFICES ASSUME NEW u \in Threads, at'[u] \in {"alloc", "unlink"}
               PROVE  /\ connReq'[on'[u]] = NULL
                      /\ at'[u] = "unlink" => hold'[u] # NULL /\ hold'[u] = pool'[Slot(on'[u])]
    BY DEF AllocShape
  <2>1. u # t /\ at[u] # "idle"
    BY <1>5
  <2> QED
    BY <2>1, <1>1, <1>5, <1>6 DEF AllocShape
<1>11. WorkShape'
  <2> SUFFICES ASSUME NEW u \in Threads, Working(u)'
               PROVE AtWork(u)'
    BY DEF WorkShape
  <2>1. CASE u = t
    BY <2>1, <1>1, <1>3, <1>4, <1>5 DEF AtWork, From, f, r
  <2>2. CASE u # t
    <3>1. Working(u) /\ AtWork(u) /\ at[u] # "idle"
      BY <2>2, <1>5 DEF WorkShape, Working
    <3>2. hold[u] # r
      BY <3>1, <1>4 DEF Unused
    <3> QED
      BY <2>2, <3>1, <3>2, <1>1, <1>5, <1>6 DEF AtWork, From
  <2> QED
    BY <2>1, <2>2
<1>12. \A q \in Request : Idle(q)' <=> Idle(q) /\ q # r
  <2> SUFFICES ASSUME NEW q \in Request PROVE Idle(q)' <=> Idle(q) /\ q # r
    OBVIOUS
  <2>1. CASE q = r
    BY <2>1, <1>2, <1>5 DEF Idle, Unused
  <2>2. CASE q # r
    <3>1. Unused(q)' <=> Unused(q)
      BY <2>2, <1>1, <1>2, <1>5 DEF Unused, Working, r
    <3> QED
      BY <2>2, <3>1, <1>1 DEF Idle
  <2> QED
    BY <2>1, <2>2
<1>13. PoolShape'
  <2>1. link' = link /\ buf' = buf
    BY <1>1
  <2>2. \A q \in Request : Idle(q) /\ link[q] # NULL => link[q] # r /\ link[q] \in Request
    BY <1>2, <1>3 DEF PoolShape, Idle
  <2>3. ASSUME NEW z \in Slots, pool'[z] # NULL
        PROVE  Idle(pool[z])' /\ Slot(parent'[pool'[z]]) = z
    <3>1. CASE z = s
      BY <3>1, <2>2, <2>3, <1>3, <1>4, <1>5, <1>12 DEF PoolShape
    <3>2. CASE z # s
      <4>1. pool'[z] = pool[z] /\ pool[z] # NULL /\ pool[z] \in Request
        BY <3>2, <2>3, <1>5 DEF TypeOK
      <4>2. Idle(pool[z]) /\ Slot(parent[pool[z]]) = z /\ pool[z] # r
        BY <4>1, <3>2, <1>3 DEF PoolShape
      <4> QED
        BY <4>1, <4>2, <1>5, <1>12
    <3> QED
      BY <3>1, <3>2
  <2>4. ASSUME NEW q \in Request, Idle(q)'
        PROVE  /\ buf[q] = <<>>
               /\ link[q] # NULL => /\ Idle(link[q])'
                                    /\ Slot(parent'[link[q]]) = Slot(parent'[q])
                                    /\ \A z \in Slots : pool'[z] # link[q]
    <3>1. Idle(q) /\ q # r
      BY <2>4, <1>12
    <3>2. buf[q] = <<>>
      BY <3>1 DEF PoolShape
    <3>3. ASSUME link[q] # NULL
          PROVE  /\ Idle(link[q])'
                 /\ Slot(parent'[link[q]]) = Slot(parent'[q])
                 /\ \A z \in Slots : pool'[z] # link[q]
      <4>1. /\ Idle(link[q]) /\ Slot(parent[link[q]]) = Slot(parent[q])
            /\ \A z \in Slots : pool[z] # link[q]
        BY <3>1, <3>3 DEF PoolShape
      <4>2. link[q] # link[r]
        BY <3>1, <3>3, <1>3, <1>4 DEF PoolShape
      <4>3. link[q] \in Request /\ link[q] # r
        BY <2>2, <3>1, <3>3
      <4>4. Idle(link[q])'
        BY <4>1, <4>3, <1>12, <2>1
      <4>5. Slot(parent'[link[q]]) = Slot(parent'[q])
        BY <4>1, <4>3, <3>1, <1>5
      <4>6. \A z \in Slots : pool'[z] # link[q]
        BY <4>1, <4>2, <1>5
      <4> QED
        BY <4>4, <4>5, <4>6
    <3> QED
      BY <3>2, <3>3
  <2>5. \A p, q \in Request :
          Idle(p)' /\ Idle(q)' /\ link[p] = link[q] /\ link[p] # NULL => p = q
    BY <1>12 DEF PoolShape
  <2> QED
    BY <2>1, <2>3, <2>4, <2>5 DEF PoolShape
<1> QED
  BY <1>1, <1>2, <1>3, <1>4, <1>5, <1>7, <1>8, <1>9, <1>10, <1>11, <1>12, <1>13 DEF f, r, s


LEMMA Alone ==
  ASSUME Separate, Shape, NEW t \in Threads, Working(t)
  PROVE  /\ AtWork(t) /\ on[t] \in Fds /\ Thread(on[t]) = t /\ Slot(on[t]) \in Slots
         /\ hold[t] \in Request /\ ~Idle(hold[t])
         /\ \A u \in Threads : u # t /\ at[u] # "idle" =>
              Slot(on[u]) # Slot(on[t]) /\ on[u] # on[t] /\ on[u] \in Fds
         /\ \A u \in Threads : u # t /\ Working(u) => hold[u] # hold[t]
         /\ \A f \in Fds : connReq[f] = hold[t] => f = on[t]
<1>1. AtWork(t) /\ at[t] # "idle"
  BY DEF Shape, WorkShape, Working
<1>2. on[t] \in Fds /\ Thread(on[t]) = t
  BY <1>1 DEF Shape, ThreadShape
<1>3. hold[t] \in Request /\ hold[t] # NULL /\ parent[hold[t]] = on[t]
  BY <1>1 DEF AtWork, Request, NULL
<1>4. ~Idle(hold[t])
  BY DEF Idle, Unused
<1>5. \A u \in Threads : u # t /\ at[u] # "idle" =>
        Slot(on[u]) # Slot(on[t]) /\ on[u] # on[t] /\ on[u] \in Fds
  BY <1>1, Apart DEF Shape, ThreadShape
<1>6. \A u \in Threads : u # t /\ Working(u) => hold[u] # hold[t] /\ at[u] # "idle"
  BY <1>1, Apart DEF Working
<1>7. \A f \in Fds : connReq[f] = hold[t] => f = on[t]
  BY <1>3 DEF Shape, ConnShape
<1> QED
  BY <1>1, <1>2, <1>3, <1>4, <1>5, <1>6, <1>7, HomeSlot

LEMMA RecvShape ==
  ASSUME Separate, Shape, NEW t \in Threads, Recv(t), TypeOK'
  PROVE  Shape' /\ SameLists
<1> USE DEF Shape, slotVars, reqVars, Request, NULL
<1> DEFINE f == on[t]
           r == hold[t]
<1>1. /\ at[t] = "recv" /\ Working(t)
      /\ buf' = [buf EXCEPT ![r] = Append(@, f)]
      /\ UNCHANGED <<pool, ctxt, link, parent, fresh, released, connReq, on, got>>
  BY DEF Recv, Working
<1>2. /\ AtWork(t) /\ f \in Fds /\ r \in Request /\ ~Idle(r)
      /\ \A u \in Threads : u # t /\ Working(u) => hold[u] # r
      /\ \A g \in Fds : connReq[g] = r => g = f
  BY <1>1, Alone
<1>3. connReq[f] = r
  BY <1>1, <1>2 DEF AtWork
<1>4. /\ buf'[r] = Append(buf[r], f) /\ buf[r] \in Seq(Fds)
      /\ \A q \in Request : q # r => buf'[q] = buf[q]
      /\ \/ at'[t] = "proc" /\ hold'[t] = r
         \/ at'[t] = "idle"
      /\ \A u \in Threads : u # t => at'[u] = at[u] /\ hold'[u] = hold[u]
  BY <1>1, <1>2 DEF Recv, TypeOK
<1>5. From(f, buf'[r])
  BY <1>2, <1>4, FromAppend DEF AtWork
<1> HIDE DEF f, r
<1>6. MemoryShape' /\ GotShape'
  BY <1>1, <1>2, <1>4 DEF MemoryShape, GotShape, From, AtWork, r
<1>7. ConnShape'
  <2> SUFFICES ASSUME NEW g \in Fds, connReq[g] # NULL
               PROVE  From(g, buf'[connReq[g]])
    BY <1>1 DEF ConnShape, From
  <2>1. connReq[g] \in Request
    BY DEF TypeOK
  <2> QED
    BY <2>1, <1>2, <1>4, <1>5 DEF ConnShape
<1>8. ThreadShape' /\ AllocShape'
  BY <1>1, <1>4 DEF ThreadShape, AllocShape
<1>9. WorkShape'
  <2> SUFFICES ASSUME NEW u \in Threads, Working(u)'
               PROVE AtWork(u)'
    BY DEF WorkShape
  <2>1. CASE u = t
    <3>1. at'[t] = "proc" /\ hold'[t] = r
      BY <2>1, <1>4 DEF Working
    <3> QED
      BY <3>1, <2>1, <1>1, <1>2, <1>3, <1>5 DEF AtWork, From, f, r
  <2>2. CASE u # t
    <3>1. Working(u) /\ AtWork(u) /\ hold[u] # r
      BY <2>2, <1>2, <1>4 DEF WorkShape, Working
    <3> QED
      BY <2>2, <3>1, <1>1, <1>4 DEF AtWork, From
  <2> QED
    BY <2>1, <2>2
<1>10. \A q \in Request : Idle(q)' <=> Idle(q)
  <2> SUFFICES ASSUME NEW q \in Request PROVE Idle(q)' <=> Idle(q)
    OBVIOUS
  <2>1. CASE q = r
    BY <2>1, <1>1, <1>2, <1>3 DEF Idle, Unused
  <2>2. CASE q # r
    BY <2>2, <1>1, <1>4 DEF Idle, Unused, Working, r
  <2> QED
    BY <2>1, <2>2
<1>11. PoolShape'
  BY <1>1, <1>2, <1>4, <1>10, PoolKept
<1>12. SameLists
  BY <1>1, <1>10 DEF SameLists
<1> QED
  BY <1>6, <1>7, <1>8, <1>9, <1>11, <1>12

LEMMA ProcessShape ==
  ASSUME Separate, Shape, NEW t \in Threads, Process(t), TypeOK'
  PROVE  Shape' /\ SameLists
<1> USE DEF Shape, slotVars, reqVars, Request, NULL
<1> DEFINE f == on[t]
           r == hold[t]
<1>1. at[t] = "proc" /\ Working(t)
  BY DEF Process, Working
<1>2. /\ AtWork(t) /\ f \in Fds /\ r \in Request /\ parent[r] = f /\ Slot(f) \in Slots
      /\ \A u \in Threads : u # t /\ at[u] # "idle" => Slot(on[u]) # Slot(f) /\ on[u] # f
      /\ \A u \in Threads : u # t /\ Working(u) => hold[u] # r
      /\ \A g \in Fds : connReq[g] = r => g = f
  BY <1>1, Alone DEF AtWork
<1>3. /\ connReq' = [connReq EXCEPT ![f] = NULL]
      /\ ctxt' = [ctxt EXCEPT ![Slot(f)] = buf[r]]
      /\ at' = [at EXCEPT ![t] = "send"]
      /\ UNCHANGED <<pool, link, parent, buf, fresh, released, on, hold, got>>
  BY <1>2 DEF Process
<1>4. /\ connReq'[f] = NULL /\ ctxt'[Slot(f)] = buf[r] /\ at'[t] = "send"
      /\ \A g \in Fds : g # f => connReq'[g] = connReq[g]
      /\ \A s \in Slots : s # Slot(f) => ctxt'[s] = ctxt[s]
      /\ \A u \in Threads : u # t => at'[u] = at[u]
  BY <1>2, <1>3 DEF TypeOK
<1>5. connReq[f] = r
  BY <1>1, <1>2 DEF AtWork
<1> HIDE DEF f, r
<1>6. MemoryShape' /\ GotShape'
  BY <1>3 DEF MemoryShape, GotShape, From
<1>7. ConnShape'
  BY <1>3, <1>4 DEF ConnShape, From
<1>8. ThreadShape' /\ AllocShape'
  <2>1. \A u \in Threads : at'[u] # "idle" => u = t \/ (u # t /\ at[u] # "idle" /\ on[u] \in Fds)
    BY <1>4 DEF ThreadShape
  <2> QED
    BY <2>1, <1>1, <1>2, <1>3, <1>4 DEF ThreadShape, AllocShape
<1>9. WorkShape'
  <2> SUFFICES ASSUME NEW u \in Threads, Working(u)'
               PROVE AtWork(u)'
    BY DEF WorkShape
  <2>1. CASE u = t
    BY <2>1, <1>2, <1>3, <1>4 DEF AtWork, From, f, r
  <2>2. CASE u # t
    <3>1. Working(u) /\ AtWork(u) /\ at[u] # "idle"
      BY <2>2, <1>4 DEF WorkShape, Working
    <3>2. on[u] \in Fds /\ Slot(on[u]) \in Slots /\ on[u] # f /\ Slot(on[u]) # Slot(f)
      BY <3>1, <2>2, <1>2, HomeSlot DEF ThreadShape
    <3> QED
      BY <2>2, <3>1, <3>2, <1>3, <1>4 DEF AtWork, From
  <2> QED
    BY <2>1, <2>2
<1>10. \A q \in Request : Idle(q)' <=> Idle(q)
  <2> SUFFICES ASSUME NEW q \in Request PROVE Idle(q)' <=> Idle(q)
    OBVIOUS
  <2>1. CASE q = r
    BY <2>1, <1>1, <1>3, <1>4 DEF Idle, Unused, Working, r
  <2>2. CASE q # r
    BY <2>2, <1>1, <1>3, <1>4, <1>5 DEF Idle, Unused, Working, r
  <2> QED
    BY <2>1, <2>2
<1>11. PoolShape'
  BY <1>3, <1>10, PoolKept
<1>12. SameLists
  BY <1>3, <1>10 DEF SameLists
<1> QED
  BY <1>6, <1>7, <1>8, <1>9, <1>11, <1>12

LEMMA SendShape ==
  ASSUME Separate, Shape, NEW t \in Threads, Send(t), TypeOK'
  PROVE  Shape' /\ SameLists
<1> USE DEF Shape, slotVars, reqVars, Request, NULL
<1> DEFINE f == on[t]
           r == hold[t]
<1>1. at[t] = "send" /\ Working(t)
  BY DEF Send, Working
<1>2. /\ AtWork(t) /\ f \in Fds /\ r \in Request /\ parent[r] = f /\ Slot(f) \in Slots
      /\ \A u \in Threads : u # t /\ at[u] # "idle" => Slot(on[u]) # Slot(f)
  BY <1>1, Alone DEF AtWork
<1>3. /\ got' = [got EXCEPT ![f] = @ \o ctxt[Slot(f)]]
      /\ ctxt' = [ctxt EXCEPT ![Slot(f)] = <<>>]
      /\ at' = [at EXCEPT ![t] = "free"]
      /\ UNCHANGED <<pool, link, parent, buf, fresh, released, connReq, on, hold>>
  BY <1>2 DEF Send
<1>4. /\ got'[f] = got[f] \o ctxt[Slot(f)] /\ at'[t] = "free"
      /\ \A g \in Fds : g # f => got'[g] = got[g]
      /\ \A s \in Slots : s # Slot(f) => ctxt'[s] = ctxt[s]
      /\ \A u \in Threads : u # t => at'[u] = at[u]
  BY <1>2, <1>3 DEF TypeOK
<1>5. From(f, got'[f])
  <2>1. From(f, got[f]) /\ From(f, ctxt[Slot(f)])
    BY <1>1, <1>2 DEF GotShape, AtWork
  <2>2. got[f] \in Seq(Fds) /\ ctxt[Slot(f)] \in Seq(Fds)
    BY <1>2 DEF TypeOK
  <2> HIDE DEF f
  <2> QED
    BY <2>1, <2>2, <1>2, <1>4, FromConcat
<1> HIDE DEF f, r
<1>6. MemoryShape' /\ ConnShape'
  BY <1>3 DEF MemoryShape, ConnShape, From
<1>7. GotShape'
  <2> SUFFICES ASSUME NEW g \in Fds PROVE From(g, got'[g])
    BY DEF GotShape, From
  <2> QED
    BY <1>4, <1>5 DEF GotShape
<1>8. ThreadShape' /\ AllocShape'
  BY <1>1, <1>3, <1>4 DEF ThreadShape, AllocShape
<1>9. WorkShape'
  <2> SUFFICES ASSUME NEW u \in Threads, Working(u)'
               PROVE AtWork(u)'
    BY DEF WorkShape
  <2>1. CASE u = t
    BY <2>1, <1>1, <1>2, <1>3, <1>4 DEF AtWork, From, f, r
  <2>2. CASE u # t
    <3>1. Working(u) /\ AtWork(u) /\ at[u] # "idle"
      BY <2>2, <1>4 DEF WorkShape, Working
    <3>2. Slot(on[u]) \in Slots /\ Slot(on[u]) # Slot(f)
      BY <3>1, <2>2, <1>2, HomeSlot DEF ThreadShape
    <3> QED
      BY <2>2, <3>1, <3>2, <1>3, <1>4 DEF AtWork, From
  <2> QED
    BY <2>1, <2>2
<1>10. \A q \in Request : Idle(q)' <=> Idle(q)
  BY <1>1, <1>3, <1>4 DEF Idle, Unused, Working
<1>11. PoolShape'
  BY <1>3, <1>10, PoolKept
<1>12. SameLists
  BY <1>3, <1>10 DEF SameLists
<1> QED
  BY <1>6, <1>7, <1>8, <1>9, <1>11, <1>12

LEMMA FreeResetShape ==
  ASSUME Separate, Shape, NEW t \in Threads, FreeReset(t), TypeOK'
  PROVE  Shape' /\ SameLists
<1> USE DEF Shape, slotVars, reqVars, Request, NULL
<1> DEFINE f == on[t]
           r == hold[t]
<1>1. at[t] = "free" /\ Working(t)
  BY DEF FreeReset, Working
<1>2. /\ AtWork(t) /\ f \in Fds /\ r \in Request /\ parent[r] = f /\ ~Idle(r)
      /\ \A u \in Threads : u # t /\ Working(u) => hold[u] # r
      /\ \A g \in Fds : connReq[g] = r => g = f
  BY <1>1, Alone DEF AtWork
<1>3. /\ buf' = [buf EXCEPT ![r] = <<>>]
      /\ link' = [link EXCEPT ![r] = pool[Slot(f)]]
      /\ at' = [at EXCEPT ![t] = "link"]
      /\ UNCHANGED <<pool, ctxt, parent, fresh, released, connReq, on, hold, got>>
  BY <1>2 DEF FreeReset
<1>4. /\ buf'[r] = <<>> /\ link'[r] = pool[Slot(f)] /\ at'[t] = "link"
      /\ \A q \in Request : q # r => buf'[q] = buf[q] /\ link'[q] = link[q]
      /\ \A u \in Threads : u # t => at'[u] = at[u]
  BY <1>2, <1>3 DEF TypeOK
<1>5. connReq[f] # r /\ \A g \in Fds : connReq[g] # r
  BY <1>1, <1>2 DEF AtWork
<1> HIDE DEF f, r
<1>6. MemoryShape' /\ GotShape'
  <2>1. \A q \in Request : ~(q <= fresh) => buf'[q] = <<>>
    BY <1>4 DEF MemoryShape
  <2> QED
    BY <2>1, <1>3 DEF MemoryShape, GotShape, From
<1>7. ConnShape'
  BY <1>3, <1>4, <1>5 DEF ConnShape, From, TypeOK
<1>8. ThreadShape' /\ AllocShape'
  BY <1>1, <1>3, <1>4 DEF ThreadShape, AllocShape
<1>9. WorkShape'
  <2> SUFFICES ASSUME NEW u \in Threads, Working(u)'
               PROVE AtWork(u)'
    BY DEF WorkShape
  <2>1. CASE u = t
    <3>1. From(f, buf'[r])
      BY <1>4 DEF From
    <3> QED
      BY <3>1, <2>1, <1>1, <1>2, <1>3, <1>4 DEF AtWork, From, f, r
  <2>2. CASE u # t
    <3>1. Working(u) /\ AtWork(u) /\ hold[u] # r
      BY <2>2, <1>2, <1>4 DEF WorkShape, Working
    <3> QED
      BY <2>2, <3>1, <1>3, <1>4 DEF AtWork, From
  <2> QED
    BY <2>1, <2>2
<1>10. \A q \in Request : Idle(q)' <=> Idle(q)
  BY <1>1, <1>3, <1>4 DEF Idle, Unused, Working
<1>11. \A q \in Request : Idle(q) => q # r
  BY <1>2
<1>12. PoolShape'
  <2>1. ASSUME NEW s \in Slots, pool'[s] # NULL
        PROVE  Idle(pool[s])' /\ Slot(parent'[pool'[s]]) = s
    BY <2>1, <1>3, <1>10 DEF PoolShape, TypeOK
  <2>2. ASSUME NEW q \in Request, Idle(q)'
        PROVE  /\ buf'[q] = <<>>
               /\ link'[q] # NULL => /\ Idle(link[q])'
                                     /\ Slot(parent'[link'[q]]) = Slot(parent'[q])
                                     /\ \A s \in Slots : pool'[s] # link'[q]
    <3>1. Idle(q) /\ buf[q] = <<>> /\ buf'[q] = buf[q] /\ link'[q] = link[q]
      BY <2>2, <1>4, <1>10, <1>11 DEF PoolShape
    <3>2. ASSUME link[q] # NULL
          PROVE  /\ link[q] \in Request /\ Idle(link[q])
                 /\ Slot(parent[link[q]]) = Slot(parent[q])
                 /\ \A s \in Slots : pool[s] # link[q]
      BY <3>1, <3>2 DEF PoolShape, TypeOK
    <3>3. link'[q] # NULL => Idle(link[q])'
      BY <3>1, <3>2, <1>10
    <3> QED
      BY <3>1, <3>2, <3>3, <1>3
  <2>3. \A p, q \in Request :
          Idle(p)' /\ Idle(q)' /\ link'[p] = link'[q] /\ link'[p] # NULL => p = q
    BY <1>4, <1>10, <1>11 DEF PoolShape
  <2> QED
    BY <2>1, <2>2, <2>3 DEF PoolShape
<1>13. SameLists
  BY <1>3, <1>4, <1>10, <1>11 DEF SameLists
<1> QED
  BY <1>6, <1>7, <1>8, <1>9, <1>12, <1>13

LEMMA FreeLinkShape ==
  ASSUME Separate, Shape, NEW t \in Threads, FreeLink(t), TypeOK'
  PROVE  /\ Shape'
         /\ hold[t] \in Request /\ Slot(parent[hold[t]]) \in Slots /\ ~ Idle(hold[t])
         /\ link[hold[t]] = pool[Slot(parent[hold[t]])]
         /\ pool' = [pool EXCEPT ![Slot(parent[hold[t]])] = hold[t]]
         /\ UNCHANGED <<link, parent>>
         /\ \A q \in Request : Idle(q)' <=> Idle(q) \/ q = hold[t]
<1> USE DEF Shape, slotVars, reqVars, Request, NULL
<1> DEFINE f == on[t]
           r == hold[t]
           s == Slot(f)
<1>1. at[t] = "link" /\ Working(t)
  BY DEF FreeLink, Working
<1>2. /\ AtWork(t) /\ f \in Fds /\ r \in Request /\ parent[r] = f /\ ~Idle(r) /\ s \in Slots
      /\ r <= fresh /\ r \notin released /\ buf[r] = <<>> /\ link[r] = pool[s]
      /\ \A u \in Threads : u # t /\ at[u] # "idle" => Slot(on[u]) # s
      /\ \A u \in Threads : u # t /\ Working(u) => hold[u] # r
      /\ \A g \in Fds : connReq[g] # r
  BY <1>1, Alone DEF AtWork
<1>3. /\ pool' = [pool EXCEPT ![s] = r]
      /\ hold' = [hold EXCEPT ![t] = NULL]
      /\ at' = [at EXCEPT ![t] = "idle"]
      /\ UNCHANGED <<ctxt, link, parent, buf, fresh, released, connReq, on, got>>
  BY <1>2 DEF FreeLink
<1>4. /\ pool'[s] = r /\ at'[t] = "idle"
      /\ \A z \in Slots : z # s => pool'[z] = pool[z]
      /\ \A u \in Threads : u # t => at'[u] = at[u] /\ hold'[u] = hold[u]
  BY <1>2, <1>3 DEF TypeOK
<1> HIDE DEF f, r, s
<1>5. MemoryShape' /\ ConnShape' /\ GotShape'
  BY <1>3 DEF MemoryShape, ConnShape, GotShape, From
<1>6. \A u \in Threads : at'[u] # "idle" =>
        u # t /\ at[u] # "idle" /\ Slot(on[u]) # s /\ Slot(on[u]) \in Slots
  BY <1>2, <1>4, HomeSlot DEF ThreadShape
<1>7. ThreadShape' /\ AllocShape'
  BY <1>3, <1>4, <1>6 DEF ThreadShape, AllocShape
<1>8. WorkShape'
  BY <1>3, <1>4, <1>6 DEF WorkShape, AtWork, Working, From
<1>9. \A q \in Request : Idle(q)' <=> Idle(q) \/ q = r
  <2> SUFFICES ASSUME NEW q \in Request PROVE Idle(q)' <=> Idle(q) \/ q = r
    OBVIOUS
  <2>1. CASE q = r
    BY <2>1, <1>2, <1>3, <1>4 DEF Idle, Unused, Working
  <2>2. CASE q # r
    BY <2>2, <1>3, <1>4 DEF Idle, Unused, Working, r
  <2> QED
    BY <2>1, <2>2
<1>10. PoolShape'
  <2>1. ASSUME NEW z \in Slots, pool'[z] # NULL
        PROVE  Idle(pool[z])' /\ Slot(parent'[pool'[z]]) = z
    <3>1. CASE z = s
      BY <3>1, <1>2, <1>3, <1>4, <1>9 DEF s
    <3>2. CASE z # s
      BY <3>2, <2>1, <1>3, <1>4, <1>9 DEF PoolShape, TypeOK
    <3> QED
      BY <3>1, <3>2
  <2>2. ASSUME NEW q \in Request, Idle(q)'
        PROVE  /\ buf[q] = <<>>
               /\ link[q] # NULL => /\ Idle(link[q])'
                                    /\ Slot(parent[link[q]]) = Slot(parent[q])
                                    /\ \A z \in Slots : pool'[z] # link[q]
    <3>1. CASE q = r
      <4>1. buf[q] = <<>> /\ link[q] = pool[s] /\ parent[q] = f
        BY <3>1, <1>2
      <4>2. ASSUME link[q] # NULL
            PROVE  /\ link[q] \in Request /\ Idle(link[q]) /\ link[q] # r
                   /\ Slot(parent[link[q]]) = s
        BY <4>1, <4>2, <1>2 DEF PoolShape, TypeOK
      <4>3. ASSUME link[q] # NULL, NEW z \in Slots PROVE pool'[z] # link[q]
        <5>1. CASE z = s
          BY <5>1, <4>2, <4>3, <1>4
        <5>2. CASE z # s
          BY <5>2, <4>1, <4>2, <4>3, <1>4 DEF PoolShape
        <5> QED
          BY <5>1, <5>2
      <4>4. link[q] # NULL => Idle(link[q])'
        BY <4>2, <1>3, <1>9
      <4> QED
        BY <4>1, <4>2, <4>3, <4>4 DEF s
    <3>2. CASE q # r
      <4>1. Idle(q)
        BY <3>2, <2>2, <1>9
      <4>2. ASSUME link[q] # NULL
            PROVE  /\ link[q] \in Request /\ Idle(link[q]) /\ link[q] # r
                   /\ Slot(parent[link[q]]) = Slot(parent[q])
                   /\ \A z \in Slots : pool[z] # link[q]
        <5>1. /\ link[q] \in Request /\ Idle(link[q])
              /\ Slot(parent[link[q]]) = Slot(parent[q])
              /\ \A z \in Slots : pool[z] # link[q]
          BY <4>1, <4>2 DEF PoolShape, TypeOK
        <5>2. link[q] # r
          BY <5>1, <1>2
        <5> QED
          BY <5>1, <5>2
      <4>3. link[q] # NULL => Idle(link[q])'
        BY <4>2, <1>3, <1>9
      <4>4. buf[q] = <<>>
        BY <4>1 DEF PoolShape
      <4> QED
        BY <4>2, <4>3, <4>4, <1>4
    <3> QED
      BY <3>1, <3>2
  <2>3. ASSUME NEW p \in Request, NEW q \in Request,
               Idle(p)', Idle(q)', link[p] = link[q], link[p] # NULL
        PROVE  p = q
    <3>1. (Idle(p) \/ p = r) /\ (Idle(q) \/ q = r)
      BY <2>3, <1>9
    <3>2. \A z \in Request : Idle(z) /\ link[z] # NULL => link[z] # link[r]
      BY <1>2 DEF PoolShape
    <3> QED
      BY <3>1, <3>2, <2>3 DEF PoolShape
  <2> QED
    BY <2>1, <2>2, <2>3, <1>3 DEF PoolShape
<1> QED
  BY <1>2, <1>3, <1>5, <1>7, <1>8, <1>9, <1>10 DEF f, r, s

-----------------------------------------------------------------------------
(* The theorems.                                                           *)

LEMMA ShapeStep == Separate /\ Shape /\ [Next]_vars => Shape'
<1> SUFFICES ASSUME Separate, Shape, [Next]_vars PROVE Shape'
  OBVIOUS
<1> TypeOK'
  BY TypeStep
<1>1. ASSUME NEW f \in Fds, Event(f) PROVE Shape'
  BY <1>1, EventShape
<1>2. ASSUME NEW f \in Fds, Close(f) PROVE Shape'
  BY <1>2, CloseShape
<1>3. ASSUME NEW t \in Threads, Step(t) PROVE Shape'
  BY <1>3, AllocNewShape, AllocTakeShape, AllocUnlinkShape, RecvShape, ProcessShape,
     SendShape, FreeResetShape, FreeLinkShape DEF Step
<1>4. CASE UNCHANGED vars
  <2> UNCHANGED <<pool, ctxt, link, parent, buf, fresh, released, connReq, at, on, hold, got>>
    BY <1>4 DEF vars, slotVars, reqVars, threadVars
  <2>1. (MemoryShape /\ ConnShape /\ ThreadShape /\ AllocShape /\ WorkShape /\ GotShape)'
    BY DEF Shape, MemoryShape, ConnShape, ThreadShape, AllocShape, WorkShape, AtWork,
           Working, GotShape, From
  <2>2. \A r \in Request : Idle(r)' <=> Idle(r)
    BY DEF Idle, Unused, Working
  <2>3. PoolShape'
    BY <2>2, PoolKept DEF Shape
  <2> QED
    BY <2>1, <2>3 DEF Shape
<1> QED
  BY <1>1, <1>2, <1>3, <1>4 DEF Next

LEMMA ShapeInit == Init => Shape
<1> SUFFICES ASSUME Init PROVE Shape
  OBVIOUS
<1> USE WorkerSlotsAssumption DEF Init, Request, NULL
<1>1. TypeOK
  BY DEF TypeOK
<1>2. MemoryShape /\ ConnShape /\ ThreadShape /\ AllocShape /\ WorkShape /\ GotShape
  BY DEF MemoryShape, ConnShape, ThreadShape, AllocShape, WorkShape, Working, GotShape, From
<1>3. \A r \in Request : ~Idle(r)
  BY DEF Idle
<1>4. PoolShape
  BY <1>3 DEF PoolShape
<1> QED
  BY <1>1, <1>2, <1>4 DEF Shape

LEMMA AlwaysShape == Separate => (Spec => []Shape)
<1> SUFFICES ASSUME Separate PROVE Spec => []Shape
  OBVIOUS
<1>1. Shape /\ [Next]_vars => Shape'
  BY ShapeStep
<1> QED
  BY <1>1, ShapeInit, PTL DEF Spec

\* gr_tcp_req_alloc and gr_tcp_req_free share the request objects of a slot
\* between its connections, one user at a time, as long as the connections that
\* use a slot are received by one thread.
THEOREM OneUserPerRequest == Separate => (Spec => []OneUser)
<1> SUFFICES ASSUME Separate PROVE Spec => []OneUser
  OBVIOUS
<1>1. Shape => OneUser
  <2> SUFFICES ASSUME Shape, NEW r \in Request, Users(r) # {}
               PROVE  /\ \A f, g \in Users(r) : f = g
                      /\ r \notin released
                      /\ \A s \in Slots : pool[s] # r
    BY DEF OneUser
  <2> USE DEF Shape, Request, NULL
  <2>1. \A f \in Users(r) :
          \/ f \in Fds /\ connReq[f] = r
          \/ \E t \in Threads : f = on[t] /\ hold[t] = r /\ Working(t)
    BY DEF Users, Working
  <2>2. \A f \in Users(r) : f = parent[r]
    BY <2>1 DEF ConnShape, WorkShape, AtWork
  <2>3. r \notin released
    BY <2>1 DEF ConnShape, WorkShape, AtWork
  <2>4. ~Unused(r)
    BY <2>1 DEF Unused
  <2>5. \A s \in Slots : pool[s] # r
    BY <2>4 DEF PoolShape, Idle
  <2> QED
    BY <2>2, <2>3, <2>5
<1> QED
  BY <1>1, AlwaysShape, PTL

\* process_tcp sends the answer it finds in its slot's context: as long as the
\* connections that use a slot are received by one thread, every client gets
\* answers to its own requests only.
THEOREM AnswersAreOwn == Separate => (Spec => []OwnAnswers)
<1> SUFFICES ASSUME Separate PROVE Spec => []OwnAnswers
  OBVIOUS
<1>1. Shape => OwnAnswers
  BY DEF Shape, GotShape, From, OwnAnswers
<1> QED
  BY <1>1, AlwaysShape, PTL

\* Under the same condition assert( 0 == req->buf_len ) of gr_tcp_req_alloc
\* cannot fail.
THEOREM ReuseAssertion == Separate => (Spec => []ReusedIsEmpty)
<1> SUFFICES ASSUME Separate PROVE Spec => []ReusedIsEmpty
  OBVIOUS
<1>1. Shape => ReusedIsEmpty
  <2> SUFFICES ASSUME Shape, NEW t \in Threads, at[t] = "unlink" PROVE buf[hold[t]] = <<>>
    BY DEF ReusedIsEmpty
  <2>1. on[t] \in Fds /\ hold[t] # NULL /\ hold[t] = pool[Slot(on[t])]
    BY DEF Shape, ThreadShape, AllocShape
  <2>2. Idle(hold[t])
    BY <2>1, HomeSlot DEF Shape, PoolShape
  <2> QED
    BY <2>2 DEF Shape, PoolShape, Idle
<1> QED
  BY <1>1, AlwaysShape, PTL

-----------------------------------------------------------------------------
(* Natural numbers.                                                        *)

Below == OpToRel(<, Nat)

LEMMA Smallest ==
  ASSUME NEW T, T \subseteq Nat, T # {}
  PROVE  \E x \in T : \A y \in T : x <= y
<1>1. IsWellFoundedOn(Below, Nat)
  BY NatLessThanWellFounded DEF Below
<1>2. \A x, y \in Nat : x < y => <<x, y>> \in Below
  BY DEF OpToRel, Below
<1>3. PICK x \in T : \A y \in T : ~ (<<y, x>> \in Below)
  BY <1>1, WFMin
<1>4. ASSUME NEW y \in T PROVE x <= y
  <2>1. ~ (y < x)
    BY <1>2, <1>3
  <2> QED
    BY <2>1
<1> QED
  BY <1>4

LEMMA Induction ==
  ASSUME NEW T, T \subseteq Nat, 0 \in T, \A n \in T : n + 1 \in T
  PROVE  T = Nat
<1> SUFFICES ASSUME Nat \ T # {} PROVE FALSE
  OBVIOUS
<1>1. PICK x \in Nat \ T : \A y \in Nat \ T : x <= y
  BY Smallest
<1>2. x - 1 \in Nat
  BY <1>1
<1>3. x - 1 \in T
  BY <1>1, <1>2
<1> QED
  BY <1>1, <1>3

-----------------------------------------------------------------------------
(* What is in a list.                                                      *)

\* g walks down the list of slot s and comes by every idle request that was
\* last used there.
Walk(s, g) ==
  /\ g \in [Nat -> Request \cup {NULL}]
  /\ g[0] = pool[s]
  /\ \A n \in Nat : g[n + 1] = IF g[n] = NULL THEN NULL ELSE link[g[n]]
  /\ \A n \in Nat : g[n] # NULL => Idle(g[n]) /\ Slot(parent[g[n]]) = s
  /\ \A r \in Request : Idle(r) /\ Slot(parent[r]) = s => \E n \in Nat : g[n] = r

Listed == \A s \in Slots : \E g : Walk(s, g)

LEMMA WalkSame ==
  ASSUME NEW s \in Slots, NEW g, Walk(s, g), SameLists
  PROVE  Walk(s, g)'
<1> USE DEF Walk, NULL
<1>1. \A n \in Nat : g[n] # NULL =>
        /\ g[n] \in Request /\ Idle(g[n]) /\ Idle(g[n])' 
        /\ link'[g[n]] = link[g[n]] /\ parent'[g[n]] = parent[g[n]]
  <2> SUFFICES ASSUME NEW n \in Nat, g[n] # NULL
               PROVE  /\ g[n] \in Request /\ Idle(g[n]) /\ Idle(g[n])' 
                      /\ link'[g[n]] = link[g[n]] /\ parent'[g[n]] = parent[g[n]]
    OBVIOUS
  <2>1. g[n] \in Request /\ Idle(g[n])
    OBVIOUS
  <2>2. ASSUME NEW r \in Request, r = g[n] PROVE Idle(g[n])'
    BY <2>1, <2>2 DEF SameLists
  <2> QED
    BY <2>1, <2>2 DEF SameLists
<1>2. \A n \in Nat : g[n + 1] = IF g[n] = NULL THEN NULL ELSE link'[g[n]]
  BY <1>1
<1>3. \A r \in Request : Idle(r)' /\ Slot(parent'[r]) = s => \E n \in Nat : g[n] = r
  BY DEF SameLists
<1>4. g[0] = pool'[s]
  BY DEF SameLists
<1> QED
  BY <1>1, <1>2, <1>3, <1>4

LEMMA ListedSame == Listed /\ SameLists => Listed'
BY WalkSame DEF Listed

\* Once the first of a list is taken the walk starts at the second.
LEMMA ListedUnlink ==
  ASSUME Separate, Shape, Listed, NEW t \in Threads, AllocUnlink(t), TypeOK'
  PROVE  Listed'
<1>1. PICK s \in Slots, r \in Request :
        /\ pool[s] = r /\ Idle(r) /\ Slot(parent[r]) = s
        /\ pool' = [pool EXCEPT ![s] = link[r]]
        /\ link' = link /\ \A q \in Request : q # r => parent'[q] = parent[q]
        /\ \A q \in Request : Idle(q)' <=> Idle(q) /\ q # r
  <2>1. /\ Slot(on[t]) \in Slots /\ hold[t] \in Request /\ pool[Slot(on[t])] = hold[t]
        /\ pool' = [pool EXCEPT ![Slot(on[t])] = link[hold[t]]]
        /\ link' = link /\ \A q \in Request : q # hold[t] => parent'[q] = parent[q]
        /\ \A q \in Request : Idle(q)' <=> Idle(q) /\ q # hold[t]
    BY AllocUnlinkShape, HomeSlot
  <2>2. Idle(hold[t]) /\ Slot(parent[hold[t]]) = Slot(on[t])
    BY <2>1 DEF Shape, PoolShape, NULL, Request
  <2> QED
    BY <2>1, <2>2
<1>2. ASSUME NEW z \in Slots, NEW g, Walk(z, g), z # s
      PROVE  Walk(z, g)'
  <2>1. pool'[z] = pool[z]
    BY <1>1, <1>2 DEF Shape, TypeOK
  <2>2. \A n \in Nat : g[n] # NULL =>
          g[n] \in Request /\ g[n] # r /\ Idle(g[n]) /\ parent'[g[n]] = parent[g[n]]
    BY <1>1, <1>2 DEF Walk
  <2>3. ASSUME NEW n \in Nat, g[n] # NULL PROVE Idle(g[n])'
    <3>1. ASSUME NEW q \in Request, q = g[n] PROVE Idle(g[n])'
      BY <1>1, <2>2, <2>3, <3>1
    <3> QED
      BY <2>2, <2>3, <3>1
  <2>4. ASSUME NEW q \in Request, Idle(q)', Slot(parent'[q]) = z
        PROVE  \E n \in Nat : g[n] = q
    BY <1>1, <1>2, <2>4 DEF Walk
  <2> QED
    BY <1>1, <1>2, <2>1, <2>2, <2>3, <2>4 DEF Walk
<1>3. ASSUME NEW g, Walk(s, g)
      PROVE  \E h : Walk(s, h)'
  <2>0. PICK h : h = [n \in Nat |-> g[n + 1]]
    OBVIOUS
  <2>1. g[0] = r /\ r # NULL /\ g[1] = link[r] /\ pool'[s] = link[r]
    <3>1. g[0] = r /\ r # NULL /\ g[0 + 1] = link[r]
      BY <1>1, <1>3 DEF Walk, Request, NULL
    <3>2. pool'[s] = link[r]
      BY <1>1 DEF Shape, TypeOK
    <3> QED
      BY <3>1, <3>2
  <2>2. h \in [Nat -> Request \cup {NULL}] /\ h[0] = pool'[s]
    BY <1>3, <2>0, <2>1 DEF Walk
  <2>3. \A n \in Nat : h[n + 1] = IF h[n] = NULL THEN NULL ELSE link'[h[n]]
    BY <1>1, <1>3, <2>0 DEF Walk
  <2>4. ASSUME NEW n \in Nat PROVE g[n + 1] # r
    <3> SUFFICES ASSUME g[n + 1] = r PROVE FALSE
      OBVIOUS
    <3>1. g[n] # NULL /\ g[n] \in Request /\ Idle(g[n]) /\ link[g[n]] = r
      BY <1>3, <2>1 DEF Walk
    <3> QED
      BY <3>1, <1>1, <2>1 DEF Shape, PoolShape
  <2>5. \A n \in Nat : h[n] # NULL =>
          /\ h[n] \in Request /\ h[n] # r /\ Idle(h[n])
          /\ parent'[h[n]] = parent[h[n]] /\ Slot(parent[h[n]]) = s
    BY <1>1, <1>3, <2>0, <2>4 DEF Walk
  <2>6. ASSUME NEW n \in Nat, h[n] # NULL PROVE Idle(h[n])'
    <3>1. ASSUME NEW q \in Request, q = h[n] PROVE Idle(q)'
      BY <1>1, <2>5, <2>6, <3>1
    <3>2. h[n] \in Request
      BY <2>5, <2>6
    <3> QED
      BY <3>1, <3>2
  <2>7. ASSUME NEW q \in Request, Idle(q)', Slot(parent'[q]) = s
        PROVE  \E n \in Nat : h[n] = q
    <3>1. q # r /\ Idle(q) /\ Slot(parent[q]) = s
      BY <1>1, <2>7
    <3>2. PICK n \in Nat : g[n] = q
      BY <1>3, <3>1 DEF Walk
    <3>3. n # 0
      BY <2>1, <3>1, <3>2
    <3>4. n - 1 \in Nat /\ g[(n - 1) + 1] = q
      BY <3>2, <3>3
    <3> QED
      BY <2>0, <3>4
  <2>8. Walk(s, h)'
    BY <2>2, <2>3, <2>5, <2>6, <2>7 DEF Walk
  <2> QED
    BY <2>8
<1> QED
  BY <1>2, <1>3 DEF Listed

\* Once a request is released the walk starts with it.
LEMMA ListedLink ==
  ASSUME Separate, Shape, Listed, NEW t \in Threads, FreeLink(t), TypeOK'
  PROVE  Listed'
<1>1. PICK s \in Slots, r \in Request :
        /\ ~ Idle(r) /\ link[r] = pool[s] /\ Slot(parent[r]) = s
        /\ pool' = [pool EXCEPT ![s] = r] /\ UNCHANGED <<link, parent>>
        /\ \A q \in Request : Idle(q)' <=> Idle(q) \/ q = r
  BY FreeLinkShape
<1>2. Slot(parent[r]) = s
  BY <1>1
<1>3. \A q \in Request : Idle(q) \/ q = r => Idle(q)'
  BY <1>1
<1>4. ASSUME NEW z \in Slots, NEW g, Walk(z, g), z # s
      PROVE  Walk(z, g)'
  <2>1. pool'[z] = pool[z]
    BY <1>1, <1>4 DEF Shape, TypeOK
  <2>2. \A n \in Nat : g[n] # NULL => g[n] \in Request /\ Idle(g[n])
    BY <1>4 DEF Walk
  <2>3. ASSUME NEW n \in Nat, g[n] # NULL PROVE Idle(g[n])'
    <3>1. ASSUME NEW q \in Request, q = g[n] PROVE Idle(g[n])'
      BY <1>3, <2>2, <2>3, <3>1
    <3> QED
      BY <2>2, <2>3, <3>1
  <2>4. ASSUME NEW q \in Request, Idle(q)', Slot(parent'[q]) = z
        PROVE  \E n \in Nat : g[n] = q
    BY <1>1, <1>2, <1>4, <2>4 DEF Walk
  <2> QED
    BY <1>1, <1>4, <2>1, <2>3, <2>4 DEF Walk
<1>5. ASSUME NEW g, Walk(s, g)
      PROVE  \E h : Walk(s, h)'
  <2>0. PICK h : h = [n \in Nat |-> IF n = 0 THEN r ELSE g[n - 1]]
    OBVIOUS
  <2>1. h[0] = r /\ r # NULL /\ r = pool'[s]
    BY <1>1, <2>0 DEF Shape, TypeOK, Request, NULL
  <2>2. \A n \in Nat : h[n + 1] = g[n]
    BY <2>0
  <2>3. h \in [Nat -> Request \cup {NULL}]
    BY <1>1, <1>5, <2>0 DEF Walk
  <2>4. ASSUME NEW n \in Nat PROVE h[n + 1] = IF h[n] = NULL THEN NULL ELSE link'[h[n]]
    <3>1. CASE n = 0
      BY <3>1, <1>1, <1>5, <2>1, <2>2 DEF Walk
    <3>2. CASE n # 0
      <4>1. n - 1 \in Nat /\ h[n] = g[n - 1] /\ h[n + 1] = g[(n - 1) + 1]
        BY <2>0, <3>2
      <4> QED
        BY <4>1, <1>1, <1>5 DEF Walk
    <3> QED
      BY <3>1, <3>2
  <2>5. ASSUME NEW n \in Nat, h[n] # NULL
        PROVE  h[n] \in Request /\ (Idle(h[n]) \/ h[n] = r) /\ Slot(parent[h[n]]) = s
    <3>1. CASE n = 0
      BY <3>1, <1>1, <1>2, <2>1
    <3>2. CASE n # 0
      <4>1. n - 1 \in Nat /\ h[n] = g[n - 1]
        BY <2>0, <3>2
      <4> QED
        BY <4>1, <1>5, <2>5 DEF Walk
    <3> QED
      BY <3>1, <3>2
  <2>6. ASSUME NEW q \in Request, Idle(q)', Slot(parent'[q]) = s
        PROVE  \E n \in Nat : h[n] = q
    <3>1. CASE q = r
      BY <3>1, <2>1
    <3>2. CASE q # r
      <4>1. Idle(q) /\ Slot(parent[q]) = s
        BY <1>1, <2>6, <3>2
      <4>2. PICK n \in Nat : g[n] = q
        BY <1>5, <4>1 DEF Walk
      <4> QED
        BY <2>2, <4>2
    <3> QED
      BY <3>1, <3>2
  <2>7. ASSUME NEW n \in Nat, h[n] # NULL PROVE Idle(h[n])'
    <3>1. ASSUME NEW q \in Request, q = h[n] PROVE Idle(h[n])'
      BY <1>3, <2>5, <2>7, <3>1
    <3> QED
      BY <2>5, <2>7, <3>1
  <2>8. Walk(s, h)'
    BY <1>1, <2>1, <2>3, <2>4, <2>5, <2>6, <2>7 DEF Walk
  <2> QED
    BY <2>8
<1> QED
  BY <1>4, <1>5 DEF Listed

LEMMA ListedStep == Separate /\ Shape /\ Listed /\ [Next]_vars => Listed'
<1> SUFFICES ASSUME Separate, Shape, Listed, [Next]_vars PROVE Listed'
  OBVIOUS
<1> TypeOK'
  BY TypeStep
<1>1. ASSUME NEW f \in Fds, Event(f) \/ Close(f) PROVE Listed'
  BY <1>1, EventShape, CloseShape, ListedSame
<1>2. ASSUME NEW t \in Threads, Step(t) PROVE Listed'
  BY <1>2, AllocNewShape, AllocTakeShape, RecvShape, ProcessShape, SendShape,
     FreeResetShape, ListedSame, ListedUnlink, ListedLink DEF Step
<1>3. CASE UNCHANGED vars
  <2>1. UNCHANGED <<pool, link, parent, fresh, released, connReq, at, hold>>
    BY <1>3 DEF vars, slotVars, reqVars, threadVars
  <2>2. SameLists
    BY <2>1 DEF SameLists, Idle, Unused, Working
  <2> QED
    BY <2>2, ListedSame
<1> QED
  BY <1>1, <1>2, <1>3 DEF Next

LEMMA ListedInit == Init => Listed
<1> SUFFICES ASSUME Init PROVE Listed
  OBVIOUS
<1>1. \A r \in Request : ~ Idle(r)
  BY WorkerSlotsAssumption DEF Init, Idle, Request
<1>2. ASSUME NEW s \in Slots PROVE Walk(s, [n \in Nat |-> NULL])
  BY <1>1 DEF Walk, Init
<1> QED
  BY <1>2 DEF Listed

-----------------------------------------------------------------------------
(* A list is as long as the requests there are, and Nth walks down it.     *)

LEMMA WalkEnds ==
  ASSUME NEW s \in Slots, NEW g, Walk(s, g), NEW m \in Nat, g[m] = NULL, NEW k \in Nat
  PROVE  g[m + k] = NULL
<1> DEFINE T == {n \in Nat : g[m + n] = NULL}
<1>1. 0 \in T
  OBVIOUS
<1>2. ASSUME NEW n \in T PROVE n + 1 \in T
  <2>1. g[(m + n) + 1] = NULL
    BY DEF Walk
  <2>2. (m + n) + 1 = m + (n + 1)
    OBVIOUS
  <2> QED
    BY <2>1, <2>2
<1> HIDE DEF T
<1>3. T = Nat
  <2>1. T \subseteq Nat
    BY DEF T
  <2> QED
    BY <1>1, <1>2, <2>1, Induction
<1> QED
  BY <1>3 DEF T

LEMMA WalkOnce ==
  ASSUME Shape, NEW s \in Slots, NEW g, Walk(s, g),
         NEW i \in Nat, NEW j \in Nat, i < j, g[i] = g[j]
  PROVE  g[i] = NULL
<1> SUFFICES ASSUME g[i] # NULL PROVE FALSE
  OBVIOUS
<1> DEFINE T == {a \in Nat : \E b \in Nat : a < b /\ g[a] = g[b] /\ g[a] # NULL}
<1>1. PICK a \in T : \A c \in T : a <= c
  <2>1. i \in T /\ T \subseteq Nat
    OBVIOUS
  <2> HIDE DEF T
  <2> QED
    BY <2>1, Smallest
<1>2. PICK b \in Nat : a \in Nat /\ a < b /\ g[a] = g[b] /\ g[a] # NULL
  OBVIOUS
<1>3. b - 1 \in Nat /\ g[(b - 1) + 1] = g[b]
  BY <1>2
<1>4. g[b - 1] # NULL /\ g[b - 1] \in Request /\ Idle(g[b - 1]) /\ link[g[b - 1]] = g[b]
  BY <1>2, <1>3 DEF Walk
<1>5. CASE a = 0
  <2>1. pool[s] = link[g[b - 1]]
    BY <1>2, <1>4, <1>5 DEF Walk
  <2>2. pool[s] # link[g[b - 1]]
    BY <1>2, <1>4 DEF Shape, PoolShape
  <2> QED
    BY <2>1, <2>2
<1>6. CASE a # 0
  <2>1. a - 1 \in Nat /\ g[(a - 1) + 1] = g[a]
    BY <1>2, <1>6
  <2>2. g[a - 1] # NULL /\ g[a - 1] \in Request /\ Idle(g[a - 1]) /\ link[g[a - 1]] = g[a]
    BY <1>2, <2>1 DEF Walk
  <2>3. g[a - 1] = g[b - 1]
    BY <1>2, <1>4, <2>2 DEF Shape, PoolShape
  <2>4. a - 1 \in T
    BY <1>2, <1>3, <2>1, <2>2, <2>3
  <2> QED
    BY <1>1, <1>2, <2>4
<1> QED
  BY <1>5, <1>6

LEMMA WalkShort ==
  ASSUME Shape, NEW s \in Slots, NEW g, Walk(s, g), NEW n \in Nat, g[n] # NULL
  PROVE  n \in 0 .. MaxReq
<1> USE WorkerSlotsAssumption
<1>1. ASSUME NEW i \in 0 .. n PROVE g[i] \in Request
  <2>1. n - i \in Nat /\ i + (n - i) = n /\ i \in Nat
    OBVIOUS
  <2>2. g[i] # NULL
    BY <2>1, WalkEnds
  <2> QED
    BY <2>1, <2>2 DEF Walk
<1>2. ASSUME NEW i \in 0 .. n, NEW j \in 0 .. n, g[i] = g[j] PROVE i = j
  <2>1. i \in Nat /\ j \in Nat /\ g[i] # NULL /\ g[j] # NULL
    BY <1>1 DEF Request, NULL
  <2>2. ~ (i < j) /\ ~ (j < i)
    BY <1>2, <2>1, WalkOnce
  <2> QED
    BY <2>1, <2>2
<1> DEFINE h == [i \in 0 .. n |-> g[i]]
<1>3. h \in Injection(0 .. n, Request)
  BY <1>1, <1>2 DEF Injection, IsInjective
<1>4. IsFiniteSet(Request) /\ Cardinality(Request) <= MaxReq
  <2>1. 1 \in Int /\ MaxReq \in Int
    OBVIOUS
  <2>2. /\ IsFiniteSet(1 .. MaxReq)
        /\ Cardinality(1 .. MaxReq) = IF 1 > MaxReq THEN 0 ELSE MaxReq - 1 + 1
    BY <2>1, FS_Interval
  <2> QED
    BY <2>2 DEF Request
<1>5. Cardinality(0 .. n) = n + 1
  BY FS_Interval
<1>6. Cardinality(0 .. n) <= Cardinality(Request)
  BY <1>3, <1>4, FS_Injection
<1>7. Cardinality(Request) \in Nat
  BY <1>4, FS_CardinalityType
<1> QED
  BY <1>4, <1>5, <1>6, <1>7

LEMMA NthIsWalk ==
  ASSUME NEW s \in Slots, NEW g, Walk(s, g), NEW n \in Nat
  PROVE  Nth(s)[n] = g[n]
<1> DEFINE F(h) == [k \in Nat |-> IF k = 0 THEN pool[s]
                                  ELSE IF h[k - 1] = NULL THEN NULL
                                  ELSE link[h[k - 1]]]
<1>1. Nth(s) = CHOOSE h : h = F(h)
  BY DEF Nth
<1>2. g = F(g)
  <2>1. ASSUME NEW k \in Nat PROVE g[k] = F(g)[k]
    <3>1. CASE k = 0
      BY <3>1 DEF Walk
    <3>2. CASE k # 0
      <4>1. k - 1 \in Nat /\ (k - 1) + 1 = k
        BY <3>2
      <4>2. g[(k - 1) + 1] = IF g[k - 1] = NULL THEN NULL ELSE link[g[k - 1]]
        BY <4>1 DEF Walk
      <4> QED
        BY <3>2, <4>1, <4>2
    <3> QED
      BY <3>1, <3>2
  <2> QED
    BY <2>1 DEF Walk
<1>3. Nth(s) = F(Nth(s))
  <2> HIDE DEF F
  <2> QED
    BY <1>1, <1>2
<1> DEFINE T == {k \in Nat : Nth(s)[k] = g[k]}
<1>4. 0 \in T
  BY <1>3 DEF Walk
<1>5. ASSUME NEW k \in T PROVE k + 1 \in T
  <2>1. Nth(s)[k + 1] = IF Nth(s)[k] = NULL THEN NULL ELSE link[Nth(s)[k]]
    <3>1. Nth(s)[k + 1] = F(Nth(s))[k + 1]
      BY <1>3
    <3>2. k + 1 \in Nat /\ k + 1 # 0 /\ (k + 1) - 1 = k
      OBVIOUS
    <3> QED
      BY <3>1, <3>2
  <2> QED
    BY <2>1 DEF Walk
<1> HIDE DEF T, F
<1>6. T = Nat
  <2>1. T \subseteq Nat
    BY DEF T
  <2> QED
    BY <1>4, <1>5, <2>1, Induction
<1> QED
  BY <1>6 DEF T

\* gr_tcp_req_alloc and gr_tcp_req_free lose no request of a slot, as long as
\* the connections that use it are received by one thread: what was allocated
\* is used, was given back, or is found in the list of the slot it was last
\* used with.
THEOREM NoneLostAlways == Separate => (Spec => []NoneLost)
<1> SUFFICES ASSUME Separate PROVE Spec => []NoneLost
  OBVIOUS
<1>1. Shape /\ Listed => NoneLost
  <2> SUFFICES ASSUME Shape, Listed, NEW r \in 1 .. fresh, Users(r) = {}, r \notin released
               PROVE  \E n \in 0 .. MaxReq : Nth(Slot(parent[r]))[n] = r
    BY DEF NoneLost
  <2>1. r \in Request /\ r <= fresh
    BY WorkerSlotsAssumption DEF Shape, TypeOK, Request
  <2>2. Unused(r)
    BY DEF Users, Unused, Working
  <2>3. Idle(r) /\ parent[r] \in Fds /\ Slot(parent[r]) \in Slots
    BY <2>1, <2>2, HomeSlot DEF Idle, Shape, MemoryShape
  <2>4. PICK g : Walk(Slot(parent[r]), g)
    BY <2>3 DEF Listed
  <2>5. PICK n \in Nat : g[n] = r
    BY <2>1, <2>3, <2>4 DEF Walk
  <2>6. n \in 0 .. MaxReq
    BY <2>1, <2>3, <2>4, <2>5, WalkShort DEF Request, NULL
  <2>7. Nth(Slot(parent[r]))[n] = r
    BY <2>3, <2>4, <2>5, NthIsWalk
  <2> QED
    BY <2>6, <2>7
<1>2. Shape /\ Listed /\ [Next]_vars => Shape' /\ Listed'
  BY ShapeStep, ListedStep
<1> QED
  BY <1>1, <1>2, ShapeInit, ListedInit, PTL DEF Spec
=============================================================================
