---------------------------- MODULE WorkerSlots ----------------------------
(***************************************************************************)
(* What the tcp.input threads share when worker.disabled is set: the slots *)
(* of the worker threads that were never started.  gr_worker_init makes    *)
(* tcp.in.thread_count + udp.in.thread_count of them; each has a list of   *)
(* released request objects and a context for the reply of the request     *)
(* being processed.  A connection is received by thread fd % TcpIn and     *)
(* uses slot fd % (TcpIn + UdpIn) (gr_tcp_in.c, gr_worker.c, gr_conn.c).   *)
(*                                                                         *)
(* The threads interleave between any two accesses to a slot, except that  *)
(* `list = list->next' and `req->next = list' are one step each.  A client *)
(* sends requests of PkgLen units, which are named by their connection, and*)
(* nothing behind them; a module answers with what it is given.  The       *)
(* socket takes every reply whole (InlineServer has the other case).       *)
(***************************************************************************)
EXTENDS Integers, Sequences

CONSTANTS
  TcpIn,     \* tcp.in.thread_count
  UdpIn,     \* udp.in.thread_count
  Fds,       \* the sockets of the connections
  PkgLen,    \* length of a request
  MaxUnits,  \* bound: how many units the clients send
  MaxReq     \* bound: how many request objects are allocated

ASSUME WorkerSlotsAssumption ==
  /\ TcpIn \in Nat \ {0} /\ UdpIn \in Nat \ {0}
  /\ Fds \in SUBSET Nat
  /\ PkgLen \in Nat \ {0} /\ MaxUnits \in Nat /\ MaxReq \in Nat

Request == 1..MaxReq
NULL == 0

Thread(f) == f % TcpIn
Slot(f) == f % (TcpIn + UdpIn)

Threads == {Thread(f) : f \in Fds}
Slots == {Slot(f) : f \in Fds}

VARIABLES
  pool,      \* gr_thread_t.free_tcp_req_list of every slot
  ctxt,      \* the reply in per_thread_t.bin_ctxt of every slot
  link,      \* entry.next of every request
  parent,    \* gr_tcp_req_t.parent
  buf,       \* gr_tcp_req_t.buf
  connReq,   \* gr_tcp_conn_item_t.req of every connection
  fresh,     \* how many requests gr_calloc has returned
  released,  \* requests given to gr_free
  at, on, hold,  \* every tcp.input thread: where it is, its connection, its request
  got,       \* what came back to every client
  units      \* how many units were sent

slotVars == <<pool, ctxt>>
reqVars == <<link, parent, buf, fresh, released>>
threadVars == <<at, on, hold>>
vars == <<slotVars, reqVars, connReq, threadVars, got, units>>

TypeOK ==
  /\ pool \in [Slots -> Request \cup {NULL}]
  /\ ctxt \in [Slots -> Seq(Fds)]
  /\ link \in [Request -> Request \cup {NULL}]
  /\ parent \in [Request -> Fds \cup {-1}]
  /\ buf \in [Request -> Seq(Fds)]
  /\ connReq \in [Fds -> Request \cup {NULL}]
  /\ fresh \in 0..MaxReq
  /\ released \in SUBSET Request
  /\ at \in [Threads -> {"idle", "alloc", "unlink", "recv", "proc", "send",
                         "free", "link"}]
  /\ on \in [Threads -> Fds \cup {-1}]
  /\ hold \in [Threads -> Request \cup {NULL}]
  /\ got \in [Fds -> Seq(Fds)]
  /\ units \in 0..MaxUnits

Init ==
  /\ pool = [s \in Slots |-> NULL]
  /\ ctxt = [s \in Slots |-> <<>>]
  /\ link = [r \in Request |-> NULL]
  /\ parent = [r \in Request |-> -1]
  /\ buf = [r \in Request |-> <<>>]
  /\ connReq = [f \in Fds |-> NULL]
  /\ fresh = 0 /\ released = {}
  /\ at = [t \in Threads |-> "idle"]
  /\ on = [t \in Threads |-> -1]
  /\ hold = [t \in Threads |-> NULL]
  /\ got = [f \in Fds |-> <<>>]
  /\ units = 0

-----------------------------------------------------------------------------
(* The request objects.                                                    *)

\* on_tcp_recv is called for f and prepares its request: the one it has, or a
\* new one.
Event(f) ==
  LET t == Thread(f)
  IN  /\ at[t] = "idle" /\ units < MaxUnits
      /\ units' = units + 1
      /\ on' = [on EXCEPT ![t] = f]
      /\ hold' = [hold EXCEPT ![t] = connReq[f]]
      /\ at' = [at EXCEPT ![t] = IF connReq[f] = NULL THEN "alloc" ELSE "recv"]
      /\ UNCHANGED <<slotVars, reqVars, connReq, got>>

Give(t, r) ==
  /\ connReq' = [connReq EXCEPT ![on[t]] = r]
  /\ parent' = [parent EXCEPT ![r] = on[t]]
  /\ hold' = [hold EXCEPT ![t] = r]
  /\ at' = [at EXCEPT ![t] = "recv"]

\* gr_tcp_req_alloc: nothing to reuse.
AllocNew(t) ==
  /\ at[t] = "alloc" /\ pool[Slot(on[t])] = NULL /\ fresh < MaxReq
  /\ fresh' = fresh + 1
  /\ Give(t, fresh + 1)
  /\ UNCHANGED <<slotVars, link, buf, released, on, got, units>>

\* gr_tcp_req_alloc: the list is loaded ...
AllocTake(t) ==
  /\ at[t] = "alloc" /\ pool[Slot(on[t])] # NULL
  /\ hold' = [hold EXCEPT ![t] = pool[Slot(on[t])]]
  /\ at' = [at EXCEPT ![t] = "unlink"]
  /\ UNCHANGED <<slotVars, reqVars, connReq, on, got, units>>

\* Seeded slip: the request that is reused stays in the list.
AllocUnlink_Stays(t) ==
  /\ at[t] = "unlink"
  /\ Give(t, hold[t])
  /\ UNCHANGED <<slotVars, link, buf, fresh, released, on, got, units>>

\* ... and stored.
AllocUnlink(t) ==
  /\ at[t] = "unlink"
  /\ pool' = [pool EXCEPT ![Slot(on[t])] = link[hold[t]]]
  /\ Give(t, hold[t])
  /\ UNCHANGED <<ctxt, link, buf, fresh, released, on, got, units>>

\* gr_tcp_req_free( req, true ): the list is loaded ...
FreeReset(t) ==
  /\ at[t] = "free"
  /\ buf' = [buf EXCEPT ![hold[t]] = <<>>]
  /\ link' = [link EXCEPT ![hold[t]] = pool[Slot(parent[hold[t]])]]
  /\ at' = [at EXCEPT ![t] = "link"]
  /\ UNCHANGED <<slotVars, parent, fresh, released, connReq, on, hold, got, units>>

\* Seeded slip: the request goes to the slot numbered like the thread.
FreeLink_OwnThread(t) ==
  /\ at[t] = "link"
  /\ pool' = [pool EXCEPT ![t] = hold[t]]
  /\ hold' = [hold EXCEPT ![t] = NULL]
  /\ at' = [at EXCEPT ![t] = "idle"]
  /\ UNCHANGED <<ctxt, reqVars, connReq, on, got, units>>

\* ... and stored.
FreeLink(t) ==
  /\ at[t] = "link"
  /\ pool' = [pool EXCEPT ![Slot(parent[hold[t]])] = hold[t]]
  /\ hold' = [hold EXCEPT ![t] = NULL]
  /\ at' = [at EXCEPT ![t] = "idle"]
  /\ UNCHANGED <<ctxt, reqVars, connReq, on, got, units>>

\* A connection ends: gr_tcp_conn_del_receiving_req frees its request for good.
\* The socket's number is used again by the next connection.
Close(f) ==
  /\ at[Thread(f)] = "idle" /\ connReq[f] # NULL
  /\ released' = released \cup {connReq[f]}
  /\ connReq' = [connReq EXCEPT ![f] = NULL]
  /\ UNCHANGED <<slotVars, link, parent, buf, fresh, threadVars, got, units>>

-----------------------------------------------------------------------------
(* A request.                                                              *)

Recv(t) ==
  LET r == hold[t]
  IN  /\ at[t] = "recv"
      /\ buf' = [buf EXCEPT ![r] = Append(@, on[t])]
      /\ IF Len(buf[r]) + 1 >= PkgLen
         THEN /\ at' = [at EXCEPT ![t] = "proc"]
              /\ UNCHANGED hold
         ELSE /\ at' = [at EXCEPT ![t] = "idle"]
              /\ hold' = [hold EXCEPT ![t] = NULL]
      /\ UNCHANGED <<slotVars, link, parent, fresh, released, connReq, on, got, units>>

\* Seeded slip: the connection keeps the request that is processed.
Process_Keeps(t) ==
  /\ at[t] = "proc"
  /\ ctxt' = [ctxt EXCEPT ![Slot(parent[hold[t]])] = buf[hold[t]]]
  /\ at' = [at EXCEPT ![t] = "send"]
  /\ UNCHANGED <<pool, reqVars, connReq, on, hold, got, units>>

\* prepare_add_tcp_req, and process_tcp up to the module's answer.
Process(t) ==
  /\ at[t] = "proc"
  /\ connReq' = [connReq EXCEPT ![parent[hold[t]]] = NULL]
  /\ ctxt' = [ctxt EXCEPT ![Slot(parent[hold[t]])] = buf[hold[t]]]
  /\ at' = [at EXCEPT ![t] = "send"]
  /\ UNCHANGED <<pool, reqVars, on, hold, got, units>>

\* process_tcp sends what it finds in the context, and empties it.
Send(t) ==
  LET f == parent[hold[t]]
  IN  /\ at[t] = "send"
      /\ got' = [got EXCEPT ![f] = @ \o ctxt[Slot(f)]]
      /\ ctxt' = [ctxt EXCEPT ![Slot(f)] = <<>>]
      /\ at' = [at EXCEPT ![t] = "free"]
      /\ UNCHANGED <<pool, reqVars, connReq, on, hold, units>>

-----------------------------------------------------------------------------
Step(t) ==
  \/ AllocNew(t) \/ AllocTake(t) \/ AllocUnlink(t) \/ Recv(t) \/ Process(t)
  \/ Send(t) \/ FreeReset(t) \/ FreeLink(t)

Next ==
  \/ \E t \in Threads : Step(t)
  \/ \E f \in Fds : Event(f) \/ Close(f)

Spec == Init /\ [][Next]_vars

-----------------------------------------------------------------------------
(* What holds when no two threads use one slot.                            *)

Separate == \A f, g \in Fds : Slot(f) = Slot(g) => Thread(f) = Thread(g)

\* The connections that have request r, or whose thread is at work with it.
Users(r) ==
  {f \in Fds : connReq[f] = r}
    \cup {on[t] : t \in {u \in Threads :
            hold[u] = r /\ at[u] \in {"recv", "proc", "send", "free", "link"}}}

\* A request is used by one connection at a time, and then nobody else can come
\* by it: it is not the next to be reused, nor linked to, nor freed.
OneUser ==
  \A r \in Request : Users(r) # {} =>
    /\ \A f, g \in Users(r) : f = g
    /\ r \notin released
    /\ \A s \in Slots : pool[s] # r

\* Every client gets answers to what it sent itself.
OwnAnswers == \A f \in Fds : \A i \in 1..Len(got[f]) : got[f][i] = f

\* The n-th request of a list of released ones.
Nth(s) == LET nth[n \in Nat] == IF n = 0 THEN pool[s]
                                ELSE IF nth[n - 1] = NULL THEN NULL
                                ELSE link[nth[n - 1]]
          IN  nth

\* No request is lost from the lists: one that is not used and was not given
\* back to malloc can be reused by the slot it was last used with.
NoneLost ==
  \A r \in 1..fresh :
    \/ Users(r) # {} \/ r \in released
    \/ \E n \in 0..MaxReq : Nth(Slot(parent[r]))[n] = r

\* assert( 0 == req->buf_len ) of gr_tcp_req_alloc (gr_conn.c:514): what it
\* takes from a list holds no bytes of an earlier request.
ReusedIsEmpty == \A t \in Threads : at[t] = "unlink" => buf[hold[t]] = <<>>

-----------------------------------------------------------------------------
(* What a test says and the code does not do.                              *)

\* test_tcp_client.c:543: `if ( 0 != memcmp( rsp, req, rsp_len ) )' is
\* "compare failed": an echoed answer is what its client sent.
EchoedToItsClient == OwnAnswers
=============================================================================
