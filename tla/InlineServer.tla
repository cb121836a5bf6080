---------------------------- MODULE InlineServer ----------------------------
(***************************************************************************)
(* The server as conf/grocketd.ini configures it: no worker threads and no *)
(* tcp.output thread.  One tcp.input thread receives, checks, processes    *)
(* and answers the requests of all its connections, driven by one edge     *)
(* triggered epoll (tcp_io.h, gr_poll_linux.c, gr_worker.c, gr_conn.c,     *)
(* gr_tcp_close.c); the accept thread adds connections to that epoll.      *)
(*                                                                         *)
(* A handler of one event is one step: the accept thread never touches a   *)
(* connection after adding it, so only the kernel and the client interleave*)
(* with a handler, and what they do in the middle of it they could as well *)
(* have done before or after.  Handlers are operators from the state of    *)
(* their connection to its next one, composed as the C functions call each *)
(* other.  epoll_ctl does not fail.                                        *)
(*                                                                         *)
(* Data is counted in units: PkgLen of them make a request, ReplyLen a     *)
(* reply.  The n-th reply consists of the units (n-1)*ReplyLen + 1 up to   *)
(* n*ReplyLen, which is all the model keeps of its contents.               *)
(***************************************************************************)
EXTENDS Integers, Sequences

CONSTANTS
  Conns,      \* the connections
  MaxSend,    \* bound: how many units each client sends
  PkgLen,     \* length of a request
  ReplyLen,   \* length of a reply
  BufMax,     \* tcp.recv_buf.max; the last unit of the buffer is kept for '\0'
  Room,       \* size of a socket's send buffer
  Outcomes    \* what gr_check, gr_proc and malloc may answer for a connection

Answers == {"reply",    \* processed_len > 0, with a reply
            "silent",   \* processed_len > 0, without one
            "last",     \* processed_len = 0, with a reply
            "close",    \* processed_len < 0
            "norsp",    \* as "reply", but gr_tcp_rsp_alloc fails
            "noreq",    \* gr_tcp_req_alloc fails for the data left over
            "bad"}      \* gr_check finds a protocol error

ASSUME InlineAssumption ==
  /\ MaxSend \in [Conns -> Nat] /\ PkgLen \in Nat \ {0} /\ ReplyLen \in Nat \ {0}
  /\ BufMax \in Nat \ {0} /\ Room \in Nat \ {0}
  /\ Outcomes \in [Conns -> SUBSET Answers]

VARIABLES
  conn,       \* gr_tcp_conn_item_t of every connection, see ConnType
  sock,       \* its socket: what the kernel holds, and the client behind it
  epoll,      \* its entry in the epoll of the tcp.input thread
  alreadyIn,  \* poll->already_in, one flag for the whole poll
  batch,      \* the events epoll_wait returned that are still to be handled
  replies     \* how many replies gr_proc has produced

vars == <<conn, sock, epoll, alreadyIn, batch, replies>>

Event == {"IN", "OUT", "ERR"}

\* closing: close_type = GR_NEED_CLOSE;  req: units in conn->req;
\* head: rsp_list_head # NULL;  pend: what the list has left to send.
ConnType == [life : {"none", "live", "freed"}, closing : BOOLEAN,
             netErr : BOOLEAN, inOpen : BOOLEAN, outOpen : BOOLEAN,
             workerOpen : BOOLEAN, req : Nat, head : BOOLEAN, pend : Seq(Nat)]

\* sent: units the client sent;  rx: those not yet received;
\* tx: units handed to the kernel;  room: space left in the send buffer.
SockType == [peer : {"up", "fin", "rst"}, sent : Nat, rx : Nat,
             tx : Seq(Nat), room : 0..Room]

EpollType == [reg : BOOLEAN, mask : SUBSET {"IN", "OUT"}, ready : BOOLEAN]

TypeOK ==
  /\ conn \in [Conns -> ConnType]
  /\ sock \in [Conns -> SockType]
  /\ epoll \in [Conns -> EpollType]
  /\ alreadyIn \in BOOLEAN
  /\ batch \in [Conns -> SUBSET Event]
  /\ replies \in [Conns -> Nat]

Init ==
  /\ conn = [c \in Conns |->
               [life |-> "none", closing |-> FALSE, netErr |-> FALSE,
                inOpen |-> FALSE, outOpen |-> FALSE, workerOpen |-> FALSE,
                req |-> 0, head |-> FALSE, pend |-> <<>>]]
  /\ sock = [c \in Conns |-> [peer |-> "up", sent |-> 0, rx |-> 0,
                              tx |-> <<>>, room |-> Room]]
  /\ epoll = [c \in Conns |-> [reg |-> FALSE, mask |-> {}, ready |-> FALSE]]
  /\ alreadyIn = FALSE
  /\ batch = [c \in Conns |-> {}]
  /\ replies = [c \in Conns |-> 0]

-----------------------------------------------------------------------------
(* The kernel.                                                             *)

\* What epoll reports of a socket that is registered for mask.
Events(s, mask) ==
  {e \in mask : \/ e = "IN" /\ (s.rx > 0 \/ s.peer # "up")
                \/ e = "OUT" /\ (s.room > 0 \/ s.peer = "rst")}
  \cup (IF s.peer = "rst" THEN {"ERR"} ELSE {})

\* The edge of an event: noticed when the entry is registered for it.
Edge(e, event) ==
  [e EXCEPT !.ready = @ \/ (e.reg /\ (event = "ERR" \/ event \in e.mask))]

(* A handler's state k: its connection k.c, socket k.s and epoll entry k.e,*)
(* the poll's flag k.in and the replies k.n produced so far.               *)

\* epoll_ctl ADD and MOD look at the socket and may find it ready.
Register(k, mask) ==
  [k EXCEPT !.e = [reg |-> TRUE, mask |-> mask, ready |-> Events(k.s, mask) # {}]]

Unregister(k) == [k EXCEPT !.e = [reg |-> FALSE, mask |-> {}, ready |-> FALSE]]

\* Seeded slip: send() is taken to accept everything.
Fits_All(k, data) == data

\* send() of the units in data takes what there is room for.
Fits(k, data) == SubSeq(data, 1, IF k.s.room < Len(data) THEN k.s.room ELSE Len(data))
Sent(k, data) ==
  [k EXCEPT !.s.tx = @ \o Fits(k, data), !.s.room = @ - Len(Fits(k, data))]
Unsent(k, data) == SubSeq(data, Len(Fits(k, data)) + 1, Len(data))

-----------------------------------------------------------------------------
(* Closing a connection.                                                   *)

Free(k) == [k EXCEPT !.c.life = "freed", !.c.req = 0]

\* gr_tcp_conn_clear_rsp_list
ClearRsp(k) == [k EXCEPT !.c.head = FALSE, !.c.pend = <<>>]

\* Seeded slip: the connection is freed but stays in the epoll.
CloseFromOut_StaysRegistered(k) ==
  LET u == [ClearRsp(k) EXCEPT !.c.workerOpen = FALSE, !.c.outOpen = FALSE]
  IN  IF u.c.inOpen THEN u ELSE Free(u)

\* gr_tcp_close_from_out.  With processing done inline the worker is not busy
\* when a connection is closed, so worker_open is cleared.
CloseFromOut(k) ==
  LET u == [Unregister(ClearRsp(k)) EXCEPT !.c.workerOpen = FALSE,
                                           !.c.outOpen = FALSE]
  IN  IF u.c.inOpen THEN u ELSE Free(u)

\* gr_tcp_close_from_in
CloseFromIn(k) ==
  CloseFromOut([k EXCEPT !.c.closing = TRUE, !.c.req = 0,
                         !.c.workerOpen = FALSE, !.c.inOpen = FALSE])

\* gr_poll_recv_done after an error
RecvDone(k) == [Unregister(k) EXCEPT !.in = FALSE]

\* on_tcp_recv_error
RecvError(k) == CloseFromIn([RecvDone(k) EXCEPT !.c.outOpen = FALSE])

\* What on_tcp_send does to close a connection.
SendClose(k) == CloseFromOut([k EXCEPT !.c.inOpen = FALSE])

-----------------------------------------------------------------------------
(* Processing a request: gr_worker_process_tcp.                            *)

NetworkError(k) == [k EXCEPT !.c.netErr = TRUE, !.c.closing = TRUE]

\* Seeded slip: what did not fit into the socket is queued without arming OUT.
OutAdd_NoOut(k) == [k EXCEPT !.c.outOpen = TRUE]

\* gr_tcp_out_add
OutAdd(k) == Register([k EXCEPT !.c.outOpen = TRUE], {"IN", "OUT"})

\* gr_tcp_conn_add_rsp: replies that are sent leave the list, so it holds what
\* is left to send behind a head that never becomes NULL again.
AddRsp(k, data) == [k EXCEPT !.c.head = TRUE, !.c.pend = @ \o data]

\* Seeded slip: a reply is sent ahead of the ones that wait.
HasPending_Never(k) == FALSE

\* gr_tcp_conn_has_pending_rsp
HasPending(k) == k.c.pend # <<>>

\* try_to_send_tcp_rsp
TryToSend(k, data) ==
  IF HasPending(k) THEN k
  ELSE IF k.s.peer = "rst" THEN NetworkError(k)
  ELSE Sent(k, data)

\* What process_tcp does with the reply gr_proc left it.
Reply(k, outcome) ==
  LET data == [i \in 1..ReplyLen |-> (k.n - 1) * ReplyLen + i]
      u    == TryToSend(k, data)
      left == SubSeq(data, Len(u.s.tx) - Len(k.s.tx) + 1, ReplyLen)
  IN  IF left = <<>> \/ u.c.netErr THEN u
      ELSE IF outcome = "norsp" THEN [u EXCEPT !.c.closing = TRUE]
      ELSE OutAdd(AddRsp(u, left))

\* gr_tcp_conn_pop_top_req: the request in hand is always the last one, and
\* worker_hash has set worker_open although there is no worker.
PopTopReq(k) == IF k.c.closing THEN CloseFromOut(k) ELSE k

\* worker_hash and prepare_add_tcp_req: data behind the first request goes back
\* to the connection.
TakeRequest(k) == [k EXCEPT !.c.workerOpen = TRUE, !.c.req = @ - PkgLen]

Process(k, outcome) ==
  LET u == [TakeRequest(k) EXCEPT
              !.c.closing = @ \/ outcome \in {"last", "close"}]
  IN  IF outcome \in {"reply", "last", "norsp"}
      THEN PopTopReq(Reply([u EXCEPT !.n = @ + 1], outcome))
      ELSE PopTopReq(u)

-----------------------------------------------------------------------------
(* The handlers of tcp_io_worker.                                          *)

\* gr_tcp_conn_prepare_recv finds no room, even when nothing more would come.
BufferFull(k) == k.c.req + k.s.rx >= BufMax - 1

\* gr_poll_recv: everything there is; the end of the stream is noticed after
\* the data before it, and a buffer that is full is an error.
Received(k) ==
  [k EXCEPT !.c.req = @ + k.s.rx, !.s.rx = 0,
            !.c.closing = @ \/ k.s.peer # "up",
            !.c.netErr = @ \/ k.s.peer # "up"]

\* Seeded slip: a recv() that ends without data is taken for nothing to read.
OnRecv_NoEof(k, outcome) ==
  LET u == Received(k)
  IN  IF k.s.rx = 0 THEN u
      ELSE IF u.c.req < PkgLen THEN u ELSE Process(u, outcome)

\* on_tcp_recv.  "bad" is gr_check's answer; "noreq" is met only when data is
\* left over behind the request.
OnRecv(k, outcome) ==
  LET u == Received(k)
  IN  IF \/ k.c.netErr \/ k.c.closing
         \/ BufferFull(k)
         \/ k.s.rx = 0
         \/ outcome = "bad"
         \/ outcome = "noreq" /\ u.c.req > PkgLen
      THEN RecvError(k)
      ELSE IF u.c.req < PkgLen THEN u ELSE Process(u, outcome)

\* Seeded slip: OUT is taken out of the mask although data is left.
PollSend_Disarms(k) ==
  Register([Sent(k, k.c.pend) EXCEPT !.c.pend = Unsent(k, k.c.pend)],
           IF k.in THEN {"IN"} ELSE {})

\* gr_poll_send: when all is sent, OUT is taken out of the mask, and the mask
\* that remains depends on poll->already_in.
PollSend(k) ==
  LET u == [Sent(k, k.c.pend) EXCEPT !.c.pend = Unsent(k, k.c.pend)]
  IN  IF u.c.pend # <<>> THEN u ELSE Register(u, IF k.in THEN {"IN"} ELSE {})

\* on_tcp_send
OnSend(k) ==
  LET u == PollSend(k)
  IN  IF k.c.netErr THEN SendClose(k)
      ELSE IF k.c.pend # <<>> /\ k.s.peer = "rst" THEN SendClose(NetworkError(k))
      ELSE IF u.c.closing /\ ~ u.c.head THEN SendClose(u)
      ELSE u

\* Seeded slip: every event makes the thread receive.
Handled_RecvAlways(k, events, outcome) == OnRecv(k, outcome)

Handled(k, events, outcome) ==
  IF "IN" \in events THEN OnRecv(k, outcome)
  ELSE IF "OUT" \in events THEN OnSend(k)
  ELSE RecvError(k)

Handler(c) == [c |-> conn[c], s |-> sock[c], e |-> epoll[c],
               in |-> alreadyIn, n |-> replies[c]]

Handle(c) ==
  /\ batch[c] # {}
  /\ \E outcome \in Outcomes[c] :
       LET k == Handled(Handler(c), batch[c], outcome)
       IN  /\ conn' = [conn EXCEPT ![c] = k.c]
           /\ sock' = [sock EXCEPT ![c] = k.s]
           /\ epoll' = [epoll EXCEPT ![c] = k.e]
           /\ alreadyIn' = k.in
           /\ replies' = [replies EXCEPT ![c] = k.n]
  /\ batch' = [batch EXCEPT ![c] = {}]

\* epoll_wait reports every ready entry once per edge.
Poll ==
  /\ \A c \in Conns : batch[c] = {}
  /\ \E c \in Conns : epoll[c].ready
  /\ batch' = [c \in Conns |-> IF epoll[c].ready
                               THEN Events(sock[c], epoll[c].mask) ELSE {}]
  /\ epoll' = [c \in Conns |-> [epoll[c] EXCEPT !.ready = FALSE]]
  /\ UNCHANGED <<conn, sock, alreadyIn, replies>>

-----------------------------------------------------------------------------
(* The accept thread and the clients.                                      *)

\* gr_tcp_in_add_conn: with tcp.output disabled the poll wants OUT as well, so
\* the new connection is ready at once.
AddConn(c) ==
  /\ conn' = [conn EXCEPT ![c].life = "live", ![c].inOpen = TRUE]
  /\ epoll' = [epoll EXCEPT ![c] = [reg |-> TRUE, mask |-> {"IN", "OUT"},
                                    ready |-> TRUE]]
  /\ alreadyIn' = TRUE

Accept(c) ==
  /\ conn[c].life = "none"
  /\ AddConn(c)
  /\ UNCHANGED <<sock, batch, replies>>

\* gr_module_on_tcp_accept does not like the connection.
Reject(c) ==
  /\ conn[c].life = "none"
  /\ conn' = [conn EXCEPT ![c].life = "freed"]
  /\ UNCHANGED <<sock, epoll, alreadyIn, batch, replies>>

Client(c, s, event) ==
  /\ conn[c].life # "freed"
  /\ sock' = [sock EXCEPT ![c] = s]
  /\ epoll' = [epoll EXCEPT ![c] = Edge(@, event)]
  /\ UNCHANGED <<conn, alreadyIn, batch, replies>>

ClientSend(c) ==
  /\ sock[c].peer = "up" /\ sock[c].sent < MaxSend[c]
  /\ Client(c, [sock[c] EXCEPT !.sent = @ + 1, !.rx = @ + 1], "IN")

ClientFin(c) ==
  /\ sock[c].peer = "up"
  /\ Client(c, [sock[c] EXCEPT !.peer = "fin"], "IN")

ClientReset(c) ==
  /\ sock[c].peer # "rst"
  /\ Client(c, [sock[c] EXCEPT !.peer = "rst"], "ERR")

ClientRead(c) ==
  /\ sock[c].peer # "rst" /\ sock[c].room < Room
  /\ Client(c, [sock[c] EXCEPT !.room = Room],
            IF sock[c].room = 0 THEN "OUT" ELSE "none")

Next ==
  \/ Poll
  \/ \E c \in Conns : \/ Accept(c) \/ Reject(c) \/ Handle(c)
                      \/ ClientSend(c) \/ ClientFin(c) \/ ClientReset(c)
                      \/ ClientRead(c)

\* Handle(c) as its fairness sees it: it alone empties the batch of c.
HandleBatch(c) == batch[c] # {} /\ batch' = [batch EXCEPT ![c] = {}]

\* The tcp.input thread runs, and clients read what they are sent.
Fairness ==
  /\ WF_vars(Poll)
  /\ \A c \in Conns : WF_batch(HandleBatch(c)) /\ WF_vars(ClientRead(c))

Spec == Init /\ [][Next]_vars /\ Fairness

-----------------------------------------------------------------------------
(* What holds.                                                             *)

Live(c) == conn[c].life = "live"

\* No event is ever handled for a connection that was freed: it has left the
\* epoll, and the batch that epoll_wait filled before that does not name it
\* again (tcp_io.h:349-365 uses e->data.ptr without asking).
NoStaleEvent == \A c \in Conns : ~ Live(c) => ~ epoll[c].reg /\ batch[c] = {}

\* Whatever gr_proc answers, the client gets the units of the replies in the
\* order they were produced and without a gap: a reply sent directly from
\* process_tcp never overtakes one that waits in the list.  As long as no error
\* was met and no module asks to disconnect, what was produced is either in the
\* kernel or in the list: no partial send loses any.
RepliesInOrder ==
  \A c \in Conns :
    /\ \A i \in 1..Len(sock[c].tx) : sock[c].tx[i] = i
    /\ conn[c].pend # <<>> => Head(conn[c].pend) = Len(sock[c].tx) + 1
    /\ Live(c) /\ ~ conn[c].netErr /\ ~ conn[c].closing =>
         Len(sock[c].tx) + Len(conn[c].pend) = replies[c] * ReplyLen

\* A reply that waits can be waited for: its connection is in the epoll for
\* OUT, whatever other requests and events came since ("there is nothing to
\* drive the sending any more", gr_poll_linux.c:530-534).
PendingIsArmed ==
  \A c \in Conns :
    conn[c].pend # <<>> => Live(c) /\ epoll[c].reg /\ "OUT" \in epoll[c].mask

\* A connection whose module never asks to disconnect, and whose requests fit
\* the buffer, is lost only when its client closed or broke it, whatever other
\* connections do: no handler finds an event it did not expect, such as IN
\* without data, which on_tcp_recv takes for the end of the connection.
HealthyStaysOpen ==
  [][\A c \in Conns :
       /\ Outcomes[c] \subseteq {"reply", "silent"} /\ ~ BufferFull(Handler(c))
       /\ Live(c) /\ conn'[c].life = "freed"
       => sock[c].peer # "up"]_vars

\* A reply that did not fit is sent to its end, unless the connection breaks,
\* when every request of that connection is answered (one that is not may use
\* up the event the reply waits for).
PendingIsSent ==
  \A c \in Conns :
    Outcomes[c] = {"reply"} /\ conn[c].pend # <<>> ~> conn[c].pend = <<>>

\* A connection that has lost its interest in data: del_tcp_send_fd has put the
\* mask of poll->already_in in place after del_tcp_recv_fd, for another
\* connection, had cleared that flag (gr_poll_linux.c:270, 297).
Deaf(c) ==
  /\ Live(c) /\ "IN" \notin epoll[c].mask
  /\ \E d \in Conns \ {c} : conn[d].life = "freed"

\* The end of a stream that carries no more data frees the connection, unless
\* the close of another one has made it deaf: nothing else that happens on the
\* poll, and no reply that waits, keeps the thread from noticing it.
FinIsNoticed ==
  \A c \in Conns :
    Live(c) /\ sock[c].peer = "fin" /\ sock[c].rx = 0 /\ ~ conn[c].closing
      ~> conn[c].life = "freed" \/ Deaf(c)

-----------------------------------------------------------------------------
(* What the comments say and the code does not do: TLC refutes each of     *)
(* these with the constants of MCInlineServer_mixed.cfg.                   *)

\* gr_conn.h:248: "whether it is listening for data; only when this is false
\* will it receive none" of tcp_in_open.
InOpenListens ==
  \A c \in Conns : Live(c) /\ conn[c].inOpen /\ ~ conn[c].closing =>
                     epoll[c].reg /\ "IN" \in epoll[c].mask

\* gr_tcp_close.c:93: "it must be guaranteed that the connection is deleted";
\* grocket.h:487: processed_len < 0 is "need disconnect connection".
ClosingIsFreed ==
  \A c \in Conns : conn[c].closing ~> conn[c].life = "freed"

\* gr_worker.c:428: processed_len = 0 closes the connection, "but the current
\* reply is still sent".
LastReplyIsSent ==
  \A c \in Conns :
    conn[c].life # "none" /\ sock[c].peer = "up" =>
      Len(sock[c].tx) + Len(conn[c].pend) = replies[c] * ReplyLen
=============================================================================
