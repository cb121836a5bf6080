------------------------------ MODULE ReplyList ------------------------------
(***************************************************************************)
(* The replies of one connection when tcp.output is enabled: the worker    *)
(* thread sends a reply itself when none is waiting and else appends it    *)
(* (try_to_send_tcp_rsp, gr_tcp_conn_add_rsp); the tcp.output thread sends *)
(* what waits (gr_poll_send) whenever its epoll reports room.  Both write  *)
(* to the same socket without a lock.                                      *)
(*                                                                         *)
(* A reply is named by the number of its request and has Size units.  The  *)
(* threads interleave between any two accesses to memory they share; those *)
(* to what one of them alone reads or writes (head and tail, once curr is  *)
(* set) are merged with the next shared one.  The connection stays open    *)
(* and healthy; memory is as in WorkerQueue.                               *)
(***************************************************************************)
EXTENDS Integers, Sequences, FiniteSets

CONSTANTS
  MaxRsp,     \* bound: how many replies the module gives
  Size,       \* units of a reply
  Room,       \* units the send buffer of the socket takes
  MayReload   \* may the build load conn->rsp_list_curr again in gr_conn.c:331?

ASSUME ReplyListAssumption ==
  /\ MaxRsp \in Nat \ {0} /\ Size \in Nat \ {0} /\ Room \in Nat \ {0}
  /\ MayReload \in BOOLEAN

Reply == 1 .. MaxRsp
NULL == 0
ALL_DONE == -1
Link == Reply \cup {NULL}

VARIABLES
  head, tail, curr,   \* gr_tcp_conn_item_t.rsp_list_head, _tail, _curr
  next,               \* gr_queue_item_t.next of every reply
  freed,              \* replies given to gr_tcp_rsp_free
  bufSent,            \* gr_tcp_rsp_t.buf_sent, or sent of try_to_send_tcp_rsp
  direct,             \* replies that never were in the list
  rsp,                \* the reply the worker is at, or was at last
  worker,             \* where the worker is
  oldCurr, willDel,   \* the locals curr and will_del of gr_tcp_conn_add_rsp
  item,               \* the reply tcp.output is at, NULL outside gr_poll_send's loop
  follow,             \* the local next of gr_tcp_conn_pop_top_rsp
  out,                \* where tcp.output is
  pos,                \* the reply tcp.output took last
  armed, event,       \* the socket in tcp.output's epoll: EPOLLOUT asked for, reported
  room,               \* what the send buffer takes at the moment
  got                 \* the units the socket took, by reply

listVars   == <<head, tail, curr, next, freed>>
workerVars == <<rsp, worker, oldCurr, willDel, direct>>
outVars    == <<item, follow, out, pos>>
socketVars == <<armed, event, room, got, bufSent>>
vars       == <<listVars, workerVars, outVars, socketVars>>

TypeOK ==
  /\ head \in Link /\ tail \in Link /\ curr \in Link \cup {ALL_DONE}
  /\ next \in [Reply -> Link]
  /\ freed \subseteq Reply /\ direct \subseteq Reply
  /\ bufSent \in [Reply -> 0 .. Size]
  /\ rsp \in Link /\ oldCurr \in Link \cup {ALL_DONE} /\ willDel \in Link
  /\ worker \in {"idle", "pending", "direct", "add", "test", "unlink", "insert", "check",
                 "free", "arm"}
  /\ item \in Link /\ follow \in Link /\ pos \in Link
  /\ out \in {"wait", "top", "send", "pop", "store", "disarm", "again"}
  /\ armed \in BOOLEAN /\ event \in BOOLEAN
  /\ room \in 0 .. Room
  /\ got \in Seq(Reply)

Init ==
  /\ head = NULL /\ tail = NULL /\ curr = NULL
  /\ next = [r \in Reply |-> NULL]
  /\ freed = {} /\ direct = {}
  /\ bufSent = [r \in Reply |-> 0]
  /\ rsp = 0 /\ worker = "idle" /\ oldCurr = NULL /\ willDel = NULL
  /\ item = NULL /\ follow = NULL /\ out = "wait" /\ pos = NULL
  /\ armed = FALSE /\ event = FALSE /\ room = Room
  /\ got = <<>>

-----------------------------------------------------------------------------
(* The socket                                                              *)

\* Seeded slip: the socket is asked to take everything.
Fits_All(r) == Size - bufSent[r]

\* send takes what there is room for, once; less than all of it ends the caller's loop.
Fits(r) == IF Size - bufSent[r] <= room THEN Size - bufSent[r] ELSE room

Write(r) ==
  /\ bufSent' = [bufSent EXCEPT ![r] = @ + Fits(r)]
  /\ room' = room - Fits(r)
  /\ got' = got \o [k \in 1 .. Fits(r) |-> r]

\* The client reads: an edge for a socket that waits for it.
ClientReads ==
  /\ room < Room
  /\ room' = room + 1
  /\ event' = (event \/ armed)
  /\ UNCHANGED <<listVars, workerVars, outVars, armed, got, bufSent>>

-----------------------------------------------------------------------------
(* The worker: process_tcp after the module has answered                   *)

WorkerReplies ==
  /\ worker = "idle"
  /\ rsp < MaxRsp
  /\ rsp' = rsp + 1
  /\ worker' = "pending"
  /\ UNCHANGED <<listVars, oldCurr, willDel, direct, outVars, socketVars>>

\* Seeded slip: what waits is not looked for.
WorkerLooks_Never ==
  /\ worker = "pending"
  /\ worker' = "direct"
  /\ UNCHANGED <<listVars, rsp, oldCurr, willDel, direct, outVars, socketVars>>

\* gr_tcp_conn_has_pending_rsp
HasPending == head # NULL /\ curr # ALL_DONE

WorkerLooks ==
  /\ worker = "pending"
  /\ worker' = IF HasPending THEN "add" ELSE "direct"
  /\ UNCHANGED <<listVars, rsp, oldCurr, willDel, direct, outVars, socketVars>>

WorkerSends ==
  /\ worker = "direct"
  /\ Write(rsp)
  /\ \/ /\ Fits(rsp) = Size
        /\ direct' = direct \cup {rsp}
        /\ worker' = "idle"
     \/ Fits(rsp) < Size /\ worker' = "add" /\ UNCHANGED direct
  /\ UNCHANGED <<listVars, rsp, oldCurr, willDel, outVars, armed, event>>

\* gr_tcp_conn_add_rsp, with the reply from gr_tcp_rsp_alloc
AddBegin ==
  /\ worker = "add"
  /\ oldCurr' = curr
  /\ worker' = "test"
  /\ UNCHANGED <<listVars, rsp, willDel, direct, outVars, socketVars>>

AddTest ==
  /\ worker = "test"
  /\ \E seen \in {oldCurr} \cup (IF MayReload THEN {curr} ELSE {}) :
       worker' = IF seen = NULL THEN "insert" ELSE "unlink"
  /\ UNCHANGED <<listVars, rsp, oldCurr, willDel, direct, outVars, socketVars>>

\* Seeded slip: the removal does not stop at the cursor.
Keep_Nothing == NULL

\* Where the removal stops.
Keep == IF oldCurr = ALL_DONE THEN NULL ELSE oldCurr

\* One turn of the loop of gr_conn.c:335-342; the last reply it passes is cut off.
AddUnlink ==
  /\ worker = "unlink"
  /\ IF head \in {NULL, Keep}
       THEN worker' = "insert" /\ UNCHANGED <<head, next, willDel>>
       ELSE /\ willDel' = IF willDel = NULL THEN head ELSE willDel
            /\ head' = next[head]
            /\ next' = IF next[head] \in {NULL, Keep} THEN [next EXCEPT ![head] = NULL] ELSE next
            /\ UNCHANGED worker
  /\ UNCHANGED <<tail, curr, freed, rsp, oldCurr, direct, outVars, socketVars>>

AddInsert ==
  /\ worker = "insert"
  /\ IF head = NULL
       THEN head' = rsp /\ next' = [next EXCEPT ![rsp] = NULL]
       ELSE head' = head /\ next' = [next EXCEPT ![rsp] = NULL, ![tail] = rsp]
  /\ tail' = rsp
  /\ worker' = "check"
  /\ UNCHANGED <<curr, freed, rsp, oldCurr, willDel, direct, outVars, socketVars>>

\* Nobody else writes curr while it is QUEUE_ALL_DONE: test and reset are one step.
AddCheck ==
  /\ worker = "check"
  /\ curr' = IF curr = ALL_DONE THEN head ELSE curr
  /\ worker' = "free"
  /\ UNCHANGED <<head, tail, next, freed, rsp, oldCurr, willDel, direct, outVars, socketVars>>

\* Seeded slip: the reply tcp.output has reached goes with those before it.
AddFree_Curr ==
  /\ worker = "free"
  /\ IF willDel = NULL
       THEN /\ freed' = freed \cup ({Keep} \ {NULL})
            /\ worker' = "arm" /\ UNCHANGED willDel
       ELSE /\ freed' = freed \cup {willDel}
            /\ willDel' = next[willDel]
            /\ UNCHANGED worker
  /\ UNCHANGED <<head, tail, curr, next, rsp, oldCurr, direct, outVars, socketVars>>

AddFree ==
  /\ worker = "free"
  /\ IF willDel \in {NULL, Keep}
       THEN willDel' = NULL /\ worker' = "arm" /\ UNCHANGED freed
       ELSE /\ freed' = freed \cup {willDel}
            /\ willDel' = next[willDel]
            /\ UNCHANGED worker
  /\ UNCHANGED <<head, tail, curr, next, rsp, oldCurr, direct, outVars, socketVars>>

\* gr_tcp_out_add: EPOLL_CTL_MOD looks for room at once.
WorkerArms ==
  /\ worker = "arm"
  /\ armed' = TRUE
  /\ event' = (room > 0)
  /\ worker' = "idle"
  /\ UNCHANGED <<listVars, rsp, oldCurr, willDel, direct, outVars, room, got, bufSent>>

-----------------------------------------------------------------------------
(* tcp.output: on_tcp_send, gr_poll_send                                   *)

OutWakes ==
  /\ out = "wait"
  /\ event
  /\ event' = FALSE
  /\ out' = "top"
  /\ UNCHANGED <<listVars, workerVars, item, follow, pos, armed, room, got, bufSent>>

\* gr_tcp_conn_top_rsp: nobody else writes curr while it is NULL.
Cursor == IF curr = NULL THEN head ELSE curr

OutTop ==
  /\ out = "top"
  /\ curr' = Cursor
  /\ IF Cursor \in Reply
       THEN item' = Cursor /\ pos' = Cursor /\ out' = "send"
       ELSE out' = "disarm" /\ UNCHANGED <<item, pos>>
  /\ UNCHANGED <<head, tail, next, freed, workerVars, follow, socketVars>>

\* Seeded slip: a reply that did not fit is popped like one that did.
OutSend_Drops ==
  /\ out = "send"
  /\ Write(item)
  /\ out' = "pop"
  /\ UNCHANGED <<listVars, workerVars, item, follow, pos, armed, event>>

OutSend ==
  /\ out = "send"
  /\ Write(item)
  /\ IF bufSent[item] + Fits(item) = Size
       THEN out' = "pop" /\ UNCHANGED item
       ELSE out' = "wait" /\ item' = NULL
  /\ UNCHANGED <<listVars, workerVars, follow, pos, armed, event>>

\* gr_tcp_conn_pop_top_rsp
OutPop ==
  /\ out = "pop"
  /\ follow' = next[item]
  /\ out' = "store"
  /\ UNCHANGED <<listVars, workerVars, item, pos, socketVars>>

OutStore ==
  /\ out = "store"
  /\ curr' = IF follow = NULL THEN ALL_DONE ELSE follow
  /\ item' = NULL /\ follow' = NULL
  /\ out' = "top"
  /\ UNCHANGED <<head, tail, next, freed, workerVars, pos, socketVars>>

\* del_tcp_send_fd: the output poll asks for nothing else (need_in is false).
OutDisarms ==
  /\ out = "disarm"
  /\ armed' = FALSE
  /\ event' = FALSE
  /\ out' = "again"
  /\ UNCHANGED <<listVars, workerVars, item, follow, pos, room, got, bufSent>>

\* The second look, and goto RETRY.
OutLooksAgain ==
  /\ out = "again"
  /\ curr' = Cursor
  /\ out' = IF Cursor \in Reply THEN "top" ELSE "wait"
  /\ UNCHANGED <<head, tail, next, freed, workerVars, item, follow, pos, socketVars>>

-----------------------------------------------------------------------------
WorkerContinues ==
  \/ WorkerLooks \/ WorkerSends \/ AddBegin \/ AddTest \/ AddUnlink \/ AddInsert
  \/ AddCheck \/ AddFree \/ WorkerArms

Out == OutWakes \/ OutTop \/ OutSend \/ OutPop \/ OutStore \/ OutDisarms \/ OutLooksAgain

Next == WorkerReplies \/ WorkerContinues \/ Out \/ ClientReads

\* Both threads are scheduled and the client reads what it is sent; whether there are
\* more requests is its business.
Spec ==
  /\ Init /\ [][Next]_vars
  /\ WF_vars(WorkerContinues) /\ WF_vars(Out) /\ WF_vars(ClientReads)

-----------------------------------------------------------------------------
(* What holds when the two threads interleave freely and rsp_list_curr is  *)
(* loaded once (MayReload = FALSE).                                        *)

\* Neither thread reaches a reply after gr_tcp_rsp_free: not tcp.output through the
\* reply it sends or the cursor, not the worker through the ends of the list or the
\* replies it is about to free.
MemorySafe ==
  /\ item \notin freed /\ follow \notin freed /\ curr \notin freed
  /\ head \notin freed /\ willDel \notin freed
  /\ head # NULL => tail \notin freed

\* assert( conn->rsp_list_curr == confirm_rsp ) of gr_conn.c:398: what the worker adds
\* and deletes while tcp.output sends never moves the cursor away from the reply it sends.
PopFindsItsReply == item # NULL => curr = item

\* How much of a reply the socket took.
Units(r) == Cardinality({k \in DOMAIN got : got[k] = r})

\* Two threads send on one socket, yet what the client gets is in the order of its
\* requests, no reply twice and none begun before the rest of one that was begun
\* (try_to_send_tcp_rsp, gr_poll_send).
WholeAndInOrder ==
  /\ \A j, k \in DOMAIN got : j < k => got[j] <= got[k]
  /\ \A k \in DOMAIN got :
       IF got[k] = got[Len(got)] THEN Units(got[k]) <= Size ELSE Units(got[k]) = Size

\* The replies that are in the list no more, or never were.
Gone == direct \cup 1 .. ((IF head = NULL THEN rsp ELSE head) - 1)

\* The list is what RequestStream promises of two threads: tcp.output jumps over no
\* reply that is still in it, and none leaves it that is being sent or waits behind it.
Stream == INSTANCE RequestStream
            WITH Exact <- FALSE, last <- rsp, held <- item, reclaimed <- Gone
StreamSpec == Stream!Spec

\* A reply tcp.output has begun is sent to its end, or it stays at the cursor of a socket
\* that is left without EPOLLOUT for good: the second look of gr_poll_send
\* (gr_poll_linux.c:531) goes on sending after del_tcp_send_fd, and a full socket then
\* ends it with nothing registered.
SentUnlessForgotten ==
  \A r \in Reply :
     (item = r) ~> (bufSent[r] = Size \/ [](~ armed /\ out = "wait" /\ curr = r))
=============================================================================
