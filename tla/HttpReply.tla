----------------------------- MODULE HttpReply -----------------------------
(***************************************************************************)
(* The buffer a module answers an HTTP request in, through the functions   *)
(* of server_object.c that grocket.h hands to it.  The buffer belongs to   *)
(* the thread and outlives the request: a reply that is sent at once       *)
(* leaves it behind for the next one, a reply that has to wait takes it    *)
(* along (gr_http.c:606, gr_worker.c:387).                                 *)
(*                                                                         *)
(* Of a reply the model keeps its length, in units, and what its header    *)
(* said of the connection.  A header is written by snprintf, which counts  *)
(* the text it would have liked to write.                                  *)
(***************************************************************************)
EXTENDS Integers

CONSTANTS
  Reserve,    \* what http_set_max_response adds for the header: 300 in the code
  Align,      \* rsp_buf_align
  Bodies,     \* the lengths of the bodies the module gives
  Texts,      \* the lengths of the headers the module gives
  MaxCalls    \* bound: how many calls a module makes for one request

ASSUME HttpReplyAssumption ==
  /\ Reserve \in Nat \ {0} /\ Align \in Nat \ {0}
  /\ Bodies \subseteq Nat /\ Texts \subseteq Nat \ {0}
  /\ MaxCalls \in Nat

VARIABLES
  rsp,      \* gr_proc_ctxt_t.result_buf_* and what http_proc reads after the module
  calls     \* calls the module has made for this request; -1 outside of it

replyVars == <<rsp, calls>>

\* max, len: result_buf_max and _len;  error, keep: is_error and keep_alive;
\* ok: what the last call returned;  said: the Connection header of the reply;
\* long: some header so far was not shorter than what is reserved for it.
Rsp == [max : Nat, len : Nat, error : BOOLEAN, keep : BOOLEAN, ok : BOOLEAN,
        said : {"nothing", "keep", "close"}, long : BOOLEAN]

ReplyTypeOK ==
  /\ rsp \in Rsp
  /\ calls \in -1 .. MaxCalls

ReplyInit ==
  /\ rsp = [max |-> 0, len |-> 0, error |-> FALSE, keep |-> TRUE, ok |-> TRUE,
            said |-> "nothing", long |-> FALSE]
  /\ calls = -1

-----------------------------------------------------------------------------
(* The functions, from the state of the reply to its next one.  room says  *)
(* whether malloc succeeds.                                                *)

AlignUp(n) == ((n + Align - 1) \div Align) * Align

\* server_class_set_max_response
SetMax(r, bytes, room) ==
  IF r.max >= bytes THEN [r EXCEPT !.len = 0, !.ok = TRUE]
  ELSE IF room THEN [r EXCEPT !.len = 0, !.ok = TRUE, !.max = AlignUp(bytes)]
  ELSE [r EXCEPT !.ok = FALSE]

\* http_set_max_response
HttpSetMax(r, bytes, room) == SetMax(r, Reserve + bytes, room)

\* http_send_header and http_send_header2: len grows by what the texts need,
\* whether they fitted or not.
HttpSendHeader(r, bytes, text, connection, room) ==
  LET u == HttpSetMax(r, bytes, room)
  IN  IF u.ok
      THEN [u EXCEPT !.len = text, !.said = connection, !.long = @ \/ text >= Reserve]
      ELSE [u EXCEPT !.error = TRUE]

\* Seeded slip: what is left is taken from the whole buffer.
HttpAppend_WholeBuffer(r, bytes) ==
  IF bytes > r.max THEN [r EXCEPT !.error = TRUE, !.ok = FALSE]
  ELSE [r EXCEPT !.len = @ + bytes, !.ok = TRUE]

\* http_append.  What is left is unsigned: once len is past max there is room
\* for anything.
HttpAppend(r, bytes) ==
  IF r.len <= r.max /\ bytes > r.max - r.len
  THEN [r EXCEPT !.error = TRUE, !.ok = FALSE]
  ELSE [r EXCEPT !.len = @ + bytes, !.ok = TRUE]

\* http_send: a HEAD request is answered without a body.
HttpSend(r, bytes, text, isHead, room) ==
  LET u == HttpSendHeader(r, bytes, text, IF r.keep THEN "keep" ELSE "close", room)
  IN  IF u.ok /\ ~ isHead THEN HttpAppend(u, bytes) ELSE u

-----------------------------------------------------------------------------
(* What happens to the reply while a request is processed.                 *)

\* http_proc, before and when it calls the module
Begin ==
  /\ calls = -1
  /\ calls' = 0
  /\ rsp' = [rsp EXCEPT !.len = 0, !.error = FALSE, !.keep = TRUE, !.ok = TRUE,
                        !.said = "nothing", !.long = FALSE]

Call(r) ==
  /\ calls \in 0 .. MaxCalls - 1
  /\ calls' = calls + 1
  /\ rsp' = r

CallSetMax == \E n \in Bodies, room \in BOOLEAN : Call(HttpSetMax(rsp, n, room))

CallSendHeader ==
  \E n \in Bodies, t \in Texts, room \in BOOLEAN :
    Call(HttpSendHeader(rsp, n, t, IF rsp.keep THEN "keep" ELSE "close", room))

CallSendHeader2 ==
  \E n \in Bodies, t \in Texts, c \in {"keep", "close"}, room \in BOOLEAN :
    Call(HttpSendHeader(rsp, n, t, c, room))

CallAppend == \E n \in Bodies : Call(HttpAppend(rsp, n))

CallSend(isHead) ==
  \E n \in Bodies, t \in Texts, room \in BOOLEAN : Call(HttpSend(rsp, n, t, isHead, room))

\* The module decides about the connection before it writes the header.
CallKeepAlive ==
  /\ rsp.said = "nothing"
  /\ Call([rsp EXCEPT !.keep = ~ @])

ModuleCalls(isHead) ==
  \/ CallSetMax
  \/ CallSendHeader
  \/ CallSendHeader2
  \/ CallAppend
  \/ CallSend(isHead)
  \/ CallKeepAlive

\* process_tcp: gr_tcp_rsp_set_buf takes the buffer along when the reply was
\* not sent as a whole.
End(queued) ==
  /\ calls # -1
  /\ calls' = -1
  /\ rsp' = [rsp EXCEPT !.len = 0, !.max = IF queued /\ rsp.len > 0 THEN 0 ELSE @]

ReplyNext ==
  \/ Begin
  \/ \E isHead \in BOOLEAN : ModuleCalls(isHead)
  \/ \E queued \in BOOLEAN : End(queued)

ReplySpec == ReplyInit /\ [][ReplyNext]_replyVars

-----------------------------------------------------------------------------
(* Properties                                                              *)

\* Whatever the module calls, in whatever order, the reply ends inside its
\* buffer (server_object.c:380), as long as no header outgrows the 300 bytes
\* http_set_max_response adds for it (server_object.c:223, 419).
ReplyFits == rsp.long \/ rsp.len <= rsp.max
=============================================================================
