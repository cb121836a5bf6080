----------------------------- MODULE HttpServer -----------------------------
(***************************************************************************)
(* One HTTP connection from the first unit that arrives to the decision to *)
(* keep or close it: on_tcp_recv hands what has arrived so far to          *)
(* http_check, process_tcp a request that is complete to http_proc, and    *)
(* that to the module, which answers through HttpReply.  Whether the       *)
(* answer goes out at once is ReplyList's and InlineServer's subject.      *)
(*                                                                         *)
(* The client sends a stream of requests without waiting for answers; the  *)
(* network cuts it anywhere, also between requests.                        *)
(***************************************************************************)
EXTENDS HttpParser, HttpReply

CONSTANTS
  Streams,  \* what a client may send: sequences of requests
  Arrivals   \* bound: how many units may arrive at once

\* text: its units;  code: 0, or what http_proc has to answer a malformed one;
\* directory, object, get, int, bool, body: what the client means by it;
\* form: whether parts of it are in a form.
RequestFields == {"text", "code", "directory", "object", "get", "int", "bool", "body", "form"}

ASSUME HttpServerAssumption ==
  /\ \A s \in Streams :
       /\ Len(s) \in Nat /\ DOMAIN s = 1 .. Len(s)
       /\ \A i \in DOMAIN s : DOMAIN s[i] = RequestFields /\ s[i].text \in Seq(STRING)
  /\ MaxCalls > 0 /\ Arrivals \subseteq Nat \ {0}

\* The offsets of the request fit into their bit fields.
Short(q) == Find(q.text, LF) < HeaderWrap /\ Len(q.text) < BodyWrap

\* What the module finds in the result is what the client meant by the request.
Means(r, q) ==
  /\ r.code = q.code
  /\ q.code = 0 =>
       /\ r.directory = q.directory /\ r.object = q.object /\ r.body = q.body
       /\ \A name \in DOMAIN q.get : GetReq(r, name) = <<q.get[name]>>
       /\ \A name \in DOMAIN q.int :
            /\ GetReqInt(r, name, 99) = q.int[name]
            /\ q.int[name] >= 0 => GetReqInt64(r, name, 99) = q.int[name]
       /\ \A name \in DOMAIN q.bool : GetReqBool(r, name, ~ q.bool[name]) = q.bool[name]

\* Its text is one packet, to its end.
OnePacket(q) ==
  LET v == Packet(q.text) IN v.is = "full" /\ v.body + v.content = Len(q.text)

\* The request means what it is said to when the server has received just it.
Understood(q) ==
  LET v == HttpCheck(q.text)
  IN  Short(q) => Means(Parsed(q.text, v), q) /\ (IsForm(q.text, v) => q.form)

ASSUME RequestAssumption ==
  \A s \in Streams : \A i \in DOMAIN s : OnePacket(s[i]) /\ Understood(s[i])

VARIABLES
  requests,   \* what this client sends
  wire,       \* the units of it that have not arrived
  buf,        \* conn->req: what is left of them
  req,        \* the text of the request in process and what was received behind it
  result,     \* what http_proc made of it
  done,       \* what became of the requests so far
  closing,    \* close_type = GR_NEED_CLOSE
  together    \* history: a request was completed by data that went on behind it

connVars == <<requests, wire, buf, req, result, done, closing, together>>
httpVars == <<connVars, replyVars>>

Text(s) == FlattenSeq([i \in DOMAIN s |-> s[i].text])

HttpInit ==
  /\ requests \in Streams
  /\ wire = Text(requests) /\ buf = <<>>
  /\ req = <<>> /\ result = Failed(0)
  /\ done = <<>>
  /\ closing = FALSE /\ together = FALSE
  /\ ReplyInit

HttpTypeOK ==
  /\ requests \in Streams
  /\ Len(wire) + Len(buf) + Len(req) <= Len(Text(requests))
  /\ result.code \in {0, -1} \cup -13 .. -6
  /\ Len(done) <= Len(requests)
  /\ closing \in BOOLEAN /\ together \in BOOLEAN
  /\ ReplyTypeOK

-----------------------------------------------------------------------------
(* The connection                                                          *)

Idle == calls = -1

\* A request is done with: its result, its length, whether more was received
\* behind it, and what the header of its reply said.
Finished(r, length, behind, said) ==
  done' = Append(done, [result |-> r, length |-> length, behind |-> behind, said |-> said])

\* on_tcp_recv, when n units have arrived.  gr_module_check_tcp has no gr_check
\* for anything but HTTP here.  A request that is complete leaves
\* the rest to the connection (prepare_add_tcp_req), whose '\0' is behind the
\* rest.
Receive(n) ==
  LET b      == buf \o SubSeq(wire, 1, n)
      v      == HttpCheck(b)
      length == v.body + v.content
  IN  /\ Idle /\ ~ closing /\ n > 0
      /\ n <= Len(wire) /\ wire' = After(wire, n)
      /\ \/ /\ v.is = "error"
            /\ closing' = TRUE
            /\ buf' = <<>>
            /\ UNCHANGED <<req, result, done, together, replyVars>>
         \/ /\ v.is = "more"
            /\ buf' = b
            /\ UNCHANGED <<req, result, done, closing, together, replyVars>>
         \/ /\ v.is = "full"
            /\ buf' = SubSeq(b, length + 1, Len(b))
            /\ together' = (together \/ length < Len(b))
            /\ \E r \in Results(b, v) :
                 \/ /\ r.code = 0
                    /\ result' = r
                    /\ req' = SubSeq(b, 1, length)
                    /\ Begin
                    /\ UNCHANGED <<done, closing>>
                 \/ /\ r.code # 0
                    /\ closing' = TRUE
                    /\ Finished(r, length, length < Len(b), "nothing")
                    /\ UNCHANGED <<req, result, replyVars>>
      /\ UNCHANGED requests

-----------------------------------------------------------------------------
(* The module                                                              *)

IsHead == req[1] = "H"

\* http_execute_inner: the one page the server has itself
IsHello ==
  result.directory = <<"/", "system">> /\ result.object = <<"hello">>

\* http_hello
Hello ==
  /\ calls = 0 /\ IsHello
  /\ \E text \in Texts, room \in BOOLEAN :
       Call(HttpSend([rsp EXCEPT !.keep = TRUE], 6, text, IsHead, room))
  /\ UNCHANGED connVars

\* gr_module_proc_http
Module ==
  /\ ~ Idle /\ ~ IsHello
  /\ ModuleCalls(IsHead)
  /\ UNCHANGED connVars

\* The Connection header, or else Proxy-Connection, as http_proc compares it
ClientKeeps ==
  LET connection == Lookup(result.header, "Connection")
      says == IF connection # <<>> THEN connection
              ELSE Lookup(result.header, "Proxy-Connection")
  IN  says \notin {<<>>, << <<"close">> >>}

\* The end of http_proc, and what process_tcp makes of processed_len: after an
\* error the connection closes without the reply, a connection that is not kept
\* closes behind it.
Finish ==
  /\ ~ Idle
  /\ IsHello => calls > 0
  /\ closing' = (rsp.error \/ ~ (rsp.keep /\ ClientKeeps))
  /\ Finished(result, Len(req), buf # <<>>, IF rsp.error THEN "nothing" ELSE rsp.said)
  /\ \E queued \in BOOLEAN : (queued => ~ rsp.error) /\ End(queued)
  /\ req' = <<>> /\ result' = Failed(0)
  /\ UNCHANGED <<requests, wire, buf, together>>

HttpNext ==
  \/ \E n \in Arrivals \cup {Len(wire)} : Receive(n)
  \/ Hello
  \/ Module
  \/ Finish

HttpSpec == HttpInit /\ [][HttpNext]_httpVars

-----------------------------------------------------------------------------
(* Properties                                                              *)

\* However the network cuts the stream, each request is taken where it begins
\* and ends and the module sees what the client meant (gr_http.c:294, 606): all
\* of it that was escaped, and the answer to malformed ones.  Two things break
\* it: a first line or headers too long for their bit field (grocket.h:147,
\* 155), and a form behind which more was received before it was processed,
\* which is read as part of its last value (gr_worker.c:862, gr_http.c:1013).
AsMeant ==
  \A i \in DOMAIN done :
    /\ \A j \in 1 .. i : Short(requests[j])
    /\ ~ (done[i].behind /\ requests[i].form)
    => /\ Means(done[i].result, requests[i])
       /\ done[i].length = Len(requests[i].text)

Settled == Idle /\ (closing \/ wire = <<>>)

\* A client that never sends the beginning of a request with the end of the one
\* before loses none and no part of one, however they are cut: once the
\* connection closes or everything has arrived, what has not arrived is just the
\* requests that were not processed (tcp_io.h:264, gr_http.c:424).
TakenUnlessTogether ==
  Settled /\ ~ together =>
    Len(done) <= Len(requests) /\ wire = Text(After(requests, Len(done)))

\* "pipe line" requests are supported (gr_worker.c:835): also one that came
\* together with the one before is processed, without more data behind it.  It
\* is not: TLC refutes this with the constants of MCHttpServer_pieces.cfg.
PipelinedAreTaken ==
  Settled /\ ~ closing => Len(done) = Len(requests)
=============================================================================
