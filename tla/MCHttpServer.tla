--------------------------- MODULE MCHttpServer ---------------------------
(***************************************************************************)
(* The requests HttpServer is model-checked with.                          *)
(***************************************************************************)
EXTENDS HttpServer

GET == <<"G", "E", "T", " ">>
POST == <<"P", "O", "S", "T", " ">>
HEAD == <<"H", "E", "A", "D", " ">>
CONNECT == <<"C", "O", "N", "N", "E", "C", "T", " ">>

\* A request whose lines end in eol
Request(eol, method, target, headers, body) ==
  method \o target \o <<SP, "HTTP/1.1">> \o eol
    \o FlattenSeq([i \in DOMAIN headers |-> headers[i] \o eol]) \o eol \o body

CRLF == <<CR, LF>>
Keep == <<"Connection", ":", SP, "keep">>
Page == <<"/", "a">>

Asks(text) ==
  [text |-> text, code |-> 0, directory |-> <<"/">>, object |-> <<"a">>,
   get |-> <<>>, int |-> <<>>, bool |-> <<>>, body |-> <<>>, form |-> FALSE]
Fails(code, text) == [Asks(text) EXCEPT !.code = code]

Query ==
  [Asks(Request(CRLF, GET, Page \o <<"?", "n", "=", "-", "5", "&", "q", "=", "+", "%", "2", "B", "%", "2", "6">>,
                <<Keep>>, <<>>))
   EXCEPT !.int = [n |-> -5], !.get = [q |-> <<" ", "+", "&">>]]

Bare == [Asks(Request(<<LF>>, HEAD, <<"/">>, <<>>, <<>>)) EXCEPT !.object = <<>>]

Form ==
  [Asks(Request(CRLF, POST, Page, <<Keep, <<CL, ":", SP, "7">>>>,
                <<"b", "=", "yes", "&", "n", "=", "1">>))
   EXCEPT !.bool = [b |-> TRUE], !.get = [n |-> <<"1">>], !.form = TRUE]

Body ==
  [Asks(Request(<<LF>>, POST, Page \o <<"?", "b", "=", "0">>,
                <<<<CL, ":", "2">>, <<"Content-Type", ":", "text">>, <<"Proxy-Connection", ":", "keep">>>>,
                <<LF, "&">>))
   EXCEPT !.bool = [b |-> FALSE], !.body = <<LF, "&">>]

\* Without a version: the end of the line ends the query.
Old ==
  [Asks(GET \o Page \o <<"?", "q", "=", "1">> \o CRLF \o Keep \o CRLF \o CRLF)
   EXCEPT !.get = [q |-> <<"1">>]]

\* The module is asked for nothing in particular.
Nothing == [Asks(GET \o <<LF, LF>>) EXCEPT !.object = <<>>]

SystemHello ==
  [Asks(Request(CRLF, GET, <<"/", "system", "/", "hello">>, <<Keep>>, <<>>))
   EXCEPT !.directory = <<"/", "system">>, !.object = <<"hello">>]

Tunnel ==
  [Asks(Request(CRLF, CONNECT, <<"host">>, <<>>, <<>>))
   EXCEPT !.directory = <<"host">>, !.object = <<>>]

LongQuery == Asks(Request(CRLF, GET, Page \o <<"?", "q", "=">> \o [i \in 1 .. 16 |-> "x"], <<Keep>>, <<>>))
LongHeaders == Asks(Request(CRLF, GET, Page, <<<<"k", ":">> \o [i \in 1 .. 30 |-> "x"], Keep>>, <<>>))

Malformed ==
  {Fails(-1, Request(CRLF, <<"C", "O", "N", "N", "E", "X", "T", " ">>, <<"host">>, <<>>, <<>>)),
   Fails(-6, Request(CRLF, GET, <<"a", "?", "q", "=">>, <<>>, <<>>)),
   Fails(-7, Request(CRLF, GET, Page \o <<"?", "q", "=", "&", "q", "=", "&", "q", "=", "&", "q", "=">>, <<>>, <<>>)),
   Fails(-8, Request(CRLF, GET, Page \o <<"?", "q", "=", "1", "&", "q">>, <<>>, <<>>)),
   Fails(-10, Request(<<LF>>, GET, Page, <<Keep, Keep, Keep, Keep>>, <<>>)),
   Fails(-11, Request(CRLF, GET, Page, <<<<"k">>>>, <<>>)),
   [Fails(-13, Request(CRLF, POST, Page, <<<<CL, ":", "1">>>>, <<"q">>)) EXCEPT !.form = TRUE],
   [Fails(-12, Request(CRLF, POST, Page, <<<<CL, ":", "4">>>>, <<"&", "&", "&", "&">>)) EXCEPT !.form = TRUE]}

MCStreams ==
  {<<q, r>> : q \in {Query, Form, Body, SystemHello}, r \in {Query, Form, Bare}}
  \cup {<<Query, r>> : r \in Malformed \cup {Tunnel}}
  \cup {<<Old, Nothing>>, <<LongQuery, Query>>, <<LongHeaders, Query>>}
=============================================================================
