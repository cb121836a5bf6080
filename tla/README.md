# GRocket: models and proofs

GRocket is a C server framework: a library (`src/server/libgrocket`) accepts TCP
connections, cuts their streams into requests with the help of a user module, has the
module answer them and sends the replies.  It uses no locks.  Threads hand requests and
connections to each other through single-writer lists, flags and events, and its own
changelog reports crashes and mixed-up answers it could not explain.  Around that core it
has an HTTP parser, a configuration reader, a loader of libraries and a monitor process.
This directory models these parts, checks them with TLC and proves with TLAPS what holds
for any number of threads, processes, connections and requests.

Paths below are relative to `src/src/server/libgrocket/` unless they start with `src/`.

## Inventory

| Component | State | Operations | Talks to |
|---|---|---|---|
| tcp.listen (`gr_tcp_accept.c`) | its polls, listening sockets | accept, ask the module, allocate a connection | tcp.input |
| tcp.input (`gr_tcp_in.c`, `tcp_io.h`) | one epoll per thread | receive, gr_check, hand requests on; send too when tcp.output is disabled | worker, conn, tcp.output |
| epoll wrapper (`gr_poll_linux.c`) | interest masks, `already_in` | add, del, wait, recv, send | the kernel |
| connections, requests, replies (`gr_conn.c`) | flags and counters of `gr_tcp_conn_item_t`, reply list, request being received, free lists | alloc, free, prepare_recv, add_rsp, pop | all threads |
| closing (`gr_tcp_close.c`) | `close_type`, `tcp_in_open`, `tcp_out_open`, `worker_open` | close from in, worker, out | all threads |
| svr.worker (`gr_worker.c`) | one request list, cursor and event per thread; slots when disabled | push, top, process, pop | conn, tcp.output, http, module |
| tcp.output (`gr_tcp_out.c`) | one epoll per thread | send queued replies | conn |
| threads and events (`gr_thread.c`, `gr_event.c`) | per-thread flags, cookie, semaphore | start, run, close | every component |
| server process (`gr_server_impl.c`, `libgrocket.c`) | globals, `is_server_stopping` | server_init, loop, server_term | every component |
| program (`libgrocket.c`) | `g_ghost_rocket_global` | seven initialisations, their undoing | everything |
| daemon (`gr_server_impl_posix.c`) | processes, signal dispositions, `is_server_stopping` of each | run_back, fork, wait, signals | server process, module |
| http (`gr_http.c`) | parse buffers per thread, offsets in the request | check, decode, process | worker, module |
| HTTP answers (`server_object.c`) | the reply's buffer, length and room | append, send, set a header, set the room | module, http |
| module (`gr_module.c`, `gr_dll.c`) | the library, its functions, its version | load, init, term, check, proc | worker, tcp.input |
| library of classes (`gr_library.c`) | table of classes, the core library | register, init, term | module |
| configuration (`gr_config.c`, `gr_ini.c`) | parsed text, list of ports | open from a text, a file or the module; getters with minimum values | every component |
| udp, backend | threads without work | stubs | - |

The configuration file that comes with the server
(`src/src/server/conf/grocketd.ini`) sets `worker.disabled` and `tcp.out.disabled`: the
tcp.input threads then receive, process and send (the "inline" server).  With both false
the server is "threaded": three kinds of threads work on one connection.

What is hard here:

* concurrency without locks: list cursors, flags in one byte, counters compared across
  threads, free lists shared by accident;
* order: replies after replies, close after the last reply, start and stop of components;
* one-time notifications: an edge-triggered epoll and an event whose alarm can be missed;
* partial failure: a send that fits half, a malloc that fails, a thread that cannot start, a
  library that fails after it has left classes behind;
* crashes and signals: of the server, of the monitor, and of either between two steps;
* parsing in place, in pieces, of text that is cut while it is read;
* ownership: who frees a connection, a request, a component, and who still has a pointer.

What makes each part correct: the queue hands every request to the worker in order and
frees none that is in use; a request object belongs to one connection; a client gets the
answers to its own requests, complete and in order; an open connection listens and a
closing one is freed; the server listens when every thread is ready, and stops without
touching what is gone.  A request means the same however the network cuts it; the reply a
module builds stays in its buffer; a configuration says what its text says; one server runs
at a time and comes back after a crash; whatever fails in a start, all is given back.
`PROJECT.json` lists the hazards line by line.

## Modules

**`WorkerQueue`** - the request list between one tcp.input thread (`worker_queue_push`,
`gr_worker.c:146-211`) and one worker thread (`worker_routine`, `worker_queue_top`,
`worker_queue_pop_top`), one action per access to shared memory.  Actions `Push*` follow
the lines of the push, `Worker*` those of the worker; `oldCurr` and `follow` are the C
locals that go stale.  The event is a semaphore (`alarms`) and `in_event`.
`MayReload` says whether the compiler may load `worker->curr`, which is not volatile,
twice; memory is otherwise sequentially consistent.

**`ReplyList`** - the same cursor protocol for the replies of an open connection in the
threaded server: the worker appends, unlinks and frees (`gr_conn.c:316-388`), tcp.output
takes and pops (`gr_conn.h:314`, `gr_conn.c:390-415`, `gr_poll_linux.c:420-537`).  Here the
socket is part of the state, because the worker also sends on it when it believes that
nothing waits (`gr_worker.c:316-385`).  `Worker*` and `Add*` are the worker's accesses in
their order, `Out*` those of tcp.output; `armed` and `event` are the socket's entry in the
output epoll.  Requests are answered one after another, as one worker per connection does.

**`RequestStream`** - what a single-writer, single-reader list promises.  With `Exact` it
is the contract of the comments; without, the weaker one the code keeps.  `WorkerQueue`
and `ReplyList` implement the weaker one (`StreamSpec`), the latter with the worker's
direct sends as replies that are given back unqueued.

**`ThreadedClose`** - the end of one connection of the threaded server.  tcp.input, the
worker and tcp.output each close it in their own way (`gr_tcp_close.c`), from flags that
share a byte (`gr_conn.h:247-255`), counters, and sockets whose errors the three see at
different times.  One action per access to what they share; `Store(t, ..)` writes the flags
back as the thread has loaded them when `SplitFlags` is true.  `slips` is history: it
records what one thread missed of another, and the properties say that nothing but these
slips breaks the protocol.

**`InlineServer`**, `MCInlineServer` - the shipped configuration: one epoll, its
connections, the clients behind them.  One handler of one event is one step, composed of
operators that carry the names of the C functions' jobs (`OnRecv`, `Process`, `Reply`,
`TryToSend`, `AddRsp`, `CloseFromOut`, ...) and map a connection to its next state.  A
batch of `epoll_wait` is handled one event at a time, in any order, while clients send,
stop, break or read.  `gr_check`, the module and malloc answer anything in `Outcomes`.

**`WorkerSlots`** - what the tcp.input threads of that configuration share: the slots of
the worker threads that were never started, each with a free list of request objects and
the reply buffer of the module.  One action per access to a slot.

**`HttpParser`**, **`HttpReply`**, **`HttpServer`**, `MCHttpServer` - one HTTP connection.
`HttpParser` holds no state: `http_check`, `http_proc` and the lookups of a module
(`http_get_req*`) as functions of a text, a sequence of units.  `HttpReply` is the reply a
module builds through `http_append`, `http_send`, `http_send_header` and
`http_set_max_response`: its length and the room for it.  `HttpServer` extends both: data
arrives in pieces, is looked at, a request is taken out of it, processed and answered, and
the connection kept or closed.

**`Lifecycle`**, `MCLifecycle` - one server process from `server_run` to its return: the
main thread goes through `server_init` (for each component: object, threads one by one,
wait for each one's alarm, publish the global), listens, waits for a signal, and goes
through `server_term`; every thread is in one of the places of `gr_thread_runtine`.  A
thread's work with another component is one interval (`using`) between the load of its
global and the last access to its object.  Allocation, thread creation, affinity, the
module's child init, the start of a routine and listening fail or not.

**`IniFile`**, **`Config`**, **`Startup`**, `MCStartup` - the start of one process.
`IniFile` and `Config` hold no state: what `gr_ini_open2` makes of a text and what lookups
find in it; ports, numbers with their bounds, and the paths made from the executable's.
`Startup` extends them with `gr_main`: log, configuration (from the caller, a file or the
module), library of classes with the core library, module, server, and the undoing of what
was reached.  `env` is what the process meets; `pc` names the place in `gr_main`.

**`Daemon`** - the processes of one start: `gr_main` in the foreground, `run_back`, the
monitor (`gr_server_daemon_main`) and the servers it forks.  `ForkInto` copies what belongs
to a process; `handler` and `stopping` are its signal dispositions and its
`is_server_stopping`.  Servers crash, forks fail, and SIGTERM comes to any process at any
time.

The modules share no variables.  They meet at what each takes for granted:
`Startup` treats what happens between the last initialisation and the first undoing as one
step, which `Daemon` (processes) and `Lifecycle` (threads) have in detail; `Daemon` has the
server between its start and its end as three states.  `InlineServer` has a request whole
in one handler because `OneUser` of `WorkerSlots` keeps
other threads away from it; both start with all components published, which is what
`ReadyBeforeListening` and `UsesAreSafe` of `Lifecycle` say; `RepliesInOrder` of the
inline server has no list cursor in it because one thread does both ends.  `ThreadedClose`
knows of the reply list only whether it is empty, and `ReplyList` of closing nothing: the
code closes after the last pop.  `HttpServer` decides what `Outcomes` leaves open there: when
`gr_check` says a request is complete, and what the module is shown.

## Runs

| Run | Bounds | Shows |
|---|---|---|
| `queue_threads` | 5 pushes | all interleavings: no access to a freed request, the pop's assertion, the weak stream contract, and what is published is taken although an alarm can be missed |
| `queue_counts` (violation) | 3 pushes | requests are processed and counted twice |
| `replies_threads` | 5 replies of 2 units, send buffer of 2 | all interleavings of worker, tcp.output and client: no freed reply is reached, what the client gets is whole and in order, the weak stream contract, and a reply is stuck only on a socket left without EPOLLOUT |
| `close_one` | 2 requests, flags written by load and store, a socket that is full at any time | every interleaving of three threads that close: a connection is deleted under nobody's hands and always in the end, but for four named slips |
| `inline_mixed` | 2 connections, 4 and 3 units, requests and replies of 2 units, socket room 1, buffer 5 | no event for a freed connection, replies in order and complete, waiting replies are armed, a connection nobody gave up stays |
| `inline_answered` | 2 connections, 3 requests and 1, each of one piece, replies of 3 units; the first is always answered, the module may do anything with the second | a reply that waits on the answered connection is sent to its end; a FIN is noticed unless the close of the other connection took EPOLLIN away |
| `slots_separate` | 3 connections, 2 threads, 3 request objects, 7 units | requests are reused by one connection at a time, none is lost, answers go to their client |
| `slots_answers` (violation) | 2 connections on one slot | a client gets another's answer |
| `http_pieces` | 24 streams of two requests, pieces of 1, 2 or 9 units, offsets that wrap at 26 and 50, 2 calls of the module per request | each request is cut out and understood as it was meant, however it arrives; replies stay in their buffers; none is left behind unless it came together with the one before |
| `life_full` | 3 configurations, 2 workers, one thread of the other kinds, every fault | start and stop in every order and with every failure |
| `startup_faults` | every text of up to 4 of 12 lines, every list of 3 of 10 addresses, every failure with every source, every module and core library, paths and names of the lengths on both sides of each limit | a configuration says what its text says, every start and failure gives back what it took, no code is called in a library that is closed, and what stops the process |
| `daemon_restarts` | 3 processes, three modes | one server at a time, it is restarted for ever, the module's master is set up and taken down once around all servers, and all end when told |

Why these bounds are enough to see the cases: five pushes, or replies, let the cursor
run off, be reset and run off again with a deletion on each side.  Requests of two units arrive in
pieces and in pairs; replies that are longer than the socket's room are sent in parts by
both senders; a buffer of five units gets full.  Three connections of two threads put two
on one slot and one on another, and three objects make a list of two next to one in use.
Two requests are the least with one in the worker's queue while another is processed and
the connection breaks.
Two worker threads are the least that can start halfway and be joined one by one; threads
of the other kinds differ only in number.  The HTTP streams hold each kind of request,
each answer to a malformed one, and offsets that fit and that wrap; pieces of one
unit meet every cut, the others the ends of two lines or requests in one piece.  Four lines make two sections, a repeated
one, and an item before, between and behind them; two sections and three items are the
parser's limits in the model.  Three processes are the front, the monitor and its server;
numbers are used again.

`CHECK_DEADLOCK FALSE` stands in the queue, reply, close, inline, slot and HTTP runs because the clients
stop sending at the bound and connections end, and in `startup_faults` and
`daemon_restarts` because processes end.  `Lifecycle` ends in a state of its own (`Over`).

Fairness.  The threads of the queue, of the reply list and of `ThreadedClose`, the tcp.input thread, the main thread and every
started thread are weakly fair: the operating system schedules them and none of their
steps waits for anything but what its guard says.  In `InlineServer`, `ReplyList` and `ThreadedClose`
clients read what they are sent, without which no server could send (in the last one strong fairness of
`OutputSends`: the socket is not full each time).  The handling of a batch is fair as the part of
a step that takes events from it (`HandleBatch`): the same demand as fairness of `Handle`, as each
handler takes one, and one that TLC evaluates without computing the handler.  In `Lifecycle` a thread's use of a
component ends, since no C function there blocks.  Pushes, clients' sends, crashes and signals
are not fair.  `gr_event_wait(.., 1)` returns after a millisecond, so its timeout is part
of the worker's fair steps; without it `PublishedIsTaken` fails.  In `Daemon` every process
is scheduled, and fork does not fail for ever (strong fairness of `ForkServer`, as a
failing fork takes the monitor around its loop).

## Findings

Two runs check what a test or an assertion says and the code does not do.

1. `gr_worker.c:308`, `:204` - the pop of the last request and a push that overlap make
   the worker skip a request (it is freed unprocessed, which the weak stream contract
   allows) or start again at processed ones (`queue_counts`).
   `src/docs/changelog.txt:150` reports the assertion that fails then.
2. `gr_worker.c:531` - with the worker disabled, threads are chosen by
   `fd % tcp.in` and slots by `fd % (tcp.in + udp.in)`; the minimum of
   `udp.in.thread_count` is 1, so two threads of the shipped configuration share slots.
   A client can get another client's answer (`slots_answers`).

The following are stated in the modules as properties and do not hold.  To see the
counterexample, put the name in the place of the properties of the configuration given.

3. `gr_poll_linux.c:270`, `:297` - `already_in` belongs to the poll, not to a connection: an
   open connection loses EPOLLIN (`InOpenListens`, `MCInlineServer_mixed`).  It is deaf: neither
   requests nor the end of its stream are noticed any more, so it is never freed.  `FinIsNoticed`
   excepts just this state (`Deaf`); without the exception `inline_answered` refutes it.
4. `gr_tcp_close.c:218` - a connection the module closes is taken out of the epoll and
   never freed when the worker is disabled (`ClosingIsFreed`, the same).
5. `gr_tcp_close.c:200` - after `processed_len = 0` the unsent part of the last reply is
   dropped (`LastReplyIsSent`, the same).
6. `gr_server_impl.c:366` - `server_term` frees the worker, conn and http before the
   threads that use them are told to exit (`ExitIsNormal`, `MCLifecycle_full`).
7. `gr_tcp_close.c:209` - a connection of the threaded server is deleted while another thread
   still works with it: tcp.output clears the `worker_open` that tcp.input has just relied
   on, or the stores of two threads to one byte undo each other (`DeletedLast`,
   `ThreadedClose_one`).  `GivenUpIsDeleted` names the ways in which it is never deleted.
8. `tcp_io.h:256`, `gr_worker.c:835` - a second request that came together with the first is
   looked at only when more data comes (`PipelinedAreTaken`, `MCHttpServer_pieces`).
9. `gr_dll.c:183` - a module that is found by its complete path is not opened, because "lib"
   and ".so" are put around the path, so a module's own `gr_config` is never asked
   (`AvoidsTheFile`, `MCStartup_faults`).

What the models had to be told, besides:

* `gr_poll_linux.c:533`, `gr_conn.c:403` - `gr_poll_send` looks again after it has removed
  EPOLLOUT and, if the socket is full then, returns with nothing registered; the rest of that
  reply waits for the next one (`SentUnlessForgotten` allows just this).  The pop of a reply
  can skip one as in 1.; the weak stream contract allows just that.
* `tcp_io.h:354` - an event with EPOLLIN and EPOLLOUT is handled as the first only, so a request
  that is not answered can use up the report that there is room; the rest of an earlier reply
  then waits for the next one (`PendingIsSent` is about connections that are answered each time).
* `gr_http.c:583` - with the worker disabled the shipped configuration has eleven slots and one
  parse buffer: an HTTP request on any other slot fails the assertion.
* `gr_http.c:1000` - a form is read up to the '\0' behind all that was received, so data of
  the next request becomes part of its last value; `grocket.h:147`, `:155` - the offsets of
  header and body wrap at 11 and 16 bits (`AsMeant` excludes exactly these).
* `gr_http.c:715` - an HTTP reply is parsed through a NULL pointer.
* `server_object.c:414`, `gr_http.c:1097` - "Keep-Alive" can be announced on a connection that
  is closed; `http_get_req_int64` refuses negative numbers that `http_get_req_int` takes.
* `gr_config.c:119` - the room for the module's path is `sizeof` of a pointer: executables
  with paths of 5 to 8 characters find no module, longer ones write past the end from 247 on.
  `gr_dll.c:98`, `:220` - `gr_dll_open` refuses names of 260 characters and adds six to each
  shorter one, in a buffer of 260: the module beside an executable whose path has 241 characters
  (when it is to give the configuration), and a `server.module` or `library.core` of 254, write
  past its end (`CrashesOnlyAlone` names all of these lengths, and TLC finds it violated when one of
  them is moved).  `gr_ini.c` - "]" and a blank make the blank part
  of the section's name; a second section of one name is never found; `gr_ini_close` keeps
  the text.

## Proofs

All proofs hold for every value of the constants that satisfies the named assumptions.

`WorkerQueue_proofs`: `TypeCorrect` and `PopAssertion` for both values of `MayReload`;
`NoUseAfterFree` and `Refinement` (the queue implements `RequestStream` with
`Exact = FALSE`) for `MayReload = FALSE`.  The properties are not inductive: what the
worker may reach depends on where the list begins and on what the pusher remembers.  The
invariant `Shape` says that the list is the run of requests from `head` to the last one
linked and that exactly the requests before it are freed (`ListShape`), that the cursor is
in that run and the worker holds what it names (`CursorShape`), that what the pusher
remembers of the cursor is behind it (`PusherShape`), and that nothing between the request
taken last and the cursor is still there (`PosShape`).  With `MayReload = TRUE` the second
load can see a newer cursor, `PusherShape` fails and the request in hand can be deleted.

`ReplyList_proofs`: `TypeCorrect` and `PopAssertion` for both values of `MayReload`;
`NoUseAfterFree`, `Refinement` and `RepliesAreWhole` (`WholeAndInOrder`) for
`MayReload = FALSE`, for any number and size of replies and any send buffer.  The list is a
run of replies although direct sends take numbers out of the middle, because a direct send
happens only when everything listed was sent, and the next append then unlinks all of it
(`ListShape`, `AppendShape`); what is being freed is a chain that ends before the list
(`FreeShape`).  For the order of what is sent the cursor is not enough, as it can run off
the list and come back: `MissingIsLast` says that nothing was sent of a reply behind a listed
one with something missing, as long as the list is or may come to be in the cursor's way
(`Alive`), and `PartialIsNext` that a reply sent in part is the next one to be sent.
`GotShape` ties that to what the socket took by counting.

`InlineServer_proofs`: all safety properties of `inline_mixed` (`InlineTypes`,
`NoEventAfterFree`, `RepliesAlwaysInOrder`, `PendingAlwaysArmed`, `HealthyAlwaysStays`) for
any connections, lengths, buffers and answers.  Handlers are functions of one connection's
state, so the invariant is a predicate of that state (`Sound`): its entry in the epoll goes
with its life and its list (`Armed`), the list continues where the socket ends (`Ordered`),
and nothing is missing as long as nobody has given it up (`Complete`).  One lemma per C
function says that it makes a sound state of a sound one; the order of replies comes down to
`SentInOrder` (send takes a first part and the rest follows on it) and `UnitsFollow`.  For
`HealthyAlwaysStays` the invariant also needs that a batch of events is still true when it
is handled, although clients go on meanwhile (`Content`).

`WorkerSlots_proofs`: all safety properties of `slots_separate` (`OneUserPerRequest`,
`AnswersAreOwn`, `NoneLostAlways`) and `ReuseAssertion` under `Separate`, the condition that
connections on one slot are received by one thread; the second finding is what happens
without it.  The invariant says which connection a request
belongs to at every step of the thread that works with it (`ConnShape`, `WorkShape`), and
that the lists hold only idle, empty requests of their slot, each followed to from one
place only (`PoolShape`): without the last part nothing keeps a request from being handed
out twice.  One lemma per action, joined in `ShapeStep`.
For `NoneLostAlways` that is not enough, since it asks that a free request is reached from
the head of its list, however far.  `Walk(s, g)` says that `g` counts the steps from the
head of the list of slot `s`, and the invariant `Listed` that every idle request has such a
number; unlinking the first one and linking a new first one shift the numbers by one
(`ListedUnlink`, `ListedLink`).  That the walk meets no request twice, so that it is over
after as many steps as there are requests, is `WalkOnce` and `WalkShort`, by injection into
the set of requests.

`Lifecycle_proofs`: all safety properties that `life_full` checks (`LifecycleType`,
`ObjectsOutlive`, `ListensWhenReady`, `ChildEnclosesWorkers`, `WorkersFindTheirs`,
`EndsWithNothing`), for any ports, disabled parts, numbers of threads and faults
(`ConfigAssumption`).  None is inductive: that a component may be freed follows from which
of its threads are still there, and that from how far the main thread has come.  The
invariant says which components are up for each place of the main thread (`Position`), what
that leaves of the opened ports (`OpenShape`), which threads have not been created, are
ready, or have been joined (`ThreadShape`), how many alarms a thread can have posted
(`AlarmShape`, without which an alarm could be taken for readiness), which callbacks it
has made (`CallShape`), and whom it works
with (`UseShape`).  `OrderFacts` is all that is used of the order in `server_init`: the
components are distinct, http is one of them and the worker is the last.  So it is the last
place of the worker that makes its threads safe in `server_term`, and nothing makes the
others so: that is finding 6.

`Daemon_proofs`: `OneServerAlways` and `MasterEnclosesAlways` for any number of processes and
each mode.  A server is alone because its monitor forks only when it has no child, and
because nobody else can fork at all: at any time one process at most is neither the child of
a fork nor on its way out of `run_back` (`OneChief`), and its child is one at most and waited
for (`OneSub`, `SubIsWaitedFor`).  `MasterShape` says who has called the module's master init.

`Connection_proofs` is about one connection.  Its replies: `ReplyAlwaysFits` for any sizes
and calls in any order, and `HttpReplyAlwaysFits` for those that a whole connection of
`HttpServer` makes, which takes every step of it to a step of `HttpReply` or none.
`http_send` asks for room and then appends; both round, and the length in between includes a
header that was counted by `snprintf`, not written.  `SendIsNeverRefused` is what that leaves:
the append cannot fail.

Its requests: `AlwaysAsMeant` and `AlwaysTakenUnlessTogether`, for every stream of requests, of
any length, however the network cuts it and whatever the module answers.  The invariant
(`ConnInv`) says that what was received and not taken, followed by what has not arrived, is the
rest of the stream behind the requests that are done or in process, and what the result in
process means; it holds as long as the requests taken were `Short`, because the offset of a
longer one wraps and the next is looked for in the wrong place.  Two facts about the parser
carry it.  What `http_check` finds complete it finds complete at the same offsets whatever
arrives behind it (`FullIsFinal`), so the cut of the network does not matter; and `http_proc`
reads nothing behind a request without a form (`ParsedLonger`), so what arrived together
does not matter either.  That the client means by each request what the server makes of it
when it has received just it is the premise `RequestAssumption`: TLC evaluates it on the
streams of `http_pieces`, and the theorems carry it from one request alone to every stream.

One request: `PacketIsByLines` and `HeadersEndAtBody` say of any text where a packet and its
headers end, the first by `http_check` and the second by `http_proc`, which look for it in
different ways; both need that no line of the headers begins with a lone CR, where the code
sees an empty line.  `PiecesAreAll` says that `Pieces`, which finds the k-th cut by counting
the cuts in front of it, is the one way to cut a text at every separator (`Ranks`, `OneCut`).
`DecodedFits`: decoding in place never writes beyond the string; `DecodedIs`: it gives back
what an encoder wrote, whatever that chose to escape (`Encodes`).  `ParamsAsWritten`: names
and values are found as they were written, in a query escaped, in headers trimmed, and what
trimming leaves says `TrimmedIs`.  Together they give `GetIsUnderstood`: of every GET request,
with any directory, object, query and headers the server has room for, the module is given just
these; and so `GetsAreUnderstood`, which is the premise above for streams of such requests.
`IsGet` says which these are; the request of `MCHttpServer` with a query that has escapes is one.

Its end in the threaded server: `CloseTypes`, `DeletedLastAlways`
(`DeletedLastUnlessOvertaken`) and two action properties, `FreedOnceOnly` (it is deleted once,
slips or not) and `UntouchedAfterwards` (but for a slip, nothing of a deleted connection is
changed by any thread), for any number of requests and both values of `SplitFlags`.  That a
connection can be deleted follows from the two counters of `is_worker_busy` only because a
request is counted once it is received and until it is done with, and is with tcp.input, in
the queue or with the worker meanwhile (`Counts`), and because the three flags tell where
their threads are (`FlagsTell`, as long as there was no slip): `in_open` is set until
tcp.input has left, and while `worker_open` is not set nothing is queued, being processed
or about to be queued.

`Startup_proofs`: all invariants of `startup_faults` for every environment that
`EnvsAssumption` allows: paths have lengths, and texts are finite sequences of the
lines that `IniFile` names; any number of them.
For `CodeIsAlwaysLoaded`, `NothingIsLeft` and `CrashesAlwaysAlone` the invariants say at which
places of `gr_main` each library, class and block can be held, and how a place without a
module can be reached (`Alone`).  `CrashesAlwaysAlone` follows the lengths: of the paths made
from the executable's (`ExePathsOverflow`, `ModuleDllOverflows`), and of the names from the line
of the text that gives them to the buffer they are copied to (`ModuleNamed`, `CoreNamed`, by what
`NamesAreWritten` says of a lookup); `gr_dll_open` may write past its buffer for these and no others.  `TypeCorrect` is about data: what `Parse` makes of a text is
a sequence of sections made of its items, whatever `Find` gives is a value the text has, and
`LoadListen` makes of it ports that can be bound.
`ParseIsRight` and `AlwaysAsWritten` say that these are the right data, of every text.
`WellFormed`, `Written` and `Listens` say what a text means without reading it line by line:
by positions of headers, counts and least line numbers.  After k lines of `Parse` each section
comes from one header and each item from one line, in their order and none left out (`Read`,
with the line numbers `hp` and `ip` as witnesses), and nothing in these lines was out of place
(`Legal`); a line that makes the text bad makes it one that is not well formed, whatever
follows (`ParseStep`, `BadStays`), which for the limits is a count of the lines by their
sections (`TooManyHeads`, `TooManyItems`).  So the first section of a name is at the first
header of that name (`FindIsWritten`).  Of the list of addresses, `After` says what a pass has
added when it has seen k of them; after two passes an address stands where `Place` counts it
(`PlaceOfTcp`, `PlaceOfUdp`), and there is room for all (`LoadListenIs`).

Induction over data.  The library's induction theorems cannot be instantiated here, but two
things replace them.  That `<` is well founded on the naturals is a theorem without a
parameter (`NatLessThanWellFounded`, `WFMin`): a set of naturals has a smallest element
(`Smallest`), so a set that holds 0 and with each number the next holds them all
(`Induction`, in the set form, once per module that needs it).  And a fold of the community
modules is a `CHOOSE` of a function on the subsets of 1 .. n: shown to exist by that
induction, it gives the values of the fold on its way (`ParseRun`, `PassRun`, `FlattenRun`,
`NumberIsNat`).  `Decoded` is a function that recurs from the end of a text; it exists by the
same induction (`DecodedRun`), and what holds of it is proved backwards (`Backwards`).

Only model-checked: liveness (TLAPS has no rules for fairness and ENABLED here):
`PublishedIsTaken`, `SentUnlessForgotten`, `PendingIsSent`, `FinIsNoticed`,
`StartAndStopEnd`, `GivenUpIsDeleted`, `Restarted` and `ToldEnd`.  So is what one request
alone means when it is no GET: forms, bodies with their `Content-Length`, other methods, a
request line that ends in a single line feed, and malformed requests are data of
`MCHttpServer`, one entry for each, which TLC compares with the parser (`RequestAssumption`).

## What the models leave out

* Memory is sequentially consistent, but for `MayReload` and `SplitFlags`.
* HTTP: names are compared as they stand (the code ignores case), text is units of
  characters and words; a `Content-Length` beyond an int, and HTTP replies.
* Daemon: SIGTERM stands for the three stopping signals; sessions and file modes of
  `run_back`; whether an orphaned server keeps the ports a new start wants.
* Startup: one failure per start at most; lines, file names and values are records and
  strings with a length, paths their lengths; affinity, log level and boolean flags.  The three
  buffers of `gr_dll_open` count as one, the longest path's, since the others hold parts of it.
* Inline server: `epoll_ctl` succeeds, and what `tcp_io.h:154` asserts.
* Threaded server: one connection; requests stay below `GR_REQ_PUSH_COUNT_HI_WALTER`.

## Not modelled

The kqueue, IOCP and Windows variants (the models follow the Linux build), UDP and backend
work (stubs in the source), `gr_library_invoke.c` (a call with up to fifty arguments, without
state), formatting of the log and thin wrappers of system calls, and the demo and test
programs, which only say what is expected.

## Plan

What is left, in this order: `GetIsUnderstood` for requests with a body and for malformed ones;
UDP and the backend once the source has more than stubs of them; the threaded server with HTTP,
where the parse buffer of a worker is shared by its connections.
