------------------------ MODULE InlineServer_proofs ------------------------
(***************************************************************************)
(* For any connections, lengths, buffers and answers of the modules: no    *)
(* event is handled for a connection that was freed, replies reach the     *)
(* client in order and without a gap, and one that waits is waited for.    *)
(*                                                                         *)
(* The handlers map the state of one connection to its next, so the        *)
(* invariant is one predicate of that state (Sound), and one lemma says    *)
(* for each of the C functions what it makes of a sound state.             *)
(***************************************************************************)
EXTENDS InlineServer, SequenceTheorems, TLAPS

Hands == [c : ConnType, s : SockType, e : EpollType, in : BOOLEAN, n : Nat]

\* The entry of a connection in the epoll.
Armed(k) ==
  /\ ~ k.e.reg => ~ k.e.ready
  /\ k.c.life # "live" => ~ k.e.reg
  /\ k.c.pend # <<>> => k.c.life = "live" /\ k.e.reg /\ "OUT" \in k.e.mask

\* The units are numbered from first on.
From(units, first) == \A i \in 1 .. Len(units) : units[i] = first + i - 1

\* What has been sent, and behind it what waits.
Ordered(k) == From(k.s.tx, 1) /\ From(k.c.pend, Len(k.s.tx) + 1)

Complete(k) == Len(k.s.tx) + Len(k.c.pend) = k.n * ReplyLen

Sound(k) ==
  /\ Armed(k) /\ Ordered(k)
  /\ k.c.life # "freed" /\ ~ k.c.netErr /\ ~ k.c.closing => Complete(k)

IInv ==
  /\ TypeOK
  /\ \A c \in Conns : Sound(Handler(c)) /\ (batch[c] # {} => Live(c))

LEMMA HandsAreTyped ==
  ASSUME TypeOK, NEW c \in Conns
  PROVE  Handler(c) \in Hands
BY DEF TypeOK, Handler, Hands

LEMMA Fields ==
  ASSUME NEW k \in Hands
  PROVE  /\ k.c \in ConnType /\ k.s \in SockType /\ k.e \in EpollType
         /\ k.in \in BOOLEAN /\ k.n \in Nat
         /\ k.c.pend \in Seq(Nat) /\ k.c.req \in Nat
         /\ k.s.tx \in Seq(Nat) /\ k.s.room \in 0 .. Room /\ k.s.rx \in Nat
         /\ Len(k.c.pend) \in Nat /\ Len(k.s.tx) \in Nat
<1>1. /\ k.c \in ConnType /\ k.s \in SockType /\ k.e \in EpollType
      /\ k.in \in BOOLEAN /\ k.n \in Nat
  BY DEF Hands
<1>2. k.c.pend \in Seq(Nat) /\ k.c.req \in Nat
  BY <1>1 DEF ConnType
<1>3. k.s.tx \in Seq(Nat) /\ k.s.room \in 0 .. Room /\ k.s.rx \in Nat
  BY <1>1 DEF SockType
<1> QED
  BY <1>1, <1>2, <1>3, LenProperties

LEMMA NoUnits == <<>> \in Seq(Nat) /\ Len(<<>>) = 0 /\ \A first : From(<<>>, first)
BY EmptySeq DEF From

LEMMA InitHolds == Init => IInv
<1> SUFFICES ASSUME Init PROVE IInv
  OBVIOUS
<1>1. [life |-> "none", closing |-> FALSE, netErr |-> FALSE,
       inOpen |-> FALSE, outOpen |-> FALSE, workerOpen |-> FALSE,
       req |-> 0, head |-> FALSE, pend |-> <<>>] \in ConnType
  BY NoUnits DEF ConnType
<1>2. [peer |-> "up", sent |-> 0, rx |-> 0, tx |-> <<>>, room |-> Room] \in SockType
  BY NoUnits, InlineAssumption DEF SockType
<1>3. [reg |-> FALSE, mask |-> {}, ready |-> FALSE] \in EpollType
  BY DEF EpollType
<1>4. TypeOK
  BY <1>1, <1>2, <1>3 DEF Init, TypeOK
<1>5. ASSUME NEW c \in Conns
      PROVE  Sound(Handler(c)) /\ batch[c] = {}
  <2>1. /\ conn[c].pend = <<>> /\ conn[c].life = "none" /\ sock[c].tx = <<>>
        /\ ~ epoll[c].reg /\ ~ epoll[c].ready /\ replies[c] = 0 /\ batch[c] = {}
    BY DEF Init
  <2>2. Armed(Handler(c))
    BY <2>1 DEF Armed, Handler
  <2>3. Ordered(Handler(c))
    BY <2>1, NoUnits DEF Ordered, Handler
  <2>4. Complete(Handler(c))
    <3>1. 0 * ReplyLen = 0
      BY InlineAssumption
    <3>2. Handler(c).s.tx = <<>> /\ Handler(c).c.pend = <<>> /\ Handler(c).n = 0
      BY <2>1 DEF Handler
    <3> QED
      BY <3>1, <3>2, NoUnits DEF Complete
  <2> QED
    BY <2>1, <2>2, <2>3, <2>4 DEF Sound
<1> QED
  BY <1>4, <1>5 DEF IInv

-----------------------------------------------------------------------------
(* Closing *)

\* What every way of closing leaves: nothing in the epoll, nothing to send, nothing sent.
Gone(k, u) ==
  /\ u \in Hands
  /\ u.s = k.s /\ u.n = k.n
  /\ u.c.pend = <<>> /\ ~ u.e.reg /\ ~ u.e.ready
  /\ k.c.closing => u.c.closing
  /\ k.c.netErr => u.c.netErr

LEMMA GoneIsSound ==
  ASSUME NEW k \in Hands, NEW u, Gone(k, u), Ordered(k), u.c.closing \/ u.c.netErr
  PROVE  u \in Hands /\ Sound(u)
BY NoUnits DEF Gone, Sound, Armed, Ordered

LEMMA CloseFromOutGone ==
  ASSUME NEW k \in Hands
  PROVE  Gone(k, CloseFromOut(k))
<1> DEFINE u == [Unregister(ClearRsp(k)) EXCEPT !.c.workerOpen = FALSE, !.c.outOpen = FALSE]
           d == [k.c EXCEPT !.head = FALSE, !.pend = <<>>, !.workerOpen = FALSE, !.outOpen = FALSE]
           r == [reg |-> FALSE, mask |-> {}, ready |-> FALSE]
<1>1. k.c \in ConnType /\ k.s \in SockType /\ k.in \in BOOLEAN /\ k.n \in Nat
  BY Fields
<1>2. d \in ConnType /\ r \in EpollType
  BY <1>1, NoUnits DEF ConnType, EpollType
<1>3. u.c = d /\ u.s = k.s /\ u.e = r /\ u.n = k.n /\ u.in = k.in
  BY DEF Hands, ConnType, Unregister, ClearRsp
<1>4. d.pend = <<>> /\ d.closing = k.c.closing /\ d.netErr = k.c.netErr
  BY <1>1 DEF ConnType
<1>5. u \in Hands
  BY <1>1, <1>2 DEF Hands, Unregister, ClearRsp
<1> HIDE DEF u, d
<1>6. Gone(k, u)
  BY <1>3, <1>4, <1>5 DEF Gone
<1> DEFINE f == [d EXCEPT !.life = "freed", !.req = 0]
<1>7. f \in ConnType /\ f.pend = <<>> /\ f.closing = d.closing /\ f.netErr = d.netErr
  BY <1>2, <1>4 DEF ConnType
<1>8. /\ Free(u) \in Hands
      /\ Free(u).c = f /\ Free(u).s = k.s /\ Free(u).e = r /\ Free(u).n = k.n
  <2>1. Free(u).c = f /\ Free(u).s = k.s /\ Free(u).e = r /\ Free(u).n = k.n
    BY <1>3, <1>5 DEF Free, Hands
  <2>2. Free(u) \in Hands
    BY <1>5, <1>7, <1>3 DEF Free, Hands
  <2> QED
    BY <2>1, <2>2
<1> HIDE DEF f
<1>9. Gone(k, Free(u))
  BY <1>4, <1>7, <1>8 DEF Gone
<1> QED
  BY <1>6, <1>9 DEF CloseFromOut, u

LEMMA RecvErrorSound ==
  ASSUME NEW k \in Hands, Ordered(k)
  PROVE  RecvError(k) \in Hands /\ Sound(RecvError(k)) /\ RecvError(k).s = k.s
<1> DEFINE v == [[RecvDone(k) EXCEPT !.c.outOpen = FALSE] EXCEPT
                   !.c.closing = TRUE, !.c.req = 0, !.c.workerOpen = FALSE, !.c.inOpen = FALSE]
           d == [k.c EXCEPT !.outOpen = FALSE, !.closing = TRUE, !.req = 0, !.workerOpen = FALSE,
                            !.inOpen = FALSE]
           r == [reg |-> FALSE, mask |-> {}, ready |-> FALSE]
<1>1. k.c \in ConnType /\ k.s \in SockType /\ k.in \in BOOLEAN /\ k.n \in Nat
  BY Fields
<1>2. d \in ConnType /\ r \in EpollType /\ d.closing = TRUE
  BY <1>1 DEF ConnType, EpollType
<1>3. v.c = d /\ v.s = k.s /\ v.n = k.n
  BY DEF Hands, ConnType, RecvDone, Unregister
<1>4. RecvError(k) = CloseFromOut(v)
  BY DEF RecvError, CloseFromIn
<1>5. v \in Hands
  BY <1>1, <1>2 DEF Hands, RecvDone, Unregister
<1> HIDE DEF v, d
<1>6. Gone(v, CloseFromOut(v))
  BY <1>5, CloseFromOutGone
<1>7. Ordered(v)
  <2>1. v.c.pend = k.c.pend
    BY <1>1, <1>3 DEF d, ConnType
  <2> QED
    BY <1>3, <2>1 DEF Ordered
<1>8. CloseFromOut(v).c.closing
  BY <1>2, <1>3, <1>6 DEF Gone
<1> QED
  BY <1>3, <1>4, <1>5, <1>6, <1>7, <1>8, GoneIsSound DEF Gone

LEMMA SendCloseSound ==
  ASSUME NEW k \in Hands, Ordered(k), k.c.closing \/ k.c.netErr
  PROVE  SendClose(k) \in Hands /\ Sound(SendClose(k)) /\ SendClose(k).s = k.s
<1> DEFINE d == [k.c EXCEPT !.inOpen = FALSE]
           v == [k EXCEPT !.c.inOpen = FALSE]
<1>1. k.c \in ConnType /\ k.s \in SockType /\ k.e \in EpollType /\ k.in \in BOOLEAN /\ k.n \in Nat
  BY Fields
<1>2. d \in ConnType /\ d.closing = k.c.closing /\ d.netErr = k.c.netErr /\ d.pend = k.c.pend
  BY <1>1 DEF ConnType
<1>3. v.c = d /\ v.s = k.s /\ v.n = k.n
  BY DEF Hands
<1>4. v \in Hands /\ v.c = d /\ v.s = k.s /\ v.n = k.n
  BY <1>1, <1>2, <1>3 DEF Hands
<1> HIDE DEF d, v
<1>5. Gone(v, CloseFromOut(v))
  BY <1>4, CloseFromOutGone
<1>6. Ordered(v)
  BY <1>2, <1>4 DEF Ordered
<1>7. CloseFromOut(v).c.closing \/ CloseFromOut(v).c.netErr
  BY <1>2, <1>4, <1>5 DEF Gone
<1> QED
  BY <1>4, <1>5, <1>6, <1>7, GoneIsSound DEF SendClose, v, Gone

LEMMA PopTopReqSound ==
  ASSUME NEW k \in Hands, Sound(k)
  PROVE  PopTopReq(k) \in Hands /\ Sound(PopTopReq(k))
BY CloseFromOutGone, GoneIsSound DEF PopTopReq, Sound, Gone

-----------------------------------------------------------------------------
(* Sending *)

LEMMA RegisterKeeps ==
  ASSUME NEW k \in Hands, NEW mask \in SUBSET {"IN", "OUT"}
  PROVE  /\ Register(k, mask) \in Hands
         /\ Register(k, mask).c = k.c /\ Register(k, mask).s = k.s
         /\ Register(k, mask).in = k.in /\ Register(k, mask).n = k.n
         /\ Register(k, mask).e.reg /\ Register(k, mask).e.mask = mask
<1> DEFINE r == [reg |-> TRUE, mask |-> mask, ready |-> Events(k.s, mask) # {}]
<1>1. r \in EpollType
  BY DEF EpollType
<1>2. Register(k, mask).e = r
  BY DEF Register, Hands
<1>3. Register(k, mask) \in Hands
  BY <1>1 DEF Register, Hands
<1> QED
  BY <1>2, <1>3 DEF Register, Hands

LEMMA Runs ==
  ASSUME NEW a \in Seq(Nat), NEW b \in Seq(Nat), NEW first \in Nat,
         From(a, first), From(b, first + Len(a))
  PROVE  a \o b \in Seq(Nat) /\ Len(a \o b) = Len(a) + Len(b) /\ From(a \o b, first)
<1>1. /\ a \o b \in Seq(Nat)
      /\ Len(a \o b) = Len(a) + Len(b)
      /\ \A i \in 1 .. Len(a) + Len(b) : (a \o b)[i] = IF i <= Len(a) THEN a[i] ELSE b[i - Len(a)]
  BY ConcatProperties
<1>2. Len(a) \in Nat /\ Len(b) \in Nat
  BY LenProperties
<1> QED
  BY <1>1, <1>2 DEF From

LEMMA Cut ==
  ASSUME NEW a \in Seq(Nat), NEW n \in 0 .. Len(a), NEW first \in Nat, From(a, first)
  PROVE  /\ SubSeq(a, 1, n) \in Seq(Nat) /\ SubSeq(a, n + 1, Len(a)) \in Seq(Nat)
         /\ Len(SubSeq(a, 1, n)) = n /\ Len(SubSeq(a, n + 1, Len(a))) = Len(a) - n
         /\ From(SubSeq(a, 1, n), first) /\ From(SubSeq(a, n + 1, Len(a)), first + n)
<1>1. Len(a) \in Nat /\ n \in Nat /\ n <= Len(a) /\ \A i \in 1 .. Len(a) : a[i] \in Nat
  BY LenProperties, ElementOfSeq
<1>2. /\ SubSeq(a, 1, n) \in Seq(Nat) /\ Len(SubSeq(a, 1, n)) = n
      /\ \A i \in 1 .. n : SubSeq(a, 1, n)[i] = a[i]
  <2>1. \A i \in 1 .. n : a[i] \in Nat
    BY <1>1
  <2>2. /\ SubSeq(a, 1, n) \in Seq(Nat)
        /\ Len(SubSeq(a, 1, n)) = IF 1 <= n THEN n - 1 + 1 ELSE 0
        /\ \A i \in 1 .. n - 1 + 1 : SubSeq(a, 1, n)[i] = a[1 + i - 1]
    BY <1>1, <2>1, SubSeqProperties
  <2> QED
    BY <1>1, <2>2
<1>3. /\ SubSeq(a, n + 1, Len(a)) \in Seq(Nat) /\ Len(SubSeq(a, n + 1, Len(a))) = Len(a) - n
      /\ \A i \in 1 .. Len(a) - n : SubSeq(a, n + 1, Len(a))[i] = a[n + i]
  <2>1. \A i \in n + 1 .. Len(a) : a[i] \in Nat
    BY <1>1
  <2>2. /\ SubSeq(a, n + 1, Len(a)) \in Seq(Nat)
        /\ Len(SubSeq(a, n + 1, Len(a))) = IF n + 1 <= Len(a) THEN Len(a) - (n + 1) + 1 ELSE 0
        /\ \A i \in 1 .. Len(a) - (n + 1) + 1 : SubSeq(a, n + 1, Len(a))[i] = a[n + 1 + i - 1]
    BY <1>1, <2>1, SubSeqProperties
  <2> QED
    BY <1>1, <2>2
<1> QED
  BY <1>1, <1>2, <1>3 DEF From

\* send() takes the first units of data, and what is left follows on them.
LEMMA SentInOrder ==
  ASSUME NEW k \in Hands, NEW data \in Seq(Nat), From(k.s.tx, 1), From(data, Len(k.s.tx) + 1)
  PROVE  /\ Sent(k, data) \in Hands
         /\ Sent(k, data).c = k.c /\ Sent(k, data).e = k.e
         /\ Sent(k, data).in = k.in /\ Sent(k, data).n = k.n
         /\ From(Sent(k, data).s.tx, 1)
         /\ Unsent(k, data) \in Seq(Nat) /\ From(Unsent(k, data), Len(Sent(k, data).s.tx) + 1)
         /\ Unsent(k, data) = SubSeq(data, Len(Sent(k, data).s.tx) - Len(k.s.tx) + 1, Len(data))
         /\ Len(Sent(k, data).s.tx) + Len(Unsent(k, data)) = Len(k.s.tx) + Len(data)
<1> DEFINE n == IF k.s.room < Len(data) THEN k.s.room ELSE Len(data)
           fits == SubSeq(data, 1, n)
           tx == k.s.tx \o fits
           room == k.s.room - Len(fits)
<1>1. /\ k.s \in SockType /\ k.s.tx \in Seq(Nat) /\ k.s.room \in 0 .. Room /\ Len(k.s.tx) \in Nat
      /\ Room \in Nat /\ Len(data) \in Nat
  BY Fields, LenProperties, InlineAssumption
<1>2. n \in 0 .. Len(data) /\ n <= k.s.room /\ n \in Nat
  BY <1>1
<1>3. /\ fits \in Seq(Nat) /\ SubSeq(data, n + 1, Len(data)) \in Seq(Nat)
      /\ Len(fits) = n /\ Len(SubSeq(data, n + 1, Len(data))) = Len(data) - n
      /\ From(fits, Len(k.s.tx) + 1) /\ From(SubSeq(data, n + 1, Len(data)), Len(k.s.tx) + 1 + n)
  <2> HIDE DEF n
  <2> QED
    BY <1>1, <1>2, Cut, SMTT(30)
<1>4. tx \in Seq(Nat) /\ Len(tx) = Len(k.s.tx) + n /\ From(tx, 1)
  <2> HIDE DEF n, fits
  <2>1. 1 + Len(k.s.tx) = Len(k.s.tx) + 1
    BY <1>1
  <2> QED
    BY <1>1, <1>3, <2>1, Runs
<1>5. Fits(k, data) = fits /\ Unsent(k, data) = SubSeq(data, n + 1, Len(data))
  BY <1>3 DEF Fits, Unsent
<1>6. room \in 0 .. Room
  <2>1. room = k.s.room - n
    BY <1>3
  <2> HIDE DEF n, room
  <2> QED
    BY <1>1, <1>2, <2>1
<1>7. Sent(k, data) = [k EXCEPT !.s.tx = tx, !.s.room = room]
  BY <1>5 DEF Sent
<1> HIDE DEF n, fits, tx, room
<1>8. [k.s EXCEPT !.tx = tx, !.room = room] \in SockType
  BY <1>1, <1>4, <1>6 DEF SockType
<1>9. Sent(k, data) \in Hands
  BY <1>7, <1>8 DEF Hands
<1>10. /\ Sent(k, data).c = k.c /\ Sent(k, data).e = k.e
       /\ Sent(k, data).in = k.in /\ Sent(k, data).n = k.n
  BY <1>7 DEF Hands
<1>11. Sent(k, data).s.tx = tx
  <2>1. Sent(k, data).s = [k.s EXCEPT !.tx = tx, !.room = room]
    BY <1>7 DEF Hands
  <2>2. [k.s EXCEPT !.tx = tx, !.room = room].tx = tx
    BY <1>1 DEF SockType
  <2> QED
    BY <2>1, <2>2
<1>12. /\ From(Unsent(k, data), Len(tx) + 1)
       /\ Len(tx) + Len(Unsent(k, data)) = Len(k.s.tx) + Len(data)
       /\ n + 1 = Len(tx) - Len(k.s.tx) + 1
  <2>1. Len(k.s.tx) + 1 + n = Len(tx) + 1
    BY <1>1, <1>2, <1>4
  <2>2. From(Unsent(k, data), Len(tx) + 1)
    BY <1>3, <1>5, <2>1
  <2>3. Len(Unsent(k, data)) = Len(data) - n
    BY <1>3, <1>5
  <2> QED
    BY <1>1, <1>2, <1>4, <2>2, <2>3
<1> QED
  BY <1>3, <1>4, <1>5, <1>9, <1>10, <1>11, <1>12

-----------------------------------------------------------------------------
(* Processing a request *)

\* The units of the n-th reply.
Units(n) == [i \in 1 .. ReplyLen |-> (n - 1) * ReplyLen + i]

LEMMA UnitsFollow ==
  ASSUME NEW n \in Nat
  PROVE  /\ Units(n + 1) \in Seq(Nat) /\ Len(Units(n + 1)) = ReplyLen
         /\ From(Units(n + 1), n * ReplyLen + 1)
         /\ (n + 1) * ReplyLen = n * ReplyLen + ReplyLen /\ n * ReplyLen \in Nat
<1>1. ReplyLen \in Nat /\ n * ReplyLen \in Nat /\ (n + 1) * ReplyLen = n * ReplyLen + ReplyLen
  BY InlineAssumption
<1>2. Units(n + 1) = [i \in 1 .. ReplyLen |-> n * ReplyLen + i]
  BY DEF Units
<1>3. Units(n + 1) \in [1 .. ReplyLen -> Nat]
  BY <1>1, <1>2
<1>4. Units(n + 1) \in Seq(Nat) /\ Len(Units(n + 1)) = ReplyLen
  BY <1>1, <1>3
<1>5. From(Units(n + 1), n * ReplyLen + 1)
  BY <1>1, <1>2, <1>4 DEF From
<1> QED
  BY <1>1, <1>4, <1>5

\* A reply is in order before and after it: k.n already counts it.
Replying(k) ==
  /\ Armed(k) /\ Ordered(k)
  /\ k.c.life = "live"
  /\ \E n \in Nat : k.n = n + 1 /\ Len(k.s.tx) + Len(k.c.pend) = n * ReplyLen

LEMMA NetworkErrorSound ==
  ASSUME NEW k \in Hands, Armed(k), Ordered(k)
  PROVE  NetworkError(k) \in Hands /\ Sound(NetworkError(k)) /\ NetworkError(k).c.netErr
<1> DEFINE d == [k.c EXCEPT !.netErr = TRUE, !.closing = TRUE]
<1>1. k.c \in ConnType
  BY Fields
<1>2. /\ d \in ConnType /\ d.netErr = TRUE /\ d.closing = TRUE
      /\ d.pend = k.c.pend /\ d.life = k.c.life
  BY <1>1 DEF ConnType
<1>3. NetworkError(k).c = d /\ NetworkError(k).s = k.s /\ NetworkError(k).e = k.e
  BY <1>1 DEF NetworkError, Hands, ConnType
<1>4. NetworkError(k) \in Hands
  BY <1>2 DEF NetworkError, Hands
<1> HIDE DEF d
<1> QED
  BY <1>2, <1>3, <1>4 DEF Sound, Armed, Ordered

LEMMA QueuedSound ==
  ASSUME NEW k \in Hands, Armed(k), From(k.s.tx, 1), k.c.life = "live",
         NEW data \in Seq(Nat),
         From(k.c.pend, Len(k.s.tx) + 1), From(data, Len(k.s.tx) + Len(k.c.pend) + 1),
         Len(k.s.tx) + Len(k.c.pend) + Len(data) = k.n * ReplyLen
  PROVE  OutAdd(AddRsp(k, data)) \in Hands /\ Sound(OutAdd(AddRsp(k, data)))
<1> DEFINE pend == k.c.pend \o data
           v == [AddRsp(k, data) EXCEPT !.c.outOpen = TRUE]
           d == [k.c EXCEPT !.head = TRUE, !.pend = pend, !.outOpen = TRUE]
<1>1. /\ k.c \in ConnType /\ k.c.pend \in Seq(Nat)
      /\ Len(k.s.tx) \in Nat /\ Len(k.c.pend) \in Nat /\ Len(data) \in Nat
  BY Fields, LenProperties
<1>2. pend \in Seq(Nat) /\ Len(pend) = Len(k.c.pend) + Len(data) /\ From(pend, Len(k.s.tx) + 1)
  <2>1. Len(k.s.tx) + 1 \in Nat /\ From(data, Len(k.s.tx) + 1 + Len(k.c.pend))
    <3>1. \A m, n \in Nat : m + 1 \in Nat /\ m + n + 1 = m + 1 + n
      OBVIOUS
    <3> HIDE DEF pend, v, d
    <3> QED
      BY <1>1, <3>1
  <2> QED
    BY <1>1, <2>1, Runs
<1> HIDE DEF pend
<1>3. d \in ConnType /\ d.pend = pend /\ d.life = k.c.life
  BY <1>1, <1>2 DEF ConnType
<1>4. v.c = d /\ v.s = k.s /\ v.n = k.n
  BY <1>1 DEF AddRsp, Hands, ConnType, pend
<1>5. v \in Hands
  BY <1>3 DEF AddRsp, Hands, pend
<1>6. OutAdd(AddRsp(k, data)) = Register(v, {"IN", "OUT"})
  BY DEF OutAdd
<1> HIDE DEF v, d
<1> DEFINE u == Register(v, {"IN", "OUT"})
<1>7. u \in Hands /\ u.c = d /\ u.s = k.s /\ u.n = k.n /\ u.e.reg /\ u.e.mask = {"IN", "OUT"}
  BY <1>4, <1>5, RegisterKeeps
<1> HIDE DEF u
<1>8. Armed(u)
  BY <1>3, <1>7 DEF Armed
<1>9. Ordered(u)
  BY <1>2, <1>3, <1>7 DEF Ordered
<1>10. Complete(u)
  <2>1. Len(k.s.tx) + (Len(k.c.pend) + Len(data)) = k.n * ReplyLen
    <3>1. \A m, n, l \in Nat : m + (n + l) = m + n + l
      OBVIOUS
    <3> QED
      BY <1>1, <3>1
  <2> QED
    BY <1>2, <1>3, <1>7, <2>1 DEF Complete
<1> QED
  BY <1>6, <1>7, <1>8, <1>9, <1>10 DEF Sound, u

LEMMA Sums ==
  \A m, n \in Nat : /\ m + n + 1 \in Nat /\ 0 \in 0 .. m /\ m - 0 = m
                    /\ m + 0 = m /\ m + 0 + n = m + n
OBVIOUS

LEMMA RestSound ==
  ASSUME NEW u \in Hands, NEW left \in Seq(Nat), NEW outcome,
         Armed(u), From(u.s.tx, 1), u.c.life = "live", From(u.c.pend, Len(u.s.tx) + 1),
         From(left, Len(u.s.tx) + Len(u.c.pend) + 1),
         Len(u.s.tx) + Len(u.c.pend) + Len(left) = u.n * ReplyLen,
         NEW r,
         r = IF left = <<>> \/ u.c.netErr THEN u
             ELSE IF outcome = "norsp" THEN [u EXCEPT !.c.closing = TRUE]
             ELSE OutAdd(AddRsp(u, left))
  PROVE  r \in Hands /\ Sound(r)
<1>1. CASE u.c.netErr
  BY <1>1 DEF Sound, Ordered
<1>2. CASE left = <<>>
  <2>1. Len(u.s.tx) \in Nat /\ Len(u.c.pend) \in Nat
    BY Fields
  <2>2. \A m, n \in Nat : m + n + 0 = m + n
    OBVIOUS
  <2>3. Complete(u)
    BY <1>2, <2>1, <2>2, NoUnits DEF Complete
  <2> QED
    BY <1>2, <2>3 DEF Sound, Ordered
<1>3. CASE left # <<>> /\ ~ u.c.netErr /\ outcome = "norsp"
  <2> DEFINE d == [u.c EXCEPT !.closing = TRUE]
  <2>1. d \in ConnType /\ d.closing = TRUE /\ d.life = u.c.life /\ d.pend = u.c.pend
    BY Fields DEF ConnType
  <2>2. r.c = d /\ r.s = u.s /\ r.e = u.e
    BY <1>3 DEF Hands
  <2>3. r \in Hands
    BY <1>3, <2>1 DEF Hands
  <2> HIDE DEF d
  <2> QED
    BY <2>1, <2>2, <2>3 DEF Sound, Armed, Ordered
<1>4. CASE left # <<>> /\ ~ u.c.netErr /\ outcome # "norsp"
  BY <1>4, QueuedSound
<1> QED
  BY <1>1, <1>2, <1>3, <1>4

\* The reply goes out directly only when none waits, and what is left of it is queued.
LEMMA ReplySound ==
  ASSUME NEW k \in Hands, Replying(k), NEW outcome
  PROVE  Reply(k, outcome) \in Hands /\ Sound(Reply(k, outcome))
<1> DEFINE data == Units(k.n)
           u == TryToSend(k, data)
           left == SubSeq(data, Len(u.s.tx) - Len(k.s.tx) + 1, ReplyLen)
<1>1. PICK n \in Nat : k.n = n + 1 /\ Len(k.s.tx) + Len(k.c.pend) = n * ReplyLen
  BY DEF Replying
<1>2. /\ data \in Seq(Nat) /\ Len(data) = ReplyLen /\ From(data, Len(k.s.tx) + Len(k.c.pend) + 1)
      /\ k.n * ReplyLen = Len(k.s.tx) + Len(k.c.pend) + ReplyLen
  BY <1>1, UnitsFollow
<1>3. /\ Armed(k) /\ From(k.s.tx, 1) /\ From(k.c.pend, Len(k.s.tx) + 1) /\ k.c.life = "live"
      /\ Len(k.s.tx) \in Nat /\ Len(k.c.pend) \in Nat /\ ReplyLen \in Nat \ {0}
  BY Fields, InlineAssumption DEF Replying, Ordered
<1>4. Reply(k, outcome) = IF left = <<>> \/ u.c.netErr THEN u
                          ELSE IF outcome = "norsp" THEN [u EXCEPT !.c.closing = TRUE]
                          ELSE OutAdd(AddRsp(u, left))
  BY DEF Reply, Units
<1> HIDE DEF data, u, left
<1>5. CASE HasPending(k)
  <2>1. u = k
    BY <1>5 DEF TryToSend, u
  <2>2. left = SubSeq(data, 0 + 1, Len(data))
    BY <1>2, <1>3, <2>1 DEF left
  <2>3. Len(k.s.tx) + Len(k.c.pend) + 1 \in Nat /\ 0 \in 0 .. Len(data)
    BY <1>2, <1>3, Sums
  <2>4. /\ left \in Seq(Nat) /\ Len(left) = Len(data) - 0
        /\ From(left, Len(k.s.tx) + Len(k.c.pend) + 1 + 0)
    BY <1>2, <2>2, <2>3, Cut
  <2>5. Len(left) = ReplyLen /\ From(left, Len(k.s.tx) + Len(k.c.pend) + 1)
    BY <1>2, <1>3, <2>3, <2>4, Sums
  <2> QED
    BY <1>2, <1>3, <1>4, <2>1, <2>4, <2>5, RestSound
<1>6. CASE ~ HasPending(k) /\ k.s.peer = "rst"
  <2>1. u = NetworkError(k)
    BY <1>6 DEF TryToSend, u
  <2> QED
    BY <1>3, <1>4, <2>1, NetworkErrorSound DEF Ordered
<1>7. CASE ~ HasPending(k) /\ k.s.peer # "rst"
  <2>1. u = Sent(k, data) /\ k.c.pend = <<>> /\ Len(k.c.pend) = 0
    BY <1>7, NoUnits DEF TryToSend, HasPending, u
  <2>2. From(data, Len(k.s.tx) + 1)
    <3>1. Len(k.s.tx) + 0 + 1 = Len(k.s.tx) + 1
      BY <1>3
    <3> QED
      BY <1>2, <2>1, <3>1
  <2>3. /\ u \in Hands /\ u.c = k.c /\ u.e = k.e /\ u.n = k.n
        /\ From(u.s.tx, 1)
        /\ Unsent(k, data) \in Seq(Nat) /\ From(Unsent(k, data), Len(u.s.tx) + 1)
        /\ Unsent(k, data) = SubSeq(data, Len(u.s.tx) - Len(k.s.tx) + 1, Len(data))
        /\ Len(u.s.tx) + Len(Unsent(k, data)) = Len(k.s.tx) + Len(data)
    BY <1>2, <1>3, <2>1, <2>2, SentInOrder
  <2>4. left = Unsent(k, data)
    BY <1>2, <2>3 DEF left
  <2>5. Armed(u)
    BY <1>3, <2>3 DEF Armed
  <2>6. Len(u.s.tx) \in Nat /\ Len(left) \in Nat
    BY <2>3, <2>4, Fields, LenProperties
  <2>7. u.c.pend = <<>> /\ Len(u.s.tx) + Len(u.c.pend) = Len(u.s.tx)
    <3>1. u.c.pend = <<>> /\ Len(u.c.pend) = 0
      BY <2>1, <2>3
    <3> QED
      BY <3>1, <2>6, Sums
  <2>8. k.n * ReplyLen = Len(k.s.tx) + ReplyLen
    BY <1>2, <1>3, <2>1, Sums
  <2>9. /\ From(u.c.pend, Len(u.s.tx) + 1)
        /\ From(left, Len(u.s.tx) + Len(u.c.pend) + 1)
    BY <2>3, <2>4, <2>7, NoUnits
  <2>10. Len(u.s.tx) + Len(u.c.pend) + Len(left) = u.n * ReplyLen
    BY <1>2, <2>3, <2>4, <2>7, <2>8
  <2> QED
    BY <1>3, <1>4, <2>3, <2>4, <2>5, <2>9, <2>10, RestSound
<1> QED
  BY <1>5, <1>6, <1>7

-----------------------------------------------------------------------------
(* What the handlers do to a connection nobody gives up *)

Calm(k) == ~ k.c.netErr /\ ~ k.c.closing

\* It is still up, and nothing in it says it should not be.
Stays(k, u) == Calm(u) /\ u.c.life = k.c.life

LEMMA NotOpenIsFreed ==
  ASSUME NEW k \in Hands, k.c.inOpen = FALSE
  PROVE  CloseFromOut(k).c.life = "freed"
<1> DEFINE d == [k.c EXCEPT !.head = FALSE, !.pend = <<>>, !.workerOpen = FALSE, !.outOpen = FALSE]
           u == [Unregister(ClearRsp(k)) EXCEPT !.c.workerOpen = FALSE, !.c.outOpen = FALSE]
<1>1. d \in ConnType /\ d.inOpen = FALSE
  BY Fields, NoUnits DEF ConnType
<1>2. u.c = d
  BY DEF Hands, ConnType, Unregister, ClearRsp
<1>3. u \in Hands
  BY <1>1, Fields DEF Hands, Unregister, ClearRsp, EpollType
<1>4. CloseFromOut(k) = IF u.c.inOpen THEN u ELSE Free(u)
  BY DEF CloseFromOut
<1> HIDE DEF u, d
<1>5. Free(u).c.life = "freed"
  BY <1>1, <1>2, <1>3 DEF Free, Hands, ConnType
<1> QED
  BY <1>1, <1>2, <1>4, <1>5

LEMMA RecvErrorFrees ==
  ASSUME NEW k \in Hands
  PROVE  RecvError(k).c.life = "freed"
<1> DEFINE v == [[RecvDone(k) EXCEPT !.c.outOpen = FALSE] EXCEPT
                   !.c.closing = TRUE, !.c.req = 0, !.c.workerOpen = FALSE, !.c.inOpen = FALSE]
           d == [k.c EXCEPT !.outOpen = FALSE, !.closing = TRUE, !.req = 0, !.workerOpen = FALSE,
                            !.inOpen = FALSE]
<1>1. d \in ConnType /\ d.inOpen = FALSE
  BY Fields DEF ConnType
<1>2. v.c = d
  BY DEF Hands, ConnType, RecvDone, Unregister
<1>3. v \in Hands
  <2> DEFINE w == RecvDone(k)
             x == [w EXCEPT !.c.outOpen = FALSE]
  <2>1. w \in Hands /\ w.c = k.c
    BY Fields DEF Hands, RecvDone, Unregister, EpollType
  <2> HIDE DEF w
  <2>2. x \in Hands
    BY <2>1, Fields DEF Hands, ConnType
  <2> HIDE DEF x
  <2>3. [x EXCEPT !.c.closing = TRUE, !.c.req = 0, !.c.workerOpen = FALSE,
                  !.c.inOpen = FALSE] \in Hands
    BY <2>2, Fields DEF Hands, ConnType
  <2> QED
    BY <2>3 DEF x, w
<1> HIDE DEF d, v
<1> QED
  BY <1>1, <1>2, <1>3, NotOpenIsFreed DEF RecvError, CloseFromIn, v

LEMMA SendCloseFrees ==
  ASSUME NEW k \in Hands
  PROVE  SendClose(k).c.life = "freed"
<1> DEFINE v == [k EXCEPT !.c.inOpen = FALSE]
<1>1. [k.c EXCEPT !.inOpen = FALSE] \in ConnType /\ [k.c EXCEPT !.inOpen = FALSE].inOpen = FALSE
  BY Fields DEF ConnType
<1>2. v \in Hands /\ v.c = [k.c EXCEPT !.inOpen = FALSE]
  BY <1>1, Fields DEF Hands
<1> QED
  BY <1>1, <1>2, NotOpenIsFreed DEF SendClose

\* Nothing of the client's end is touched, and send() can fail only on a broken connection.
LEMMA TryKeeps ==
  ASSUME NEW k \in Hands, Replying(k)
  PROVE  /\ TryToSend(k, Units(k.n)) \in Hands
         /\ TryToSend(k, Units(k.n)).s.peer = k.s.peer
         /\ k.s.peer # "rst" => TryToSend(k, Units(k.n)).c = k.c
<1>1. NetworkError(k) \in Hands /\ NetworkError(k).s = k.s
  BY NetworkErrorSound DEF Replying, NetworkError, Hands
<1>2. Sent(k, Units(k.n)).s.peer = k.s.peer /\ Sent(k, Units(k.n)).c = k.c
  BY Fields DEF Sent, Hands, SockType
<1>3. ~ HasPending(k) => Sent(k, Units(k.n)) \in Hands
  <2>1. PICK n \in Nat : k.n = n + 1 /\ Len(k.s.tx) + Len(k.c.pend) = n * ReplyLen
    BY DEF Replying
  <2>2. Units(k.n) \in Seq(Nat) /\ From(Units(k.n), Len(k.s.tx) + Len(k.c.pend) + 1)
    BY <2>1, UnitsFollow
  <2>3. ~ HasPending(k) => From(Units(k.n), Len(k.s.tx) + 1)
    <3>1. ~ HasPending(k) => Len(k.c.pend) = 0
      BY NoUnits DEF HasPending
    <3> QED
      BY <2>2, <3>1, Fields, Sums
  <2> QED
    BY <2>2, <2>3, SentInOrder DEF Replying, Ordered
<1> QED
  BY <1>1, <1>2, <1>3 DEF TryToSend

LEMMA ReplyKeeps ==
  ASSUME NEW k \in Hands, Replying(k), NEW outcome
  PROVE  /\ Reply(k, outcome).s.peer = k.s.peer
         /\ Calm(k) /\ k.s.peer # "rst" /\ outcome # "norsp" => Stays(k, Reply(k, outcome))
<1> DEFINE u == TryToSend(k, Units(k.n))
           left == SubSeq(Units(k.n), Len(u.s.tx) - Len(k.s.tx) + 1, ReplyLen)
           q == OutAdd(AddRsp(u, left))
<1>1. u \in Hands /\ u.s.peer = k.s.peer /\ (k.s.peer # "rst" => u.c = k.c)
  BY TryKeeps
<1>2. Reply(k, outcome) = IF left = <<>> \/ u.c.netErr THEN u
                          ELSE IF outcome = "norsp" THEN [u EXCEPT !.c.closing = TRUE] ELSE q
  BY DEF Reply, Units
<1> HIDE DEF u, left
<1>3. q.c = [u.c EXCEPT !.head = TRUE, !.pend = @ \o left, !.outOpen = TRUE] /\ q.s = u.s
  BY <1>1 DEF OutAdd, AddRsp, Register, Hands, ConnType
<1>4. q.c.closing = u.c.closing /\ q.c.netErr = u.c.netErr /\ q.c.life = u.c.life
  BY <1>1, <1>3, Fields DEF ConnType
<1>5. [u EXCEPT !.c.closing = TRUE].s = u.s
  BY <1>1 DEF Hands
<1> HIDE DEF q
<1> QED
  BY <1>1, <1>2, <1>3, <1>4, <1>5 DEF Stays, Calm

LEMMA PopTopReqKeeps ==
  ASSUME NEW k \in Hands
  PROVE  PopTopReq(k).s = k.s /\ (~ k.c.closing => PopTopReq(k) = k)
BY CloseFromOutGone DEF PopTopReq, Gone

-----------------------------------------------------------------------------
(* The handlers *)

LEMMA ProcessSound ==
  ASSUME NEW k \in Hands, NEW outcome, Armed(k), Ordered(k), Complete(k), k.c.life = "live",
         k.c.req >= PkgLen
  PROVE  /\ Process(k, outcome) \in Hands /\ Sound(Process(k, outcome))
         /\ Process(k, outcome).s.peer = k.s.peer
         /\ Calm(k) /\ k.s.peer # "rst" /\ outcome \in {"reply", "silent"} =>
              Stays(k, Process(k, outcome))
<1> DEFINE u == [TakeRequest(k) EXCEPT !.c.closing = @ \/ outcome \in {"last", "close"}]
           closing == k.c.closing \/ outcome \in {"last", "close"}
           d == [k.c EXCEPT !.workerOpen = TRUE, !.req = @ - PkgLen, !.closing = closing]
           v == [u EXCEPT !.n = @ + 1]
<1>1. k.c \in ConnType /\ k.c.req \in Nat /\ k.n \in Nat /\ k.c.req - PkgLen \in Nat
  BY Fields, InlineAssumption
<1>2. d \in ConnType
  BY <1>1 DEF ConnType
<1>3. /\ d.pend = k.c.pend /\ d.life = k.c.life /\ d.netErr = k.c.netErr
      /\ d.closing <=> closing
  BY <1>1 DEF ConnType
<1>4. u.c = d /\ u.s = k.s /\ u.e = k.e /\ u.n = k.n
  BY <1>1 DEF TakeRequest, Hands, ConnType
<1>5. u \in Hands
  <2> HIDE DEF d
  <2>1. u = [k EXCEPT !.c = d]
    BY <1>1 DEF TakeRequest, Hands, ConnType, d
  <2> QED
    BY <1>2, <2>1 DEF Hands
<1> HIDE DEF d, u
<1>6. Sound(u)
  BY <1>3, <1>4 DEF Sound, Armed, Ordered, Complete
<1>7. v \in Hands /\ Replying(v) /\ v.c = d /\ v.s = k.s
  <2>1. v \in Hands
    BY <1>5 DEF Hands
  <2>2. v.c = d /\ v.s = k.s /\ v.e = k.e /\ v.n = k.n + 1
    BY <1>4, <1>5 DEF Hands
  <2> HIDE DEF v
  <2>3. Armed(v) /\ Ordered(v) /\ v.c.life = "live"
    BY <1>3, <2>2 DEF Armed, Ordered
  <2>4. Len(v.s.tx) + Len(v.c.pend) = k.n * ReplyLen
    BY <1>3, <2>2 DEF Complete
  <2> QED
    BY <1>1, <2>1, <2>2, <2>3, <2>4 DEF Replying
<1>8. Process(k, outcome) = IF outcome \in {"reply", "last", "norsp"}
                            THEN PopTopReq(Reply(v, outcome)) ELSE PopTopReq(u)
  BY DEF Process, u
<1> HIDE DEF v
<1>9. Reply(v, outcome) \in Hands /\ Sound(Reply(v, outcome))
  BY <1>7, ReplySound
<1>10. Process(k, outcome) \in Hands /\ Sound(Process(k, outcome))
  BY <1>5, <1>6, <1>8, <1>9, PopTopReqSound
<1>11. Process(k, outcome).s.peer = k.s.peer
  BY <1>4, <1>5, <1>7, <1>8, <1>9, ReplyKeeps, PopTopReqKeeps
<1>12. ASSUME Calm(k), k.s.peer # "rst", outcome \in {"reply", "silent"}
       PROVE  Stays(k, Process(k, outcome))
  <2>1. Calm(u) /\ Calm(v)
    BY <1>3, <1>4, <1>7, <1>12 DEF Calm
  <2>2. CASE outcome = "reply"
    <3>1. Stays(v, Reply(v, outcome))
      BY <1>7, <1>12, <2>1, <2>2, ReplyKeeps
    <3> QED
      BY <1>3, <1>7, <1>8, <1>9, <2>2, <3>1, PopTopReqKeeps DEF Stays, Calm
  <2>3. CASE outcome = "silent"
    BY <1>3, <1>4, <1>5, <1>8, <2>1, <2>3, PopTopReqKeeps DEF Stays, Calm
  <2> QED
    BY <1>12, <2>2, <2>3
<1> QED
  BY <1>10, <1>11, <1>12

LEMMA OnRecvSound ==
  ASSUME NEW k \in Hands, Sound(k), k.c.life = "live", NEW outcome
  PROVE  /\ OnRecv(k, outcome) \in Hands /\ Sound(OnRecv(k, outcome))
         /\ OnRecv(k, outcome).s.peer = k.s.peer
         /\ Calm(k) /\ k.s.peer = "up" /\ outcome \in {"reply", "silent"} =>
              \/ OnRecv(k, outcome).c.life = "freed" /\ (BufferFull(k) \/ k.s.rx = 0)
              \/ Stays(k, OnRecv(k, outcome))
<1> DEFINE u == Received(k)
           d == [k.c EXCEPT !.req = @ + k.s.rx, !.closing = @ \/ k.s.peer # "up",
                            !.netErr = @ \/ k.s.peer # "up"]
           t == [k.s EXCEPT !.rx = 0]
<1>1. k.c \in ConnType /\ k.s \in SockType /\ k.c.req + k.s.rx \in Nat
  BY Fields
<1>2. d \in ConnType /\ t \in SockType
  BY <1>1 DEF ConnType, SockType
<1>3. /\ d.pend = k.c.pend /\ d.life = k.c.life
      /\ d.closing <=> k.c.closing \/ k.s.peer # "up"
      /\ d.netErr <=> k.c.netErr \/ k.s.peer # "up"
  BY <1>1 DEF ConnType
<1>4. t.tx = k.s.tx /\ t.peer = k.s.peer
  BY <1>1 DEF SockType
<1>5. u.c = d /\ u.s = t /\ u.e = k.e /\ u.n = k.n
  BY <1>1 DEF Received, Hands, ConnType, SockType
<1>6. u \in Hands
  <2> HIDE DEF d, t
  <2>1. u = [k EXCEPT !.c = d, !.s = t]
    BY <1>1 DEF Received, Hands, ConnType, SockType, d, t
  <2> QED
    BY <1>2, <2>1 DEF Hands
<1> HIDE DEF u, d, t
<1>7. Armed(u) /\ Ordered(u) /\ u.c.life = "live" /\ (Complete(k) => Complete(u))
  BY <1>3, <1>4, <1>5 DEF Sound, Armed, Ordered, Complete
<1>8. Sound(u)
  BY <1>3, <1>5, <1>7 DEF Sound
<1>9. CASE \/ k.c.netErr \/ k.c.closing \/ BufferFull(k) \/ k.s.rx = 0 \/ outcome = "bad"
           \/ outcome = "noreq" /\ u.c.req > PkgLen
  <2>1. OnRecv(k, outcome) = RecvError(k)
    BY <1>9 DEF OnRecv, u
  <2> QED
    BY <1>9, <2>1, RecvErrorSound, RecvErrorFrees DEF Sound, Calm
<1>10. CASE ~ (\/ k.c.netErr \/ k.c.closing \/ BufferFull(k) \/ k.s.rx = 0 \/ outcome = "bad"
               \/ outcome = "noreq" /\ u.c.req > PkgLen)
  <2>1. OnRecv(k, outcome) = IF u.c.req < PkgLen THEN u ELSE Process(u, outcome)
    BY <1>10 DEF OnRecv, u
  <2>2. Complete(u)
    BY <1>7, <1>10 DEF Sound
  <2>3. u.c.req \in Nat /\ PkgLen \in Nat
    BY <1>6, Fields, InlineAssumption
  <2>4. Calm(k) /\ k.s.peer = "up" => Stays(k, u)
    BY <1>3, <1>5 DEF Calm, Stays
  <2>5. CASE u.c.req < PkgLen
    BY <1>4, <1>5, <1>6, <1>8, <2>1, <2>5, <2>4
  <2>6. CASE u.c.req >= PkgLen
    BY <1>4, <1>5, <1>6, <1>7, <2>1, <2>2, <2>3, <2>6, <2>4, ProcessSound DEF Stays
  <2> QED
    BY <2>3, <2>5, <2>6
<1> QED
  BY <1>9, <1>10

LEMMA PollSendSound ==
  ASSUME NEW k \in Hands, Sound(k), k.c.life = "live"
  PROVE  /\ PollSend(k) \in Hands /\ Sound(PollSend(k))
         /\ PollSend(k).s.peer = k.s.peer
         /\ Calm(k) => Stays(k, PollSend(k))
<1> DEFINE left == Unsent(k, k.c.pend)
           v == Sent(k, k.c.pend)
           d == [v.c EXCEPT !.pend = left]
           u == [v EXCEPT !.c.pend = left]
<1>1. k.c.pend \in Seq(Nat) /\ From(k.s.tx, 1) /\ From(k.c.pend, Len(k.s.tx) + 1)
  BY Fields DEF Sound, Ordered
<1>2. /\ v \in Hands /\ v.c = k.c /\ v.e = k.e /\ v.in = k.in /\ v.n = k.n
      /\ From(v.s.tx, 1) /\ left \in Seq(Nat) /\ From(left, Len(v.s.tx) + 1)
      /\ Len(v.s.tx) + Len(left) = Len(k.s.tx) + Len(k.c.pend)
  BY <1>1, SentInOrder
<1>3. (k.c.pend = <<>> => left = <<>>) /\ v.s.peer = k.s.peer
  <2>1. k.c.pend = <<>> => left = <<>>
    BY <1>1 DEF Unsent, Fits, left
  <2>2. v.s.peer = k.s.peer
    BY Fields DEF Sent, Hands, SockType, v
  <2> QED
    BY <2>1, <2>2
<1> HIDE DEF left, v
<1>4. /\ d \in ConnType /\ d.pend = left /\ d.life = k.c.life
      /\ d.netErr = k.c.netErr /\ d.closing = k.c.closing
  BY <1>2, Fields DEF ConnType
<1>5. u.c = d /\ u.s = v.s /\ u.e = k.e /\ u.n = k.n /\ u.in = k.in
  BY <1>2 DEF Hands
<1>6. u \in Hands
  BY <1>2, <1>4 DEF Hands
<1>7. PollSend(k) = IF u.c.pend # <<>> THEN u ELSE Register(u, IF k.in THEN {"IN"} ELSE {})
  BY DEF PollSend, v, left
<1> HIDE DEF u, d
<1>8. Ordered(u) /\ (Complete(k) => Complete(u))
  BY <1>2, <1>4, <1>5 DEF Ordered, Complete
<1>9. CASE u.c.pend # <<>>
  <2>1. Armed(u)
    BY <1>3, <1>4, <1>5, <1>9 DEF Sound, Armed
  <2> QED
    BY <1>3, <1>4, <1>5, <1>6, <1>7, <1>8, <1>9, <2>1 DEF Sound, Calm, Stays
<1>10. CASE u.c.pend = <<>>
  <2> DEFINE mask == IF k.in THEN {"IN"} ELSE {}
             w == Register(u, mask)
  <2>1. mask \in SUBSET {"IN", "OUT"}
    OBVIOUS
  <2> HIDE DEF mask
  <2>2. w \in Hands /\ w.c = u.c /\ w.s = u.s /\ w.n = u.n /\ w.e.reg
    BY <1>6, <2>1, RegisterKeeps
  <2>3. PollSend(k) = w
    BY <1>7, <1>10 DEF mask
  <2> HIDE DEF w
  <2>4. Armed(w)
    BY <1>4, <1>5, <1>10, <2>2 DEF Armed
  <2>5. Ordered(w) /\ (Complete(u) => Complete(w))
    BY <1>8, <2>2 DEF Ordered, Complete
  <2> QED
    BY <1>3, <1>4, <1>5, <1>8, <2>2, <2>3, <2>4, <2>5 DEF Sound, Calm, Stays
<1> QED
  BY <1>9, <1>10

LEMMA OnSendSound ==
  ASSUME NEW k \in Hands, Sound(k), k.c.life = "live"
  PROVE  /\ OnSend(k) \in Hands /\ Sound(OnSend(k))
         /\ OnSend(k).s.peer = k.s.peer
         /\ Calm(k) /\ k.s.peer = "up" => Stays(k, OnSend(k))
<1>1. /\ PollSend(k) \in Hands /\ Sound(PollSend(k)) /\ PollSend(k).s.peer = k.s.peer
      /\ Calm(k) => Stays(k, PollSend(k))
  BY PollSendSound
<1>2. /\ NetworkError(k) \in Hands /\ Sound(NetworkError(k)) /\ NetworkError(k).c.netErr
      /\ NetworkError(k).s = k.s
  BY NetworkErrorSound DEF Sound, NetworkError, Hands
<1>3. k.c.netErr => /\ SendClose(k) \in Hands /\ Sound(SendClose(k)) /\ SendClose(k).s = k.s
  BY SendCloseSound DEF Sound
<1>4. /\ SendClose(NetworkError(k)) \in Hands /\ Sound(SendClose(NetworkError(k)))
      /\ SendClose(NetworkError(k)).s = k.s
  BY <1>2, SendCloseSound DEF Sound
<1>5. PollSend(k).c.closing => /\ SendClose(PollSend(k)) \in Hands
                               /\ Sound(SendClose(PollSend(k)))
                               /\ SendClose(PollSend(k)).s = PollSend(k).s
  BY <1>1, SendCloseSound DEF Sound
<1> QED
  BY <1>1, <1>3, <1>4, <1>5 DEF OnSend, Stays, Calm

LEMMA HandledSound ==
  ASSUME NEW k \in Hands, Sound(k), k.c.life = "live", NEW events, NEW outcome
  PROVE  /\ Handled(k, events, outcome) \in Hands /\ Sound(Handled(k, events, outcome))
         /\ Handled(k, events, outcome).s.peer = k.s.peer
         /\ Calm(k) /\ k.s.peer = "up" /\ outcome \in {"reply", "silent"} =>
              \/ Stays(k, Handled(k, events, outcome))
              \/ /\ Handled(k, events, outcome).c.life = "freed"
                 /\ \/ BufferFull(k)
                    \/ "IN" \in events /\ k.s.rx = 0
                    \/ "IN" \notin events /\ "OUT" \notin events
BY OnRecvSound, OnSendSound, RecvErrorSound, RecvErrorFrees DEF Handled, Sound

-----------------------------------------------------------------------------
(* The steps *)

LEMMA Untouched ==
  ASSUME NEW c \in Conns, Sound(Handler(c)), conn'[c] = conn[c], sock'[c] = sock[c],
         epoll'[c] = epoll[c], replies'[c] = replies[c]
  PROVE  Sound(Handler(c))'
BY DEF Sound, Handler, Armed, Ordered, Complete

LEMMA HandleKeeps ==
  ASSUME IInv, NEW c \in Conns, Handle(c)
  PROVE  IInv'
<1>1. PICK outcome \in Outcomes[c] :
        LET k == Handled(Handler(c), batch[c], outcome)
        IN  /\ conn' = [conn EXCEPT ![c] = k.c]
            /\ sock' = [sock EXCEPT ![c] = k.s]
            /\ epoll' = [epoll EXCEPT ![c] = k.e]
            /\ alreadyIn' = k.in
            /\ replies' = [replies EXCEPT ![c] = k.n]
  BY DEF Handle
<1> DEFINE k == Handled(Handler(c), batch[c], outcome)
<1>2. k \in Hands /\ Sound(k)
  <2>1. Handler(c) \in Hands /\ Sound(Handler(c)) /\ Handler(c).c.life = "live"
    BY HandsAreTyped DEF IInv, Handle, Live, Handler
  <2> QED
    BY <2>1, HandledSound
<1>3. /\ conn' = [conn EXCEPT ![c] = k.c]
      /\ sock' = [sock EXCEPT ![c] = k.s]
      /\ epoll' = [epoll EXCEPT ![c] = k.e]
      /\ alreadyIn' = k.in
      /\ replies' = [replies EXCEPT ![c] = k.n]
      /\ batch' = [batch EXCEPT ![c] = {}]
  BY <1>1 DEF Handle
<1> HIDE DEF k
<1>4. /\ k.c \in ConnType /\ k.s \in SockType /\ k.e \in EpollType
      /\ k.in \in BOOLEAN /\ k.n \in Nat
  BY <1>2, Fields
<1>5. TypeOK'
  BY <1>3, <1>4 DEF IInv, TypeOK
<1>6. /\ conn'[c] = k.c /\ sock'[c] = k.s /\ epoll'[c] = k.e /\ replies'[c] = k.n /\ batch'[c] = {}
      /\ \A o \in Conns \ {c} : /\ conn'[o] = conn[o] /\ sock'[o] = sock[o] /\ epoll'[o] = epoll[o]
                                /\ replies'[o] = replies[o] /\ batch'[o] = batch[o]
  BY <1>3 DEF IInv, TypeOK
<1>7. Sound(Handler(c))'
  BY <1>2, <1>6 DEF Sound, Handler, Armed, Ordered, Complete
<1>8. \A o \in Conns \ {c} : Sound(Handler(o))' /\ (batch'[o] # {} => Live(o)')
  <2> SUFFICES ASSUME NEW o \in Conns \ {c}
               PROVE  Sound(Handler(o))' /\ (batch'[o] # {} => Live(o)')
    OBVIOUS
  <2>1. Sound(Handler(o))'
    BY <1>6, Untouched DEF IInv
  <2>2. batch'[o] # {} => Live(o)'
    BY <1>6 DEF IInv, Live
  <2> QED
    BY <2>1, <2>2
<1> QED
  BY <1>5, <1>6, <1>7, <1>8 DEF IInv

\* What epoll_wait returns is of live connections: of others there is no entry.
LEMMA PollKeeps ==
  ASSUME IInv, Poll
  PROVE  IInv'
<1>1. \A c \in Conns : /\ conn[c] \in ConnType /\ sock[c] \in SockType /\ epoll[c] \in EpollType
                       /\ Sound(Handler(c))
  BY DEF IInv, TypeOK
<1>2. \A c \in Conns : Events(sock[c], epoll[c].mask) \in SUBSET Event
  BY <1>1 DEF Events, Event, EpollType
<1>3. \A c \in Conns : [epoll[c] EXCEPT !.ready = FALSE] \in EpollType
  BY <1>1 DEF EpollType
<1>4. TypeOK'
  BY <1>2, <1>3 DEF IInv, TypeOK, Poll
<1>5. ASSUME NEW c \in Conns
      PROVE  Sound(Handler(c))' /\ (batch'[c] # {} => Live(c)')
  <2>1. /\ conn' = conn /\ sock' = sock /\ replies' = replies
        /\ epoll'[c] = [epoll[c] EXCEPT !.ready = FALSE]
        /\ batch'[c] # {} => epoll[c].ready
    BY DEF Poll
  <2>2. /\ epoll'[c].reg = epoll[c].reg /\ epoll'[c].mask = epoll[c].mask
        /\ epoll'[c].ready = FALSE
    BY <1>1, <2>1 DEF EpollType
  <2>3. Sound(Handler(c))'
    BY <1>1, <2>1, <2>2 DEF Sound, Handler, Armed, Ordered, Complete
  <2>4. epoll[c].ready => Live(c)
    BY <1>1 DEF Sound, Handler, Armed, Live
  <2> QED
    BY <2>1, <2>3, <2>4 DEF Live
<1> QED
  BY <1>4, <1>5 DEF IInv

LEMMA AcceptKeeps ==
  ASSUME IInv, NEW c \in Conns, Accept(c)
  PROVE  IInv'
<1> DEFINE d == [conn[c] EXCEPT !.life = "live", !.inOpen = TRUE]
           r == [reg |-> TRUE, mask |-> {"IN", "OUT"}, ready |-> TRUE]
<1>1. conn[c] \in ConnType /\ conn[c].life = "none"
  BY DEF IInv, TypeOK, Accept
<1>2. /\ d \in ConnType /\ d.life = "live" /\ d.pend = conn[c].pend
      /\ d.closing = conn[c].closing /\ d.netErr = conn[c].netErr
  BY <1>1 DEF ConnType
<1>3. r \in EpollType
  BY DEF EpollType
<1>4. /\ conn' = [conn EXCEPT ![c] = d] /\ epoll' = [epoll EXCEPT ![c] = r] /\ alreadyIn' = TRUE
      /\ UNCHANGED <<sock, batch, replies>>
  <2>1. conn' = [conn EXCEPT ![c].life = "live", ![c].inOpen = TRUE]
    BY DEF Accept, AddConn
  <2>2. [conn EXCEPT ![c].life = "live", ![c].inOpen = TRUE] = [conn EXCEPT ![c] = d]
    BY <1>1 DEF IInv, TypeOK, ConnType
  <2> QED
    BY <2>1, <2>2 DEF Accept, AddConn
<1> HIDE DEF d, r
<1>5. TypeOK'
  BY <1>2, <1>3, <1>4 DEF IInv, TypeOK
<1>6. /\ conn'[c] = d /\ epoll'[c] = r
      /\ \A o \in Conns \ {c} : conn'[o] = conn[o] /\ epoll'[o] = epoll[o]
  BY <1>4 DEF IInv, TypeOK
<1>7. Sound(Handler(c))'
  <2>1. Sound(Handler(c)) /\ conn'[c] = d /\ epoll'[c] = r /\ sock' = sock /\ replies' = replies
    BY <1>4, <1>6 DEF IInv
  <2>2. d.pend = <<>> /\ d.life # "freed" /\ r.reg
    BY <1>1, <1>2, <2>1 DEF Sound, Armed, Handler, r
  <2>3. Armed(Handler(c))'
    BY <2>1, <2>2, <1>2 DEF Armed, Handler
  <2>4. Ordered(Handler(c))' /\ (Complete(Handler(c)) => Complete(Handler(c))')
    BY <1>2, <2>1 DEF Sound, Ordered, Complete, Handler
  <2>5. ~ d.closing /\ ~ d.netErr => Complete(Handler(c))
    BY <1>1, <1>2, <2>1 DEF Sound, Handler
  <2> QED
    BY <2>1, <2>3, <2>4, <2>5 DEF Sound, Handler
<1>8. \A o \in Conns \ {c} : Sound(Handler(o))'
  BY <1>4, <1>6, Untouched DEF IInv
<1>9. \A o \in Conns : batch'[o] # {} => Live(o)'
  BY <1>2, <1>4, <1>6 DEF IInv, Live
<1> QED
  BY <1>5, <1>7, <1>8, <1>9 DEF IInv

LEMMA RejectKeeps ==
  ASSUME IInv, NEW c \in Conns, Reject(c)
  PROVE  IInv'
<1> DEFINE d == [conn[c] EXCEPT !.life = "freed"]
<1>1. conn[c] \in ConnType /\ conn[c].life = "none"
  BY DEF IInv, TypeOK, Reject
<1>2. d \in ConnType /\ d.life = "freed" /\ d.pend = conn[c].pend
  BY <1>1 DEF ConnType
<1>3. conn' = [conn EXCEPT ![c] = d] /\ UNCHANGED <<sock, epoll, alreadyIn, batch, replies>>
  BY DEF Reject
<1> HIDE DEF d
<1>4. TypeOK'
  BY <1>2, <1>3 DEF IInv, TypeOK
<1>5. conn'[c] = d /\ \A o \in Conns \ {c} : conn'[o] = conn[o]
  BY <1>3 DEF IInv, TypeOK
<1>6. Sound(Handler(c))'
  BY <1>1, <1>2, <1>3, <1>5 DEF IInv, Sound, Handler, Armed, Ordered
<1>7. \A o \in Conns \ {c} : Sound(Handler(o))'
  BY <1>3, <1>5, Untouched DEF IInv
<1>8. \A o \in Conns : batch'[o] # {} => Live(o)'
  BY <1>1, <1>3, <1>5 DEF IInv, Live
<1> QED
  BY <1>4, <1>6, <1>7, <1>8 DEF IInv

\* A client neither takes back what was sent nor changes what the epoll waits for.
LEMMA ClientKeeps ==
  ASSUME IInv, NEW c \in Conns, NEW s \in SockType, s.tx = sock[c].tx, NEW event,
         Client(c, s, event)
  PROVE  IInv'
<1> DEFINE r == Edge(epoll[c], event)
<1>1. epoll[c] \in EpollType
  BY DEF IInv, TypeOK
<1>2. /\ r \in EpollType /\ r.reg = epoll[c].reg /\ r.mask = epoll[c].mask
      /\ r.ready => epoll[c].ready \/ epoll[c].reg
  BY <1>1 DEF Edge, EpollType
<1>3. /\ sock' = [sock EXCEPT ![c] = s] /\ epoll' = [epoll EXCEPT ![c] = r]
      /\ UNCHANGED <<conn, alreadyIn, batch, replies>>
  BY DEF Client
<1> HIDE DEF r
<1>4. TypeOK'
  BY <1>2, <1>3 DEF IInv, TypeOK
<1>5. /\ sock'[c] = s /\ epoll'[c] = r
      /\ \A o \in Conns \ {c} : sock'[o] = sock[o] /\ epoll'[o] = epoll[o]
  BY <1>3 DEF IInv, TypeOK
<1>6. Sound(Handler(c))'
  <2>1. /\ Sound(Handler(c)) /\ conn' = conn /\ replies' = replies
        /\ epoll'[c] = r /\ sock'[c] = s
    BY <1>3, <1>5 DEF IInv
  <2>2. Armed(Handler(c))'
    BY <1>2, <2>1 DEF Sound, Armed, Handler
  <2>3. Ordered(Handler(c))' /\ (Complete(Handler(c)) => Complete(Handler(c))')
    BY <2>1 DEF Sound, Ordered, Complete, Handler
  <2> QED
    BY <2>1, <2>2, <2>3 DEF Sound, Handler
<1>7. \A o \in Conns \ {c} : Sound(Handler(o))'
  BY <1>3, <1>5, Untouched DEF IInv
<1>8. \A o \in Conns : batch'[o] # {} => Live(o)'
  BY <1>3 DEF IInv, Live
<1> QED
  BY <1>4, <1>6, <1>7, <1>8 DEF IInv

LEMMA ClientsKeep ==
  ASSUME IInv, NEW c \in Conns,
         ClientSend(c) \/ ClientFin(c) \/ ClientReset(c) \/ ClientRead(c)
  PROVE  IInv'
<1>1. sock[c] \in SockType /\ Room \in 0 .. Room
  BY InlineAssumption DEF IInv, TypeOK
<1>2. CASE ClientSend(c)
  <2>1. [sock[c] EXCEPT !.sent = @ + 1, !.rx = @ + 1].tx = sock[c].tx
    BY <1>1 DEF SockType
  <2>2. [sock[c] EXCEPT !.sent = @ + 1, !.rx = @ + 1] \in SockType
    <3>1. sock[c].sent + 1 \in Nat /\ sock[c].rx + 1 \in Nat
      BY <1>1 DEF SockType
    <3> QED
      BY <1>1, <3>1 DEF SockType
  <2> QED
    BY <1>2, <2>1, <2>2, ClientKeeps DEF ClientSend
<1>3. CASE ClientFin(c)
  <2>1. /\ [sock[c] EXCEPT !.peer = "fin"] \in SockType
        /\ [sock[c] EXCEPT !.peer = "fin"].tx = sock[c].tx
    BY <1>1 DEF SockType
  <2> QED
    BY <1>3, <2>1, ClientKeeps DEF ClientFin
<1>4. CASE ClientReset(c)
  <2>1. /\ [sock[c] EXCEPT !.peer = "rst"] \in SockType
        /\ [sock[c] EXCEPT !.peer = "rst"].tx = sock[c].tx
    BY <1>1 DEF SockType
  <2> QED
    BY <1>4, <2>1, ClientKeeps DEF ClientReset
<1>5. CASE ClientRead(c)
  <2>1. /\ [sock[c] EXCEPT !.room = Room] \in SockType
        /\ [sock[c] EXCEPT !.room = Room].tx = sock[c].tx
    BY <1>1 DEF SockType
  <2> QED
    BY <1>5, <2>1, ClientKeeps DEF ClientRead
<1> QED
  BY <1>2, <1>3, <1>4, <1>5

-----------------------------------------------------------------------------
(* Connections that stay *)

\* The events of a batch are still what epoll_wait found, and a connection whose module is
\* content and whose client is there has no reason to end.
Content(c) ==
  /\ "IN" \in batch[c] => sock[c].rx > 0 \/ sock[c].peer # "up"
  /\ batch[c] # {} => "IN" \in batch[c] \/ "OUT" \in batch[c] \/ sock[c].peer # "up"
  /\ /\ Outcomes[c] \subseteq {"reply", "silent"} /\ sock[c].peer = "up"
     /\ conn[c].life # "freed"
     => Calm(Handler(c))

LEMMA HandleContent ==
  ASSUME IInv, NEW c \in Conns, Content(c), Handle(c)
  PROVE  /\ Content(c)'
         /\ Outcomes[c] \subseteq {"reply", "silent"} /\ ~ BufferFull(Handler(c))
              /\ Live(c) /\ conn'[c].life = "freed"
            => sock[c].peer # "up"
<1>1. PICK outcome \in Outcomes[c] :
        /\ conn'[c] = Handled(Handler(c), batch[c], outcome).c
        /\ sock'[c] = Handled(Handler(c), batch[c], outcome).s
        /\ batch'[c] = {}
  BY DEF Handle, IInv, TypeOK
<1>2. Handler(c) \in Hands /\ Sound(Handler(c)) /\ Handler(c).c.life = "live" /\ batch[c] # {}
  BY HandsAreTyped DEF IInv, Handle, Live, Handler
<1>3. /\ sock'[c].peer = sock[c].peer
      /\ Calm(Handler(c)) /\ sock[c].peer = "up" /\ outcome \in {"reply", "silent"} =>
           \/ ~ conn'[c].netErr /\ ~ conn'[c].closing /\ conn'[c].life = "live"
           \/ /\ conn'[c].life = "freed"
              /\ \/ BufferFull(Handler(c))
                 \/ "IN" \in batch[c] /\ sock[c].rx = 0
                 \/ "IN" \notin batch[c] /\ "OUT" \notin batch[c]
  <2>1. Handler(c).s = sock[c]
    BY DEF Handler
  <2> QED
    BY <1>1, <1>2, <2>1, HandledSound DEF Stays, Calm
<1>4. Calm(Handler(c))' <=> ~ conn'[c].netErr /\ ~ conn'[c].closing
  BY DEF Calm, Handler
<1>5. Outcomes[c] \subseteq {"reply", "silent"} /\ sock[c].peer = "up" =>
        Calm(Handler(c)) /\ outcome \in {"reply", "silent"}
  BY <1>1, <1>2 DEF Content, Handler
<1>6. sock[c].rx \in Nat
  BY DEF IInv, TypeOK, SockType
<1> QED
  BY <1>1, <1>2, <1>3, <1>4, <1>5, <1>6 DEF Content

LEMMA PollContent ==
  ASSUME IInv, NEW c \in Conns, Content(c), Poll
  PROVE  Content(c)'
<1>1. /\ sock' = sock /\ conn' = conn
      /\ batch'[c] = IF epoll[c].ready THEN Events(sock[c], epoll[c].mask) ELSE {}
  BY DEF Poll
<1>2. epoll[c].mask \in SUBSET {"IN", "OUT"}
  BY DEF IInv, TypeOK, EpollType
<1>3. "IN" \in batch'[c] => sock[c].rx > 0 \/ sock[c].peer # "up"
  BY <1>1 DEF Events
<1>4. batch'[c] # {} => "IN" \in batch'[c] \/ "OUT" \in batch'[c] \/ sock[c].peer # "up"
  BY <1>1, <1>2 DEF Events
<1>5. Calm(Handler(c))' <=> Calm(Handler(c))
  BY <1>1 DEF Calm, Handler
<1> QED
  BY <1>1, <1>3, <1>4, <1>5 DEF Content

\* Another connection's step, or the client's own.
LEMMA ElseContent ==
  ASSUME NEW c \in Conns, Content(c),
         batch'[c] = batch[c], conn'[c] = conn[c],
         sock[c].peer # "up" => sock'[c].peer # "up",
         sock[c].rx > 0 => sock'[c].rx > 0
  PROVE  Content(c)'
<1>1. Calm(Handler(c))' <=> Calm(Handler(c))
  BY DEF Calm, Handler
<1> QED
  BY <1>1 DEF Content

LEMMA ClientContent ==
  ASSUME IInv, NEW c \in Conns, NEW o \in Conns, Content(o),
         ClientSend(c) \/ ClientFin(c) \/ ClientReset(c) \/ ClientRead(c)
  PROVE  Content(o)'
<1>1. sock[c] \in SockType /\ sock[c].rx \in Nat
  BY DEF IInv, TypeOK, SockType
<1>2. batch' = batch /\ conn' = conn /\ (o # c => sock'[o] = sock[o])
  BY DEF IInv, TypeOK, ClientSend, ClientFin, ClientReset, ClientRead, Client
<1>3. /\ sock[c].peer # "up" => sock'[c].peer # "up"
      /\ sock[c].rx > 0 => sock'[c].rx > 0
  <2>1. CASE ClientSend(c)
    <3>1. sock[c].peer = "up" /\ sock'[c].rx = sock[c].rx + 1
      BY <1>1, <2>1 DEF IInv, TypeOK, SockType, ClientSend, Client
    <3> QED
      BY <1>1, <3>1
  <2>2. CASE ClientFin(c)
    BY <1>1, <2>2 DEF IInv, TypeOK, SockType, ClientFin, Client
  <2>3. CASE ClientReset(c)
    BY <1>1, <2>3 DEF IInv, TypeOK, SockType, ClientReset, Client
  <2>4. CASE ClientRead(c)
    BY <1>1, <2>4 DEF IInv, TypeOK, SockType, ClientRead, Client
  <2> QED
    BY <2>1, <2>2, <2>3, <2>4
<1> QED
  BY <1>2, <1>3, ElseContent

LEMMA StepContent ==
  ASSUME IInv, [Next]_vars, NEW o \in Conns, Content(o)
  PROVE  /\ Content(o)'
         /\ Outcomes[o] \subseteq {"reply", "silent"} /\ ~ BufferFull(Handler(o))
              /\ Live(o) /\ conn'[o].life = "freed"
            => sock[o].peer # "up"
<1> DEFINE Goal == /\ Content(o)'
                   /\ Outcomes[o] \subseteq {"reply", "silent"} /\ ~ BufferFull(Handler(o))
                        /\ Live(o) /\ conn'[o].life = "freed"
                      => sock[o].peer # "up"
<1>1. CASE UNCHANGED vars
  BY <1>1, ElseContent DEF vars, Live
<1>2. CASE Poll
  BY <1>2, PollContent DEF Poll, Live
<1>3. ASSUME NEW c \in Conns, Accept(c) \/ Reject(c)
      PROVE  Goal
  <2>1. CASE o # c
    <3>1. batch' = batch /\ sock' = sock /\ conn'[o] = conn[o]
      BY <1>3, <2>1 DEF IInv, TypeOK, Accept, AddConn, Reject
    <3> QED
      BY <3>1, ElseContent DEF Live
  <2>2. CASE o = c
    <3>1. batch' = batch /\ sock' = sock /\ ~ Live(o)
      BY <1>3, <2>2 DEF Accept, Reject, Live
    <3>2. /\ conn'[o].netErr = conn[o].netErr /\ conn'[o].closing = conn[o].closing
          /\ conn[o].life = "none"
      BY <1>3, <2>2 DEF IInv, TypeOK, ConnType, Accept, AddConn, Reject
    <3> QED
      BY <3>1, <3>2 DEF Content, Calm, Handler
  <2> QED
    BY <2>1, <2>2
<1>4. ASSUME NEW c \in Conns, Handle(c)
      PROVE  Goal
  <2>1. CASE o # c
    <3>1. batch'[o] = batch[o] /\ sock'[o] = sock[o] /\ conn'[o] = conn[o]
      BY <1>4, <2>1 DEF IInv, TypeOK, Handle
    <3> QED
      BY <3>1, ElseContent DEF Live
  <2> QED
    BY <1>4, <2>1, HandleContent
<1>5. ASSUME NEW c \in Conns,
             ClientSend(c) \/ ClientFin(c) \/ ClientReset(c) \/ ClientRead(c)
      PROVE  Goal
  <2>1. conn' = conn
    BY <1>5 DEF ClientSend, ClientFin, ClientReset, ClientRead, Client
  <2> QED
    BY <1>5, <2>1, ClientContent DEF Live
<1> QED
  BY <1>1, <1>2, <1>3, <1>4, <1>5 DEF Next

-----------------------------------------------------------------------------
(* The theorems *)

LEMMA StepHolds == IInv /\ [Next]_vars => IInv'
<1> SUFFICES ASSUME IInv, [Next]_vars
             PROVE  IInv'
  OBVIOUS
<1>1. CASE UNCHANGED vars
  <2>1. TypeOK'
    BY <1>1 DEF vars, IInv, TypeOK
  <2>2. \A c \in Conns : Sound(Handler(c))' /\ (batch'[c] # {} => Live(c)')
    BY <1>1, Untouched DEF vars, IInv, Live
  <2> QED
    BY <2>1, <2>2 DEF IInv
<1> QED
  BY <1>1, PollKeeps, AcceptKeeps, RejectKeeps, HandleKeeps, ClientsKeep DEF Next

LEMMA Invariance == Spec => []IInv
<1>1. Init => IInv
  BY InitHolds
<1>2. IInv /\ [Next]_vars => IInv'
  BY StepHolds
<1> QED
  BY <1>1, <1>2, PTL DEF Spec

\* The flags, lists and sockets of every connection stay in their sets, whatever the
\* modules answer.
THEOREM InlineTypes == Spec => []TypeOK
<1>1. IInv => TypeOK
  BY DEF IInv
<1> QED
  BY <1>1, Invariance, PTL

\* For any connections and answers: no event is ever handled for a connection that was
\* freed (tcp_io.h:349-365).
THEOREM NoEventAfterFree == Spec => []NoStaleEvent
<1>1. IInv => NoStaleEvent
  BY DEF IInv, NoStaleEvent, Sound, Armed, Handler, Live
<1> QED
  BY <1>1, Invariance, PTL

\* For any lengths of requests and replies and any size of the socket's buffer: what the
\* client gets are the replies from the first on, none overtaken and none torn
\* (gr_worker.c:316-385, gr_poll_linux.c:420-537).
THEOREM RepliesAlwaysInOrder == Spec => []RepliesInOrder
<1>1. IInv => RepliesInOrder
  <2> SUFFICES ASSUME IInv, NEW c \in Conns
               PROVE  /\ \A i \in 1..Len(sock[c].tx) : sock[c].tx[i] = i
                      /\ conn[c].pend # <<>> => Head(conn[c].pend) = Len(sock[c].tx) + 1
                      /\ Live(c) /\ ~ conn[c].netErr /\ ~ conn[c].closing =>
                           Len(sock[c].tx) + Len(conn[c].pend) = replies[c] * ReplyLen
    BY DEF RepliesInOrder
  <2>1. /\ From(sock[c].tx, 1) /\ From(conn[c].pend, Len(sock[c].tx) + 1)
        /\ Live(c) /\ ~ conn[c].netErr /\ ~ conn[c].closing =>
             Len(sock[c].tx) + Len(conn[c].pend) = replies[c] * ReplyLen
    BY DEF IInv, Sound, Ordered, Complete, Handler, Live
  <2>2. /\ conn[c].pend \in Seq(Nat) /\ sock[c].tx \in Seq(Nat)
    BY DEF IInv, TypeOK, ConnType, SockType
  <2>3. Len(sock[c].tx) \in Nat /\ Len(conn[c].pend) \in Nat
    BY <2>2, LenProperties
  <2>4. \A i \in 1..Len(sock[c].tx) : sock[c].tx[i] = i
    BY <2>1, <2>3 DEF From
  <2>5. ASSUME conn[c].pend # <<>>
        PROVE  Head(conn[c].pend) = Len(sock[c].tx) + 1
    <3>1. Head(conn[c].pend) = conn[c].pend[1] /\ 1 \in 1 .. Len(conn[c].pend)
      BY <2>2, <2>3, <2>5, EmptySeq
    <3> QED
      BY <2>1, <2>3, <3>1 DEF From
  <2> QED
    BY <2>1, <2>4, <2>5
<1> QED
  BY <1>1, Invariance, PTL

\* A reply that waits belongs to a live connection the epoll reports as soon as there is
\* room in its socket (gr_poll_linux.c:530-534).
THEOREM PendingAlwaysArmed == Spec => []PendingIsArmed
<1>1. IInv => PendingIsArmed
  BY DEF IInv, PendingIsArmed, Sound, Armed, Handler, Live
<1> QED
  BY <1>1, Invariance, PTL

\* A connection whose module never asks to disconnect ends only because of its client, or
\* because a request does not fit the buffer: whatever the other connections of its thread
\* and their modules do (tcp_io.h:349-365).
THEOREM HealthyAlwaysStays == Spec => HealthyStaysOpen
<1> DEFINE Inv == IInv /\ \A c \in Conns : Content(c)
<1>1. Init => Inv
  <2>1. ASSUME Init, NEW c \in Conns
        PROVE  Content(c)
    <3>1. conn[c].netErr = FALSE /\ conn[c].closing = FALSE /\ batch[c] = {}
      BY <2>1 DEF Init
    <3> QED
      BY <3>1 DEF Content, Calm, Handler
  <2> QED
    BY <2>1, InitHolds
<1>2. Inv /\ [Next]_vars => Inv'
  BY StepHolds, StepContent
<1>3. Inv /\ [Next]_vars =>
        [\A c \in Conns :
           /\ Outcomes[c] \subseteq {"reply", "silent"} /\ ~ BufferFull(Handler(c))
           /\ Live(c) /\ conn'[c].life = "freed"
           => sock[c].peer # "up"]_vars
  BY StepContent
<1> QED
  BY <1>1, <1>2, <1>3, PTL DEF Spec, HealthyStaysOpen
=============================================================================
