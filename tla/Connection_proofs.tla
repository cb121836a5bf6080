-------------------------- MODULE Connection_proofs --------------------------
(***************************************************************************)
(* What is proved of one connection.                                       *)
(*                                                                         *)
(* Its replies (HttpReply, HttpServer): for every length of bodies and     *)
(* headers and every order of calls the state of the reply keeps its type, *)
(* the reply stays inside its buffer (ReplyFits), and a body given to      *)
(* http_send is never refused for lack of room.                            *)
(*                                                                         *)
(* Its requests (HttpParser, HttpServer): for every stream of requests, of *)
(* any length, and however the network cuts it, each is taken from where   *)
(* it begins to where it ends and means to the module what it means alone  *)
(* (AsMeant), and none is lost by a client that waits for the end of one   *)
(* before it sends the next (TakenUnlessTogether).  Two facts about the    *)
(* parser carry this: a packet that is complete stays the packet it is     *)
(* when more arrives (FullIsFinal), and http_proc reads nothing behind one *)
(* without a form (ParsedLonger).  The invariant, ConnInv, says that what  *)
(* was received and what has not arrived are together the requests behind  *)
(* those taken so far.  What one request alone means is their premise.     *)
(*                                                                         *)
(* One request: of any text it is proved where http_check ends it          *)
(* (PacketIsByLines), that http_proc ends its headers there too            *)
(* (HeadersEndAtBody), that it takes headers, a query and a form apart at  *)
(* every separator (PiecesAreAll) and finds the names and values in them   *)
(* that were written (ParamsAsWritten), and that decoding reads whatever   *)
(* an encoder writes (DecodedIs) and never needs more room (DecodedFits).  *)
(* Of every GET request all of that together gives the premise             *)
(* (GetIsUnderstood, GetsAreUnderstood).                                   *)
(*                                                                         *)
(* Its end (ThreadedClose): for every number of requests, and with or      *)
(* without stores to the flags that are a load and a store, the connection *)
(* is deleted once, when the other threads have done with it, and nothing  *)
(* of it is written afterwards.  This is not inductive: it follows from    *)
(* what the counts (Counts) and the flags (FlagsTell) say of where the     *)
(* three threads are.                                                      *)
(***************************************************************************)
EXTENDS ThreadedClose, HttpServer, FiniteSetTheorems, SequenceTheorems,
        WellFoundedInduction, TLAPS

\* A reply that is inside its buffer unless a header was too long.
Fits(r) == r.long \/ r.len <= r.max

\* Rounding up to rsp_buf_align never makes a length smaller.
LEMMA AlignUpGrows ==
  ASSUME NEW n \in Nat
  PROVE  AlignUp(n) \in Nat /\ AlignUp(n) >= n
<1> DEFINE m == n + Align - 1
           q == m \div Align
<1>1. Align \in Nat /\ Align > 0 /\ m \in Nat  BY HttpReplyAssumption
<1>2. q \in Nat /\ m < (q + 1) * Align  BY <1>1, SMT
<1>3. (q + 1) * Align = q * Align + Align  BY <1>1, <1>2, SMT
<1>4. q * Align \in Nat  BY <1>1, <1>2, SMT
<1> QED  BY <1>1, <1>2, <1>3, <1>4 DEF AlignUp

\* server_class_set_max_response with the header's share on top: when it
\* succeeds the buffer holds both and is empty, when it fails nothing changed.
LEMMA HttpSetMaxResult ==
  ASSUME NEW r \in Rsp, NEW bytes \in Nat, NEW room \in BOOLEAN
  PROVE  LET u == HttpSetMax(r, bytes, room)
         IN  /\ u \in Rsp
             /\ u.long = r.long
             /\ u.ok => u.max >= Reserve + bytes /\ u.len = 0
             /\ ~ u.ok => u.len = r.len /\ u.max = r.max
             /\ room => u.ok
<1> DEFINE need == Reserve + bytes
<1>1. need \in Nat  BY HttpReplyAssumption
<1>2. AlignUp(need) \in Nat /\ AlignUp(need) >= need  BY <1>1, AlignUpGrows
<1>3. r.max \in Nat /\ r.len \in Nat  BY DEF Rsp
<1> HIDE DEF need
<1>4. CASE r.max >= need
  BY <1>1, <1>3, <1>4 DEF HttpSetMax, SetMax, Rsp, need
<1>5. CASE ~ (r.max >= need) /\ room
  BY <1>1, <1>2, <1>3, <1>5 DEF HttpSetMax, SetMax, Rsp, need
<1>6. CASE ~ (r.max >= need) /\ ~ room
  BY <1>1, <1>3, <1>6 DEF HttpSetMax, SetMax, Rsp, need
<1> QED  BY <1>4, <1>5, <1>6

\* http_send_header: what it wrote ends inside what was reserved, or it was long.
LEMMA HttpSendHeaderResult ==
  ASSUME NEW r \in Rsp, Fits(r), NEW bytes \in Nat, NEW text \in Nat,
         NEW said \in {"keep", "close"}, NEW room \in BOOLEAN
  PROVE  LET u == HttpSendHeader(r, bytes, text, said, room)
         IN  /\ u \in Rsp
             /\ Fits(u)
             /\ u.ok => u.max >= Reserve + bytes /\ u.len = text
             /\ room => u.ok
<1> DEFINE v == HttpSetMax(r, bytes, room)
           u == HttpSendHeader(r, bytes, text, said, room)
<1>1. /\ v \in Rsp /\ v.long = r.long
      /\ v.ok => v.max >= Reserve + bytes /\ v.len = 0
      /\ ~ v.ok => v.len = r.len /\ v.max = r.max
      /\ room => v.ok
  BY HttpSetMaxResult
<1>2. u = IF v.ok
          THEN [v EXCEPT !.len = text, !.said = said, !.long = @ \/ text >= Reserve]
          ELSE [v EXCEPT !.error = TRUE]
  BY DEF HttpSendHeader
<1>3. Reserve \in Nat  BY HttpReplyAssumption
<1> HIDE DEF u, v
<1>4. CASE v.ok
  <2>1. u = [v EXCEPT !.len = text, !.said = said, !.long = v.long \/ text >= Reserve]
    BY <1>2, <1>4
  <2>2. (v.long \/ text >= Reserve) \in BOOLEAN  OBVIOUS
  <2>3. u \in Rsp  BY <1>1, <2>1, <2>2 DEF Rsp
  <2>4. /\ u.len = text /\ u.max = v.max /\ u.ok = v.ok
        /\ u.long = (v.long \/ text >= Reserve)
    BY <1>1, <2>1 DEF Rsp
  <2>5. v.max \in Nat  BY <1>1 DEF Rsp
  <2>6. CASE text >= Reserve  BY <1>1, <1>4, <2>3, <2>4, <2>6 DEF Fits, u
  <2>7. CASE ~ (text >= Reserve)
    <3>1. text <= v.max  BY <1>1, <1>3, <1>4, <2>5, <2>7
    <3> QED  BY <1>1, <1>4, <2>3, <2>4, <3>1 DEF Fits, u
  <2> QED  BY <2>6, <2>7
<1>5. CASE ~ v.ok
  <2>1. u = [v EXCEPT !.error = TRUE]  BY <1>2, <1>5
  <2>2. u \in Rsp  BY <1>1, <2>1 DEF Rsp
  <2>3. u.len = r.len /\ u.max = r.max /\ u.long = r.long /\ u.ok = v.ok
    BY <1>1, <1>5, <2>1 DEF Rsp
  <2> QED  BY <1>1, <1>5, <2>2, <2>3 DEF Fits, u
<1> QED  BY <1>4, <1>5

\* http_append stays inside the buffer: what is left is unsigned, and it is
\* only once a header has outgrown the buffer that it wraps.
LEMMA HttpAppendResult ==
  ASSUME NEW r \in Rsp, Fits(r), NEW bytes \in Nat
  PROVE  LET u == HttpAppend(r, bytes)
         IN  /\ u \in Rsp
             /\ Fits(u)
             /\ r.len + bytes <= r.max => u.ok
<1>1. r.len \in Nat /\ r.max \in Nat  BY DEF Rsp
<1>2. CASE r.len <= r.max /\ bytes > r.max - r.len
  <2>1. ~ (r.len + bytes <= r.max)  BY <1>1, <1>2
  <2>2. HttpAppend(r, bytes) = [r EXCEPT !.error = TRUE, !.ok = FALSE]
    BY <1>2 DEF HttpAppend
  <2> QED  BY <2>1, <2>2 DEF Rsp, Fits
<1>3. CASE ~ (r.len <= r.max /\ bytes > r.max - r.len)
  <2>1. HttpAppend(r, bytes) = [r EXCEPT !.len = r.len + bytes, !.ok = TRUE]
    BY <1>3 DEF HttpAppend
  <2>2. r.long \/ r.len + bytes <= r.max  BY <1>1, <1>3 DEF Fits
  <2>3. r.len + bytes \in Nat  BY <1>1
  <2> QED  BY <2>1, <2>2, <2>3 DEF Rsp, Fits
<1> QED  BY <1>2, <1>3

\* http_send answers any body: with memory for the buffer and a header
\* shorter than what is reserved for it, the body is never refused for room
\* (server_object.c:223 reserves for the header, 368-377 refuses).
THEOREM SendIsNeverRefused ==
  ASSUME NEW r \in Rsp, Fits(r), NEW bytes \in Nat, NEW text \in Nat,
         text < Reserve, NEW isHead \in BOOLEAN
  PROVE  LET u == HttpSend(r, bytes, text, isHead, TRUE)
         IN  u \in Rsp /\ Fits(u) /\ u.ok
<1> DEFINE said == IF r.keep THEN "keep" ELSE "close"
           v == HttpSendHeader(r, bytes, text, said, TRUE)
<1>1. said \in {"keep", "close"}  OBVIOUS
<1> HIDE DEF said
<1>2. v \in Rsp /\ Fits(v) /\ v.ok /\ v.max >= Reserve + bytes /\ v.len = text
  BY <1>1, HttpSendHeaderResult
<1>3. HttpSend(r, bytes, text, isHead, TRUE)
        = IF v.ok /\ ~ isHead THEN HttpAppend(v, bytes) ELSE v
  BY DEF HttpSend, said
<1> HIDE DEF v
<1>4. v.max \in Nat  BY <1>2 DEF Rsp
<1>5. v.len + bytes <= v.max  BY <1>2, <1>4, HttpReplyAssumption
<1>6. HttpAppend(v, bytes) \in Rsp /\ Fits(HttpAppend(v, bytes)) /\ HttpAppend(v, bytes).ok
  BY <1>2, <1>5, HttpAppendResult
<1> QED  BY <1>2, <1>3, <1>6

-----------------------------------------------------------------------------

IReply == ReplyTypeOK /\ ReplyFits

\* What a call of the module leaves is again a reply that fits.
LEMMA CallKeeps ==
  ASSUME IReply, NEW r, r \in Rsp, Fits(r), Call(r)
  PROVE  IReply'
<1>1. calls' \in -1 .. MaxCalls
  BY HttpReplyAssumption DEF Call, IReply, ReplyTypeOK
<1>2. rsp' = r  BY DEF Call
<1> QED  BY <1>1, <1>2 DEF IReply, ReplyTypeOK, ReplyFits, Fits

LEMMA ReplyStep ==
  ASSUME IReply, [ReplyNext]_replyVars
  PROVE  IReply'
<1>0. rsp \in Rsp /\ calls \in -1 .. MaxCalls /\ Fits(rsp)
  BY DEF IReply, ReplyTypeOK, ReplyFits, Fits
<1>1. CASE Begin
  <2>1. rsp'.len = 0 /\ rsp'.max = rsp.max /\ rsp' \in Rsp
    BY <1>0, <1>1 DEF Begin, Rsp
  <2>2. calls' \in -1 .. MaxCalls  BY <1>1, HttpReplyAssumption DEF Begin
  <2>3. rsp.max \in Nat  BY <1>0 DEF Rsp
  <2> QED  BY <2>1, <2>2, <2>3 DEF IReply, ReplyTypeOK, ReplyFits
<1>2. ASSUME NEW isHead \in BOOLEAN, ModuleCalls(isHead)
      PROVE  IReply'
  <2> DEFINE said == IF rsp.keep THEN "keep" ELSE "close"
  <2>0. said \in {"keep", "close"}  OBVIOUS
  <2> HIDE DEF said
  <2>1. CASE CallSetMax
    <3>1. PICK n \in Bodies, room \in BOOLEAN : Call(HttpSetMax(rsp, n, room))
      BY <2>1 DEF CallSetMax
    <3> DEFINE u == HttpSetMax(rsp, n, room)
    <3>2. n \in Nat  BY HttpReplyAssumption
    <3>3. /\ u \in Rsp /\ u.long = rsp.long
          /\ u.ok => u.len = 0
          /\ ~ u.ok => u.len = rsp.len /\ u.max = rsp.max
      BY <1>0, <3>2, HttpSetMaxResult
    <3> HIDE DEF u
    <3>4. u.max \in Nat  BY <3>3 DEF Rsp
    <3>5. Fits(u)  BY <1>0, <3>3, <3>4 DEF Fits
    <3> QED  BY <3>1, <3>3, <3>5, CallKeeps DEF u
  <2>2. CASE CallSendHeader
    <3>1. PICK n \in Bodies, t \in Texts, room \in BOOLEAN :
            Call(HttpSendHeader(rsp, n, t, said, room))
      BY <2>2 DEF CallSendHeader, said
    <3>2. n \in Nat /\ t \in Nat  BY HttpReplyAssumption
    <3>3. LET u == HttpSendHeader(rsp, n, t, said, room) IN u \in Rsp /\ Fits(u)
      BY <1>0, <2>0, <3>2, HttpSendHeaderResult
    <3> QED  BY <3>1, <3>3, CallKeeps
  <2>3. CASE CallSendHeader2
    <3>1. PICK n \in Bodies, t \in Texts, c \in {"keep", "close"}, room \in BOOLEAN :
            Call(HttpSendHeader(rsp, n, t, c, room))
      BY <2>3 DEF CallSendHeader2
    <3>2. n \in Nat /\ t \in Nat  BY HttpReplyAssumption
    <3>3. LET u == HttpSendHeader(rsp, n, t, c, room) IN u \in Rsp /\ Fits(u)
      BY <1>0, <3>2, HttpSendHeaderResult
    <3> QED  BY <3>1, <3>3, CallKeeps
  <2>4. CASE CallAppend
    <3>1. PICK n \in Bodies : Call(HttpAppend(rsp, n))  BY <2>4 DEF CallAppend
    <3>2. n \in Nat  BY HttpReplyAssumption
    <3>3. LET u == HttpAppend(rsp, n) IN u \in Rsp /\ Fits(u)
      BY <1>0, <3>2, HttpAppendResult
    <3> QED  BY <3>1, <3>3, CallKeeps
  <2>5. CASE CallSend(isHead)
    <3>1. PICK n \in Bodies, t \in Texts, room \in BOOLEAN :
            Call(HttpSend(rsp, n, t, isHead, room))
      BY <2>5 DEF CallSend
    <3>2. n \in Nat /\ t \in Nat  BY HttpReplyAssumption
    <3> DEFINE v == HttpSendHeader(rsp, n, t, said, room)
    <3>3. v \in Rsp /\ Fits(v)  BY <1>0, <2>0, <3>2, HttpSendHeaderResult
    <3>4. HttpSend(rsp, n, t, isHead, room) = HttpAppend(v, n)
          \/ HttpSend(rsp, n, t, isHead, room) = v
      BY DEF HttpSend, said
    <3> HIDE DEF v
    <3>5. HttpAppend(v, n) \in Rsp /\ Fits(HttpAppend(v, n))
      BY <3>2, <3>3, HttpAppendResult
    <3> QED  BY <3>1, <3>3, <3>4, <3>5, CallKeeps
  <2>6. CASE CallKeepAlive
    <3> DEFINE u == [rsp EXCEPT !.keep = ~ @]
    <3>1. Call(u)  BY <2>6 DEF CallKeepAlive
    <3>2. u \in Rsp /\ Fits(u)  BY <1>0 DEF Rsp, Fits
    <3> QED  BY <3>1, <3>2, CallKeeps
  <2> QED  BY <1>2, <2>1, <2>2, <2>3, <2>4, <2>5, <2>6 DEF ModuleCalls
<1>3. ASSUME NEW queued \in BOOLEAN, End(queued)
      PROVE  IReply'
  <2> DEFINE gone == queued /\ rsp.len > 0
  <2>1. rsp' = [rsp EXCEPT !.len = 0, !.max = IF gone THEN 0 ELSE rsp.max]
    BY <1>3 DEF End
  <2>2. calls' \in -1 .. MaxCalls  BY <1>3, HttpReplyAssumption DEF End
  <2> HIDE DEF gone
  <2>3. rsp.max \in Nat /\ (IF gone THEN 0 ELSE rsp.max) \in Nat  BY <1>0 DEF Rsp
  <2>4. rsp' \in Rsp /\ rsp'.len = 0 /\ rsp'.max \in Nat  BY <1>0, <2>1, <2>3 DEF Rsp
  <2> QED  BY <2>2, <2>4 DEF IReply, ReplyTypeOK, ReplyFits
<1>4. CASE UNCHANGED replyVars
  BY <1>4 DEF replyVars, IReply, ReplyTypeOK, ReplyFits
<1> QED  BY <1>1, <1>2, <1>3, <1>4 DEF ReplyNext

LEMMA ReplyInitOK == ReplyInit => IReply
<1> SUFFICES ASSUME ReplyInit PROVE IReply  OBVIOUS
<1>1. rsp \in Rsp /\ rsp.len = 0 /\ rsp.max = 0  BY DEF ReplyInit, Rsp
<1>2. calls \in -1 .. MaxCalls  BY HttpReplyAssumption DEF ReplyInit
<1> QED  BY <1>1, <1>2 DEF IReply, ReplyTypeOK, ReplyFits

\* The state of the reply keeps its type: no call makes a length negative.
THEOREM ReplyTypes == ReplySpec => []ReplyTypeOK
<1>1. IReply /\ [ReplyNext]_replyVars => IReply'  BY ReplyStep
<1>2. IReply => ReplyTypeOK  BY DEF IReply
<1> QED  BY <1>1, <1>2, ReplyInitOK, PTL DEF ReplySpec

\* Whatever a module calls for however many requests, the reply ends inside
\* its buffer unless a header outgrew the 300 bytes kept for it.
THEOREM ReplyAlwaysFits == ReplySpec => []ReplyFits
<1>1. IReply /\ [ReplyNext]_replyVars => IReply'  BY ReplyStep
<1>2. IReply => ReplyFits  BY DEF IReply
<1> QED  BY <1>1, <1>2, ReplyInitOK, PTL DEF ReplySpec

-----------------------------------------------------------------------------
(* The same of a whole connection: what arrives and what HttpServer's own  *)
(* page answers are calls like the module's.                               *)

LEMMA HelloKeeps ==
  ASSUME IReply, Hello
  PROVE  IReply'
<1>1. PICK text \in Texts, room \in BOOLEAN :
        Call(HttpSend([rsp EXCEPT !.keep = TRUE], 6, text, IsHead, room))
  BY DEF Hello
<1> DEFINE r == [rsp EXCEPT !.keep = TRUE]
           v == HttpSendHeader(r, 6, text, IF r.keep THEN "keep" ELSE "close", room)
<1>2. r \in Rsp /\ Fits(r)
  BY DEF IReply, ReplyTypeOK, ReplyFits, Fits, Rsp
<1>3. text \in Nat
  BY HttpReplyAssumption
<1>4. HttpSend(r, 6, text, IsHead, room) \in {v, HttpAppend(v, 6)}
  BY DEF HttpSend
<1> HIDE DEF r
<1>5. v \in Rsp /\ Fits(v)
  BY <1>2, <1>3, HttpSendHeaderResult
<1> HIDE DEF v
<1>6. HttpAppend(v, 6) \in Rsp /\ Fits(HttpAppend(v, 6))
  BY <1>5, HttpAppendResult
<1>7. Call(HttpSend(r, 6, text, IsHead, room))
  BY <1>1 DEF r
<1> QED
  BY <1>4, <1>5, <1>6, <1>7, CallKeeps

LEMMA HttpStep == IReply /\ [HttpNext]_httpVars => IReply'
<1> SUFFICES ASSUME IReply, [HttpNext]_httpVars PROVE IReply'
  OBVIOUS
<1>1. ASSUME NEW n, Receive(n) PROVE IReply'
  <2>1. Begin \/ UNCHANGED replyVars
    BY <1>1, Zenon DEF Receive
  <2> QED
    BY <2>1, ReplyStep DEF ReplyNext
<1>2. CASE Hello
  BY <1>2, HelloKeeps
<1>3. CASE Module
  <2>1. IsHead \in BOOLEAN
    BY DEF IsHead
  <2>2. ModuleCalls(IsHead)
    BY <1>3 DEF Module
  <2> QED
    BY <2>1, <2>2, ReplyStep DEF ReplyNext
<1>4. CASE Finish
  <2>1. \E queued \in BOOLEAN : End(queued)
    BY <1>4 DEF Finish
  <2> QED
    BY <2>1, ReplyStep DEF ReplyNext
<1>5. CASE UNCHANGED httpVars
  <2>1. UNCHANGED replyVars
    BY <1>5 DEF httpVars
  <2> QED
    BY <2>1, ReplyStep
<1> QED
  BY <1>1, <1>2, <1>3, <1>4, <1>5 DEF HttpNext

\* On a connection too the reply ends inside its buffer, however the network cuts what the
\* client sends and whatever of it is malformed (gr_http.c:606, server_object.c:380).
THEOREM HttpReplyAlwaysFits == HttpSpec => []ReplyFits
<1>1. HttpInit => IReply
  BY ReplyInitOK DEF HttpInit
<1>2. IReply => ReplyFits
  BY DEF IReply
<1> QED
  BY <1>1, <1>2, HttpStep, PTL DEF HttpSpec

-----------------------------------------------------------------------------
(* What http_check and http_proc find in a text, and in one that goes on   *)
(* behind it.                                                              *)

Below == OpToRel(<, Nat)

\* Some element of a set of numbers is not above any other.
LEMMA Smallest ==
  ASSUME NEW T, T \subseteq Nat, T # {}
  PROVE  \E x \in T : \A y \in T : x <= y
<1>1. IsWellFoundedOn(Below, Nat)
  BY NatLessThanWellFounded DEF Below
<1>2. \A x, y \in Nat : x < y => <<x, y>> \in Below
  BY DEF OpToRel, Below
<1>3. PICK x \in T : \A y \in T : ~ (<<y, x>> \in Below)
  BY <1>1, WFMin
<1>4. ASSUME NEW y \in T PROVE x <= y
  <2>1. ~ (y < x)
    BY <1>2, <1>3
  <2> QED
    BY <2>1
<1> QED
  BY <1>4

LEMMA MinLeast ==
  ASSUME NEW T, T \subseteq Nat, T # {}
  PROVE  Min(T) \in T /\ \A x \in T : Min(T) <= x
BY Smallest DEF Min

LEMMA MinIs ==
  ASSUME NEW T, T \subseteq Nat, NEW m \in T, \A x \in T : m <= x
  PROVE  Min(T) = m
<1>1. ASSUME NEW x \in T, \A y \in T : x <= y PROVE x = m
  BY <1>1
<1> QED
  BY <1>1 DEF Min

LEMMA MaxIs ==
  ASSUME NEW T, T \subseteq Nat, NEW m \in T, \A x \in T : x <= m
  PROVE  Max(T) = m
<1>1. \A x \in T : m >= x
  OBVIOUS
<1>2. ASSUME NEW x \in T, \A y \in T : x >= y PROVE x = m
  BY <1>2
<1> QED
  BY <1>1, <1>2 DEF Max

\* Induction, for a set that counting from 0 to n does not leave.
LEMMA Induction ==
  ASSUME NEW n \in Nat, NEW T, 0 \in T, \A k \in 1 .. n : k - 1 \in T => k \in T
  PROVE  n \in T
<1> SUFFICES ASSUME n \notin T PROVE FALSE
  OBVIOUS
<1> DEFINE U == (0 .. n) \ T
<1>1. U \subseteq Nat /\ U # {}
  OBVIOUS
<1>2. PICK x \in U : \A y \in U : x <= y
  <2> HIDE DEF U
  <2> QED
    BY <1>1, Smallest
<1>3. x \in 1 .. n /\ x - 1 \in 0 .. n /\ ~(x <= x - 1)
  OBVIOUS
<1>4. x - 1 \in T
  BY <1>2, <1>3
<1> QED
  BY <1>3, <1>4

Units == Seq(STRING)

\* strchr finds the first place, and only there.
LEMMA FindFirst ==
  ASSUME NEW U, NEW s \in Seq(U), NEW u
  PROVE  /\ Find(s, u) \in 0 .. Len(s)
         /\ Find(s, u) = 0 => \A i \in 1 .. Len(s) : s[i] # u
         /\ Find(s, u) # 0 => /\ s[Find(s, u)] = u
                              /\ \A i \in 1 .. Find(s, u) - 1 : s[i] # u
<1> DEFINE I == {i \in 1 .. Len(s) : s[i] = u}
<1>1. Find(s, u) = IF I # {} THEN Min(I) ELSE 0
  BY DEF Find, SelectInSeq
<1>2. Len(s) \in Nat
  OBVIOUS
<1>3. CASE I = {}
  BY <1>1, <1>2, <1>3
<1>4. CASE I # {}
  <2>1. I \subseteq Nat
    BY <1>2
  <2>2. Min(I) \in I /\ \A x \in I : Min(I) <= x
    <3> HIDE DEF I
    <3> QED
      BY <2>1, <1>4, MinLeast
  <2>3. Find(s, u) = Min(I)
    BY <1>1, <1>4
  <2>4. Find(s, u) \in 1 .. Len(s) /\ s[Find(s, u)] = u
    BY <2>2, <2>3
  <2>5. ASSUME NEW i \in 1 .. Find(s, u) - 1 PROVE s[i] # u
    <3>1. i \in 1 .. Len(s) /\ ~ (Find(s, u) <= i)
      BY <1>2, <2>4
    <3> QED
      BY <2>2, <2>3, <3>1
  <2> QED
    BY <1>2, <2>4, <2>5
<1> QED
  BY <1>3, <1>4

LEMMA FindIs ==
  ASSUME NEW U, NEW s \in Seq(U), NEW u, NEW n \in 1 .. Len(s), s[n] = u,
         \A i \in 1 .. n - 1 : s[i] # u
  PROVE  Find(s, u) = n
<1> DEFINE I == {i \in 1 .. Len(s) : s[i] = u}
<1>1. Find(s, u) = IF I # {} THEN Min(I) ELSE 0
  BY DEF Find, SelectInSeq
<1>2. Len(s) \in Nat
  OBVIOUS
<1>3. n \in I /\ I \subseteq Nat
  BY <1>2
<1>4. ASSUME NEW x \in I PROVE n <= x
  <2>1. x \in Nat /\ n \in Nat /\ x >= 1
    BY <1>2
  <2> QED
    BY <1>4, <2>1
<1> HIDE DEF I
<1>5. Min(I) = n
  BY <1>3, <1>4, MinIs
<1> QED
  BY <1>1, <1>3, <1>5

\* t goes on where s ends.
Starts(t, s) == Len(s) <= Len(t) /\ \A i \in 1 .. Len(s) : s[i] = t[i]

\* What goes on behind a text does not move what is found in it,
LEMMA FindLonger ==
  ASSUME NEW s \in Units, NEW t \in Units, Starts(t, s), NEW u, Find(s, u) # 0
  PROVE  Find(t, u) = Find(s, u)
<1> DEFINE n == Find(s, u)
<1>1. n \in 1 .. Len(s) /\ s[n] = u /\ \A i \in 1 .. n - 1 : s[i] # u
  BY FindFirst DEF Units
<1>2. Len(s) \in Nat /\ Len(t) \in Nat
  BY DEF Units
<1> HIDE DEF n
<1>3. n \in 1 .. Len(t) /\ t[n] = u /\ \A i \in 1 .. n - 1 : t[i] # u
  BY <1>1, <1>2 DEF Starts
<1>4. Find(t, u) = n
  BY <1>3, FindIs DEF Units
<1> QED
  BY <1>4 DEF n

\* nor the parts of it.
LEMMA SubSeqLonger ==
  ASSUME NEW s \in Units, NEW t \in Units, Starts(t, s),
         NEW i \in Nat \ {0}, NEW j \in Int, j <= Len(s)
  PROVE  SubSeq(t, i, j) = SubSeq(s, i, j)
<1>1. Len(s) \in Nat /\ Len(t) \in Nat
  BY DEF Units
<1>2. \A k \in i .. j : s[k] \in STRING /\ t[k] = s[k]
  <2>1. \A k \in i .. j : k \in 1 .. Len(s)
    BY <1>1
  <2> QED
    BY <2>1, ElementOfSeq DEF Units, Starts
<1>3. /\ SubSeq(s, i, j) \in Seq(STRING)
      /\ Len(SubSeq(s, i, j)) = IF i <= j THEN j - i + 1 ELSE 0
      /\ \A k \in 1 .. j - i + 1 : SubSeq(s, i, j)[k] = s[i + k - 1]
  BY <1>2, SubSeqProperties
<1>4. /\ SubSeq(t, i, j) \in Seq(STRING)
      /\ Len(SubSeq(t, i, j)) = IF i <= j THEN j - i + 1 ELSE 0
      /\ \A k \in 1 .. j - i + 1 : SubSeq(t, i, j)[k] = t[i + k - 1]
  <2>1. \A k \in i .. j : t[k] \in STRING
    BY <1>2
  <2> QED
    BY <2>1, SubSeqProperties
<1>5. ASSUME NEW k \in 1 .. Len(SubSeq(t, i, j))
      PROVE  SubSeq(t, i, j)[k] = SubSeq(s, i, j)[k]
  <2>1. k \in 1 .. j - i + 1 /\ i + k - 1 \in i .. j
    BY <1>4
  <2> QED
    BY <1>2, <1>3, <1>4, <2>1
<1> QED
  BY <1>3, <1>4, <1>5, SeqEqual

\* A part of a text within its bounds is a text.
LEMMA Part ==
  ASSUME NEW s \in Units, NEW i \in Nat \ {0}, NEW j \in Int, j <= Len(s)
  PROVE  SubSeq(s, i, j) \in Units
<1>1. \A k \in i .. j : s[k] \in STRING
  <2>1. \A k \in i .. j : k \in 1 .. Len(s)
    BY DEF Units
  <2> QED
    BY <2>1, ElementOfSeq DEF Units
<1> QED
  BY <1>1, SubSeqProperties DEF Units

\* The words a packet may begin with
Words == RequestWords \cup {<<"H", "T", "T", "P", "/">>}

\* check_http_packet_type accepts what could begin with one of those words.
LEMMA NotAnError ==
  ASSUME NEW b \in Units
  PROVE  PacketType(b) # "error" <=> b # <<>> /\ \E w \in Words : Begins(b, w)
<1> DEFINE reply == <<"H", "T", "T", "P", "/">>
           head == <<"H", "E", "A", "D", " ">>
<1>0. Len(b) \in Nat /\ (Len(b) = 0 <=> b = <<>>)
  BY EmptySeq DEF Units
<1>1. head \in RequestWords
  BY DEF RequestWords
<1>2. ASSUME Len(b) = 1, Begins(b, reply) PROVE Begins(b, head)
  <2>1. b[1] = "H"
    <3>1. Len(reply) = 5 /\ reply[1] = "H"
      OBVIOUS
    <3> QED
      BY <1>2, <3>1 DEF Begins
  <2>2. Len(head) = 5 /\ head[1] = "H"
    OBVIOUS
  <2>3. \A i \in 1 .. Len(head) : i <= Len(b) => i = 1
    BY <1>2, <2>2
  <2> QED
    BY <2>1, <2>2, <2>3 DEF Begins
<1>3. PacketType(b) = IF Len(b) > 1 /\ Begins(b, reply) THEN "reply"
                      ELSE IF b # <<>> /\ \E w \in RequestWords : Begins(b, w) THEN "request"
                      ELSE "error"
  BY DEF PacketType
<1>4. \A w \in Words : w \in RequestWords \/ w = reply
  BY DEF Words
<1>5. reply \in Words /\ RequestWords \subseteq Words
  BY DEF Words
<1> HIDE DEF reply, head
<1>6. CASE Len(b) > 1 /\ Begins(b, reply)
  BY <1>0, <1>3, <1>5, <1>6
<1>7. CASE ~ (Len(b) > 1 /\ Begins(b, reply)) /\ b # <<>> /\ \E w \in RequestWords : Begins(b, w)
  BY <1>3, <1>5, <1>7
<1>8. CASE /\ ~ (Len(b) > 1 /\ Begins(b, reply))
           /\ ~ (b # <<>> /\ \E w \in RequestWords : Begins(b, w))
  <2>1. ASSUME b # <<>>, NEW w \in Words, Begins(b, w) PROVE FALSE
    <3>1. w = reply
      BY <1>4, <1>8, <2>1
    <3>2. ~ (Len(b) > 1) /\ Len(b) # 0
      BY <1>0, <1>8, <2>1, <3>1
    <3>3. Len(b) = 1
      BY <1>0, <3>2
    <3> QED
      BY <1>1, <1>2, <1>8, <2>1, <3>1, <3>3
  <2> QED
    BY <1>3, <1>8, <2>1
<1> QED
  BY <1>6, <1>7, <1>8

LEMMA WordsAre ==
  ASSUME NEW w \in Words
  PROVE  Len(w) \in Nat /\ \A i \in 1 .. Len(w) : w[i] # LF
<1>1. \/ w = <<"G", "E", "T", " ">> \/ w = <<"P", "O", "S", "T", " ">>
      \/ w = <<"H", "E", "A", "D", " ">> \/ w = <<"C", "O", "N", "N", "E">>
      \/ w = <<"H", "T", "T", "P", "/">>
  BY DEF Words, RequestWords
<1>0. \A u \in {" ", "A", "D", "E", "G", "H", "O", "P", "S", "T"} : u # LF
  BY DEF LF
<1>2. CASE w = <<"G", "E", "T", " ">>
  <2>1. w[1] # LF /\ w[2] # LF /\ w[3] # LF /\ w[4] # LF
    BY <1>0, <1>2
  <2>2. Len(w) = 4
    BY <1>2
  <2> QED
    BY <2>1, <2>2
<1>3. CASE w = <<"P", "O", "S", "T", " ">>
  <2>1. w[1] # LF /\ w[2] # LF /\ w[3] # LF /\ w[4] # LF /\ w[5] # LF
    BY <1>0, <1>3
  <2>2. Len(w) = 5
    BY <1>3
  <2> QED
    BY <2>1, <2>2
<1>4. CASE w = <<"H", "E", "A", "D", " ">>
  <2>1. w[1] # LF /\ w[2] # LF /\ w[3] # LF /\ w[4] # LF /\ w[5] # LF
    BY <1>0, <1>4
  <2>2. Len(w) = 5
    BY <1>4
  <2> QED
    BY <2>1, <2>2
<1>5. CASE w = <<"C", "O", "N", "N", "E">>  BY <1>5 DEF LF
<1>6. CASE w = <<"H", "T", "T", "P", "/">>  BY <1>6 DEF LF
<1> QED
  BY <1>1, <1>2, <1>3, <1>4, <1>5, <1>6

\* What could begin a packet could do so as long as less of it was there.
LEMMA NoErrorBefore ==
  ASSUME NEW b \in Units, NEW c \in Units, Starts(c, b), b # <<>>, PacketType(c) # "error"
  PROVE  PacketType(b) # "error"
<1>0. Len(b) \in Nat /\ Len(c) \in Nat
  BY DEF Units
<1>1. PICK w \in Words : Begins(c, w)
  BY NotAnError
<1>2. Len(w) \in Nat
  BY WordsAre
<1>3. Begins(b, w)
  BY <1>0, <1>1, <1>2 DEF Begins, Starts
<1> QED
  BY <1>3, NotAnError

\* Once there is a line feed more cannot make it an error.
LEMMA NoErrorAfter ==
  ASSUME NEW b \in Units, NEW c \in Units, Starts(c, b), Find(b, LF) # 0, PacketType(b) # "error"
  PROVE  PacketType(c) # "error"
<1>0. Len(b) \in Nat /\ Len(c) \in Nat /\ (Len(c) = 0 <=> c = <<>>)
  BY EmptySeq DEF Units
<1>1. PICK w \in Words : Begins(b, w)
  BY NotAnError
<1>2. Len(w) \in Nat /\ \A i \in 1 .. Len(w) : w[i] # LF
  BY WordsAre
<1>3. PICK j \in 1 .. Len(b) : b[j] = LF
  BY FindFirst DEF Units
<1>4. Len(w) < j
  <2>1. ASSUME j <= Len(w) PROVE FALSE
    <3>1. j \in 1 .. Len(w)
      BY <1>0, <1>2, <2>1
    <3>2. w[j] # LF
      BY <1>2, <3>1
    <3>3. b[j] = w[j]
      BY <1>0, <1>1, <1>3, <3>1 DEF Begins
    <3> QED
      BY <1>3, <3>2, <3>3
  <2> QED
    BY <1>0, <1>2, <2>1
<1>5. Begins(c, w)
  BY <1>0, <1>1, <1>2, <1>4 DEF Begins, Starts
<1>6. c # <<>>
  BY <1>0, <1>3 DEF Starts
<1> QED
  BY <1>5, <1>6, NotAnError

-----------------------------------------------------------------------------
(* Content-Length is a number.                                             *)

\* A digit has a place among the digits.
LEMMA DigitsAre == ASSUME NEW u, IsDigit(u) PROVE Find(Digits, u) \in 1 .. 10
<1> DEFINE U == {"0", "1", "2", "3", "4", "5", "6", "7", "8", "9"}
<1>1. Digits \in Seq(U) /\ Len(Digits) = 10
  BY DEF Digits
<1> HIDE DEF U
<1>2. PICK i \in 1 .. Len(Digits) : Digits[i] = u
  BY <1>1, LenProperties DEF IsDigit
<1>3. Find(Digits, u) \in 0 .. Len(Digits) /\ Find(Digits, u) # 0
  BY <1>1, <1>2, FindFirst
<1> QED
  BY <1>1, <1>3

\* atol makes a number of the digits a text begins with.
LEMMA NumberIsNat ==
  ASSUME NEW s \in Units
  PROVE  Number(s) \in Nat
<1> DEFINE t == s \o <<SP>>
           I == {i \in 1 .. Len(t) : ~ IsDigit(t[i])}
           stop == SelectInSeq(t, LAMBDA u : ~ IsDigit(u))
           n == stop - 1
           digits == Before(s, stop)
           Next1(m, u) == 10 * m + Find(Digits, u) - 1
           F(g, k) == [x \in SUBSET (1 .. k) |->
                         IF x = {} THEN 0 ELSE Next1(g[x \ {Max(x)}], digits[Max(x)])]
           T == {k \in Nat : \E g : g = F(g, k)}
<1>1. /\ t \in Seq(STRING \cup {SP}) /\ Len(t) = Len(s) + 1 /\ Len(s) \in Nat
      /\ \A i \in 1 .. Len(s) : t[i] = s[i]
      /\ t[Len(s) + 1] = SP
  <2> DEFINE U == STRING \cup {SP}
  <2>1. <<SP>> \in Seq(U) /\ Len(<<SP>>) = 1 /\ <<SP>>[1] = SP
    OBVIOUS
  <2>2. s \in Seq(U) /\ Len(s) \in Nat
    BY SeqMonotonic DEF Units
  <2> HIDE DEF U
  <2>3. /\ t \in Seq(U) /\ Len(t) = Len(s) + Len(<<SP>>)
        /\ \A i \in 1 .. Len(s) + Len(<<SP>>) :
             t[i] = IF i <= Len(s) THEN s[i] ELSE <<SP>>[i - Len(s)]
    BY <2>1, <2>2, ConcatProperties
  <2> HIDE DEF t
  <2>4. \A i \in 1 .. Len(s) : t[i] = s[i]
    BY <2>1, <2>2, <2>3
  <2>5. t[Len(s) + 1] = <<SP>>[1]
    BY <2>1, <2>2, <2>3
  <2> QED
    BY <2>1, <2>2, <2>3, <2>4, <2>5 DEF U
<1>2. ~ IsDigit(SP)
  <2>1. Len(Digits) = 10 /\ DOMAIN Digits = 1 .. 10
    BY DEF Digits
  <2>2. \A i \in 1 .. 10 : Digits[i] # SP
    <3>1. /\ Digits[1] # SP /\ Digits[2] # SP /\ Digits[3] # SP /\ Digits[4] # SP
          /\ Digits[5] # SP /\ Digits[6] # SP /\ Digits[7] # SP /\ Digits[8] # SP
          /\ Digits[9] # SP /\ Digits[10] # SP
      BY DEF Digits, SP
    <3> QED
      BY <3>1
  <2> QED
    BY <2>1, <2>2 DEF IsDigit
<1>3. stop \in 1 .. Len(s) + 1 /\ \A i \in 1 .. stop - 1 : IsDigit(s[i])
  <2>1. stop = IF I # {} THEN Min(I) ELSE 0
    BY DEF SelectInSeq
  <2>2. Len(s) + 1 \in I /\ I \subseteq Nat
    BY <1>1, <1>2
  <2>3. Min(I) \in I /\ \A x \in I : Min(I) <= x
    <3> HIDE DEF I
    <3> QED
      BY <2>2, MinLeast
  <2>4. stop = Min(I)
    <3> HIDE DEF I, stop
    <3> QED
      BY <2>1, <2>2
  <2> HIDE DEF stop
  <2>5. stop \in 1 .. Len(s) + 1
    BY <1>1, <2>3, <2>4
  <2>6. ASSUME NEW i \in 1 .. stop - 1 PROVE IsDigit(s[i])
    <3>1. i \in 1 .. Len(t) /\ ~ (stop <= i) /\ i \in 1 .. Len(s)
      BY <1>1, <2>5
    <3>2. i \notin I
      BY <2>3, <2>4, <3>1
    <3> QED
      BY <1>1, <3>1, <3>2
  <2> QED
    BY <2>5, <2>6
<1> HIDE DEF stop
<1>4. n \in Nat /\ DOMAIN digits = 1 .. n /\ \A i \in 1 .. n : Find(Digits, digits[i]) \in 1 .. 10
  <2>1. \A i \in 1 .. n : i \in 1 .. Len(s)
    BY <1>1, <1>3
  <2>2. \A i \in 1 .. n : s[i] \in STRING
    BY <2>1, ElementOfSeq DEF Units
  <2>3. /\ digits \in Seq(STRING) /\ Len(digits) = n
        /\ \A i \in 1 .. n : digits[i] = s[i]
    <3>1. n \in Nat
      BY <1>1, <1>3
    <3>2. /\ SubSeq(s, 1, n) \in Seq(STRING)
          /\ Len(SubSeq(s, 1, n)) = IF 1 <= n THEN n - 1 + 1 ELSE 0
          /\ \A i \in 1 .. n - 1 + 1 : SubSeq(s, 1, n)[i] = s[1 + i - 1]
      BY <2>2, <3>1, SubSeqProperties
    <3>3. digits = SubSeq(s, 1, n)
      BY DEF Before
    <3> HIDE DEF digits, n
    <3>4. \A i \in 1 .. n : i \in 1 .. n - 1 + 1 /\ 1 + i - 1 = i
      BY <3>1
    <3> QED
      BY <3>1, <3>2, <3>3, <3>4
  <2>4. DOMAIN digits = 1 .. n
    BY <2>3, LenProperties
  <2>5. \A i \in 1 .. n : Find(Digits, digits[i]) \in 1 .. 10
    BY <1>3, <2>3, DigitsAre
  <2> QED
    BY <1>1, <1>3, <2>4, <2>5
<1> HIDE DEF digits, n
<1>5. Number(s) = (CHOOSE g : g = F(g, n))[1 .. n]
  BY <1>4 DEF Number, FoldLeft, MapThenFoldSet, digits, stop
<1> HIDE DEF Next1
<1>6. 0 \in T
  <2>1. SUBSET (1 .. 0) = {{}}
    OBVIOUS
  <2>2. [x \in SUBSET (1 .. 0) |-> 0] = F([x \in SUBSET (1 .. 0) |-> 0], 0)
    BY <2>1
  <2> QED
    BY <2>2
<1>7. ASSUME NEW k \in 1 .. n, k - 1 \in T PROVE k \in T
  <2>1. PICK g : g = F(g, k - 1)
    BY <1>7
  <2>2. PICK h : h = [x \in SUBSET (1 .. k) |->
                        IF k \in x THEN Next1(g[x \ {k}], digits[k]) ELSE g[x]]
    OBVIOUS
  <2>3. ASSUME NEW x \in SUBSET (1 .. k) PROVE h[x] = F(h, k)[x]
    <3>1. CASE k \in x
      <4>1. Max(x) = k
        <5>1. x \subseteq Nat /\ \A y \in x : y <= k
          OBVIOUS
        <5> QED
          BY <3>1, <5>1, MaxIs
      <4>2. x \ {k} \in SUBSET (1 .. k) /\ k \notin x \ {k}
        OBVIOUS
      <4>3. h[x \ {k}] = g[x \ {k}]
        BY <2>2, <4>2
      <4>4. h[x] = Next1(g[x \ {k}], digits[k])
        BY <2>2, <3>1
      <4> QED
        BY <3>1, <4>1, <4>3, <4>4
    <3>2. CASE k \notin x
      <4>1. x \in SUBSET (1 .. (k - 1))
        BY <3>2
      <4>2. h[x] = g[x] /\ h[x \ {Max(x)}] = g[x \ {Max(x)}]
        BY <2>2, <3>2
      <4>3. g[x] = IF x = {} THEN 0 ELSE Next1(g[x \ {Max(x)}], digits[Max(x)])
        BY <2>1, <4>1
      <4> QED
        BY <4>2, <4>3
    <3> QED
      BY <3>1, <3>2
  <2>4. h = F(h, k)
    BY <2>2, <2>3
  <2>5. k \in Nat
    BY <1>4
  <2> HIDE DEF F
  <2> QED
    BY <2>4, <2>5
<1> HIDE DEF T
<1>8. n \in T
  BY <1>4, <1>6, <1>7, Induction
<1>9. PICK g : g = F(g, n) /\ Number(s) = g[1 .. n]
  <2>1. \E g : g = F(g, n)
    BY <1>8 DEF T
  <2> HIDE DEF F
  <2> QED
    BY <1>5, <2>1
<1> DEFINE V == {k \in 0 .. n : g[1 .. k] \in Nat}
<1>10. 0 \in V
  <2>1. 1 .. 0 = {} /\ {} \in SUBSET (1 .. n) /\ 0 \in 0 .. n
    BY <1>4
  <2>2. g[{}] = 0
    BY <1>9, <2>1
  <2> QED
    BY <2>1, <2>2
<1>11. ASSUME NEW k \in 1 .. n, k - 1 \in V PROVE k \in V
  <2>1. k \in 1 .. k /\ 1 .. k \subseteq Nat /\ \A x \in 1 .. k : x <= k /\ x \in 1 .. n
    BY <1>4
  <2>2. Max(1 .. k) = k
    BY <2>1, MaxIs
  <2>3. (1 .. k) \ {k} = 1 .. (k - 1)
    OBVIOUS
  <2>4. g[1 .. k] = Next1(g[1 .. (k - 1)], digits[k])
    <3>1. 1 .. k \in SUBSET (1 .. n) /\ 1 .. k # {}
      BY <2>1
    <3> QED
      BY <1>9, <2>2, <2>3, <3>1
  <2>5. g[1 .. (k - 1)] \in Nat /\ k \in 0 .. n
    BY <1>11
  <2>6. Find(Digits, digits[k]) \in 1 .. 10
    BY <1>4
  <2>7. Next1(g[1 .. (k - 1)], digits[k]) \in Nat
    BY <2>5, <2>6 DEF Next1
  <2> QED
    BY <2>4, <2>5, <2>7
<1> HIDE DEF V
<1>12. n \in V
  BY <1>4, <1>10, <1>11, Induction
<1> QED
  BY <1>9, <1>12 DEF V

\* So is Content-Length, or it is missing.
LEMMA ContentLengthIs ==
  ASSUME NEW s \in Units
  PROVE  ContentLength(s) \in Nat \cup {-1}
<1> DEFINE at == {i \in 1 .. Len(s) - 1 : s[i] = CL /\ s[i + 1] = ":"}
           tail == After(s, Min(at) + 1)
           number == Unspaced(tail)
<1>1. Len(s) \in Nat /\ at \subseteq Nat
  BY DEF Units
<1>2. CASE at = {} \/ number = <<>>
  BY <1>2 DEF ContentLength
<1>3. CASE at # {} /\ number # <<>>
  <2>1. Min(at) \in 1 .. Len(s) - 1
    <3>1. Min(at) \in at
      <4> HIDE DEF at
      <4> QED
        BY <1>1, <1>3, MinLeast
    <3> QED
      BY <3>1
  <2>2. tail \in Units
    <3> HIDE DEF at
    <3>1. Min(at) + 1 + 1 \in Nat \ {0} /\ Len(s) \in Int /\ Len(s) <= Len(s)
      BY <1>1, <2>1
    <3>2. SubSeq(s, Min(at) + 1 + 1, Len(s)) \in Units
      BY <3>1, Part
    <3> QED
      BY <3>2 DEF After
  <2> HIDE DEF tail
  <2>3. number \in Units
    <3> DEFINE i == SelectInSeq(tail, LAMBDA u : u \notin {SP, CR, LF})
    <3>1. number = IF i = 0 THEN <<>> ELSE SubSeq(tail, i, Len(tail))
      BY DEF Unspaced
    <3>2. <<>> \in Units
      BY EmptySeq DEF Units
    <3>3. i = 0 \/ i \in Nat \ {0}
      <4> DEFINE I == {j \in 1 .. Len(tail) : tail[j] \notin {SP, CR, LF}}
      <4>1. i = IF I # {} THEN Min(I) ELSE 0
        BY DEF SelectInSeq
      <4>2. I \subseteq Nat \ {0} /\ I \subseteq Nat
        BY <2>2 DEF Units
      <4> HIDE DEF I, i
      <4>3. I # {} => Min(I) \in I
        BY <4>2, MinLeast
      <4> QED
        BY <4>1, <4>2, <4>3
    <3>4. Len(tail) \in Nat
      BY <2>2 DEF Units
    <3> HIDE DEF i, number
    <3>5. CASE i = 0
      BY <3>1, <3>2, <3>5
    <3>6. CASE i \in Nat \ {0}
      <4>1. SubSeq(tail, i, Len(tail)) \in Units
        BY <2>2, <3>4, <3>6, Part
      <4> QED
        BY <3>1, <3>2, <4>1
    <3> QED
      BY <3>3, <3>5, <3>6
  <2>4. ContentLength(s) = IF IsDigit(number[1]) THEN Number(number) ELSE -1
    BY <1>3 DEF ContentLength, tail
  <2> HIDE DEF number
  <2> QED
    BY <2>3, <2>4, NumberIsNat
<1> QED
  BY <1>2, <1>3

-----------------------------------------------------------------------------
(* A packet stays the packet it is when more arrives.                      *)

HeadOf(b) == Find(b, LF) + 1
EndOf(b) == Min(HeaderEnds(b, HeadOf(b)))
BodyOf(b) == BodyBegin(b, HeadOf(b), EndOf(b))
ContentOf(b) ==
  ContentLength(SubSeq(b, HeadOf(b), IF BodyOf(b) > Len(b) THEN Len(b) ELSE BodyOf(b) - 1))

\* Packet, with names for what it defines on its way
LEMMA PacketIs ==
  ASSUME NEW b
  PROVE  Packet(b) =
           IF PacketType(b) = "error" THEN Verdict("error", 0, 0, 0)
           ELSE IF HeadOf(b) = 1 \/ HeaderEnds(b, HeadOf(b)) = {} THEN NotFull
           ELSE IF ContentOf(b) > Len(b) - BodyOf(b) \/ BodyOf(b) > Len(b) THEN NotFull
           ELSE Verdict("full", HeadOf(b) - 1, BodyOf(b),
                        IF ContentOf(b) = -1 THEN 0 ELSE ContentOf(b))
BY Zenon DEF Packet, HeadOf, EndOf, BodyOf, ContentOf

\* What http_check finds complete
LEMMA FullIs ==
  ASSUME NEW b \in Units
  PROVE  Packet(b).is = "full" <=>
           /\ PacketType(b) # "error" /\ HeadOf(b) # 1 /\ HeaderEnds(b, HeadOf(b)) # {}
           /\ ~ (ContentOf(b) > Len(b) - BodyOf(b)) /\ ~ (BodyOf(b) > Len(b))
<1>1. /\ Verdict("error", 0, 0, 0).is = "error" /\ NotFull.is = "more"
      /\ Verdict("full", HeadOf(b) - 1, BodyOf(b),
                 IF ContentOf(b) = -1 THEN 0 ELSE ContentOf(b)).is = "full"
  BY DEF Verdict, NotFull
<1> QED
  BY <1>1, PacketIs

\* http_check has three answers.
LEMMA VerdictsAre ==
  ASSUME NEW b \in Units
  PROVE  /\ Packet(b).is \in {"error", "more", "full"}
         /\ Packet(b).is = "error" <=> PacketType(b) = "error"
         /\ HttpCheck(b).is = Packet(b).is
         /\ HttpCheck(b).header = Packet(b).header % HeaderWrap
         /\ HttpCheck(b).body = Packet(b).body % BodyWrap
         /\ HttpCheck(b).content = Packet(b).content
<1> DEFINE full == Verdict("full", HeadOf(b) - 1, BodyOf(b),
                           IF ContentOf(b) = -1 THEN 0 ELSE ContentOf(b))
           error == Verdict("error", 0, 0, 0)
<1>1. Packet(b) \in {full, error, NotFull} /\ (Packet(b) = error <=> PacketType(b) = "error")
  BY PacketIs DEF Verdict, NotFull
<1>2. full.is = "full" /\ error.is = "error" /\ NotFull.is = "more"
  BY DEF Verdict, NotFull
<1>3. \A v \in {full, error, NotFull} :
        v = [is |-> v.is, header |-> v.header, body |-> v.body, content |-> v.content]
  BY DEF Verdict, NotFull
<1> HIDE DEF full, error
<1>4. Packet(b) = [is |-> Packet(b).is, header |-> Packet(b).header, body |-> Packet(b).body,
                   content |-> Packet(b).content]
  BY <1>1, <1>3
<1> DEFINE v == Packet(b)
           x == v.header % HeaderWrap
           y == v.body % BodyWrap
<1>5. HttpCheck(b) = [v EXCEPT !.header = x, !.body = y]
  BY DEF HttpCheck
<1>6. {"is", "header", "body", "content"} \subseteq DOMAIN v
  BY <1>4, Zenon
<1> HIDE DEF v, x, y
<1>7. HttpCheck(b).is = v.is /\ HttpCheck(b).content = v.content
  BY <1>5, <1>6
<1>8. HttpCheck(b).header = x /\ HttpCheck(b).body = y
  BY <1>5, <1>6
<1> QED
  BY <1>1, <1>2, <1>7, <1>8 DEF v, x, y

\* Where the headers end stays where it was,
LEMMA EndsLonger ==
  ASSUME NEW b \in Units, NEW c \in Units, Starts(c, b), NEW h \in Nat \ {0},
         HeaderEnds(b, h) # {}
  PROVE  /\ Min(HeaderEnds(b, h)) \in HeaderEnds(b, h)
         /\ HeaderEnds(c, h) # {}
         /\ Min(HeaderEnds(c, h)) = Min(HeaderEnds(b, h))
<1> DEFINE p == Min(HeaderEnds(b, h))
<1>0. Len(b) \in Nat /\ Len(c) \in Nat /\ Len(b) <= Len(c)
  BY DEF Units, Starts
<1>1. HeaderEnds(b, h) \subseteq Nat /\ HeaderEnds(c, h) \subseteq Nat
  BY <1>0 DEF HeaderEnds
<1>2. p \in HeaderEnds(b, h) /\ \A x \in HeaderEnds(b, h) : p <= x
  BY <1>1, MinLeast
<1> HIDE DEF p
<1>3. p \in h .. Len(b)
  BY <1>2 DEF HeaderEnds
<1>4. c[p] = b[p] /\ c[h] = b[h] /\ (p < Len(b) => c[p + 1] = b[p + 1])
  BY <1>0, <1>3 DEF Starts
<1>5. p \in HeaderEnds(c, h)
  BY <1>0, <1>2, <1>3, <1>4 DEF HeaderEnds
<1>6. ASSUME NEW x \in HeaderEnds(c, h) PROVE p <= x
  <2>1. x \in h .. Len(c)
    BY DEF HeaderEnds
  <2>2. CASE x < Len(b)
    <3>1. x \in h .. Len(b) /\ c[x] = b[x] /\ c[h] = b[h] /\ c[x + 1] = b[x + 1]
      BY <1>0, <2>1, <2>2 DEF Starts
    <3>2. x \in HeaderEnds(b, h)
      BY <2>2, <3>1 DEF HeaderEnds
    <3> QED
      BY <1>2, <3>2
  <2>3. CASE ~ (x < Len(b))
    BY <1>0, <1>3, <2>1, <2>3
  <2> QED
    BY <2>2, <2>3
<1>7. Min(HeaderEnds(c, h)) = p
  BY <1>1, <1>5, <1>6, MinIs
<1> QED
  BY <1>2, <1>5, <1>7 DEF p

\* and with it where the body begins.
LEMMA BodyLonger ==
  ASSUME NEW b \in Units, NEW c \in Units, Starts(c, b), NEW h \in Nat \ {0},
         NEW p \in HeaderEnds(b, h)
  PROVE  /\ BodyBegin(c, h, p) = BodyBegin(b, h, p)
         /\ BodyBegin(b, h, p) \in Nat /\ p <= BodyBegin(b, h, p)
<1>0. Len(b) \in Nat /\ Len(c) \in Nat /\ Len(b) <= Len(c)
  BY DEF Units, Starts
<1>1. /\ p \in h .. Len(b) /\ b[p] = LF
      /\ \/ p = h
         \/ p = h + 1 /\ b[h] = CR
         \/ p < Len(b) /\ b[p + 1] \in {CR, LF}
  BY DEF HeaderEnds
<1>2. c[h] = b[h] /\ (p < Len(b) => c[p + 1] = b[p + 1])
  BY <1>0, <1>1 DEF Starts
<1> QED
  BY <1>0, <1>1, <1>2 DEF BodyBegin

\* The verdict "full" is final (gr_http.c:424): it stays, with its offsets, whatever arrives
\* behind the packet.
THEOREM FullIsFinal ==
  ASSUME NEW b \in Units, NEW c \in Units, Starts(c, b), Packet(b).is = "full"
  PROVE  /\ Packet(c) = Packet(b)
         /\ Packet(b).header = Find(b, LF) /\ Packet(b).header \in 1 .. Len(b)
         /\ Packet(b).body \in Nat /\ Packet(b).content \in Nat
         /\ Packet(b).body + Packet(b).content <= Len(b)
         /\ HeaderEnds(b, Packet(b).header + 1) # {}
<1> DEFINE h == HeadOf(b)
           p == EndOf(b)
           body == BodyOf(b)
           content == ContentOf(b)
<1>0. Len(b) \in Nat /\ Len(c) \in Nat /\ Len(b) <= Len(c)
  BY DEF Units, Starts
<1>1. /\ PacketType(b) # "error" /\ h # 1 /\ HeaderEnds(b, h) # {}
      /\ ~ (content > Len(b) - body) /\ ~ (body > Len(b))
  BY FullIs
<1>2. Find(b, LF) \in 1 .. Len(b)
  <2>1. Find(b, LF) \in 0 .. Len(b)
    BY FindFirst DEF Units
  <2>2. Find(b, LF) # 0
    BY <1>1 DEF HeadOf
  <2> QED
    BY <1>0, <2>1, <2>2
<1>3. HeadOf(c) = h /\ h \in Nat \ {0}
  <2>1. Find(c, LF) = Find(b, LF)
    BY <1>0, <1>2, FindLonger
  <2> QED
    BY <1>0, <1>2, <2>1 DEF HeadOf
<1> HIDE DEF h
<1>4. EndOf(c) = p /\ p \in HeaderEnds(b, h) /\ HeaderEnds(c, h) # {}
  <2>1. p = Min(HeaderEnds(b, h)) /\ EndOf(c) = Min(HeaderEnds(c, h))
    BY <1>3 DEF EndOf, h
  <2> HIDE DEF p
  <2> QED
    BY <1>1, <1>3, <2>1, EndsLonger
<1>5. BodyOf(c) = body /\ body \in Nat /\ h <= body
  <2>1. body = BodyBegin(b, h, p) /\ BodyOf(c) = BodyBegin(c, h, p)
    BY <1>3, <1>4 DEF BodyOf, h
  <2>2. p \in h .. Len(b)
    BY <1>4 DEF HeaderEnds
  <2> HIDE DEF p, body
  <2>3. body \in Nat /\ p <= body /\ BodyOf(c) = body
    BY <1>3, <1>4, <2>1, BodyLonger
  <2> QED
    BY <1>0, <1>3, <2>2, <2>3
<1>6. ContentOf(c) = content /\ content \in Nat \cup {-1}
  <2>1. content = ContentLength(SubSeq(b, h, body - 1))
    BY <1>1 DEF ContentOf, h
  <2>2. ContentOf(c) = ContentLength(SubSeq(c, h, body - 1))
    <3>1. ~ (BodyOf(c) > Len(c))
      <4> HIDE DEF body
      <4> QED
        BY <1>0, <1>1, <1>5
    <3>2. ContentOf(c) = ContentLength(SubSeq(c, HeadOf(c), BodyOf(c) - 1))
      BY <3>1 DEF ContentOf
    <3> QED
      BY <1>3, <1>5, <3>2
  <2> HIDE DEF body, content
  <2>3. body - 1 \in Int /\ body - 1 <= Len(b)
    BY <1>0, <1>1, <1>5
  <2>4. SubSeq(c, h, body - 1) = SubSeq(b, h, body - 1)
    BY <1>3, <2>3, SubSeqLonger
  <2>5. SubSeq(b, h, body - 1) \in Units
    BY <1>3, <2>3, Part
  <2> QED
    BY <2>1, <2>2, <2>4, <2>5, ContentLengthIs
<1>7. PacketType(c) # "error"
  BY <1>0, <1>1, <1>2, NoErrorAfter
<1> DEFINE length == IF content = -1 THEN 0 ELSE content
<1>8. Packet(b) = Verdict("full", h - 1, body, length)
  BY <1>1, PacketIs DEF h
<1>9. Packet(c) = Verdict("full", h - 1, body, length)
  <2>1. HeadOf(c) # 1 /\ HeaderEnds(c, HeadOf(c)) # {}
    BY <1>1, <1>3, <1>4
  <2>2. ~ (ContentOf(c) > Len(c) - BodyOf(c)) /\ ~ (BodyOf(c) > Len(c))
    <3> HIDE DEF body, content
    <3> QED
      BY <1>0, <1>1, <1>5, <1>6
  <2>3. Packet(c) = Verdict("full", HeadOf(c) - 1, BodyOf(c),
                            IF ContentOf(c) = -1 THEN 0 ELSE ContentOf(c))
    BY <1>7, <2>1, <2>2, PacketIs
  <2> QED
    BY <1>3, <1>5, <1>6, <2>3
<1>10. /\ Packet(b).header = h - 1 /\ Packet(b).body = body /\ Packet(b).content = length
  BY <1>8 DEF Verdict
<1>11. h - 1 = Find(b, LF)
  BY <1>0, <1>2 DEF h, HeadOf
<1>12. length \in Nat /\ body + length <= Len(b)
  <2> HIDE DEF content, body
  <2> QED
    BY <1>0, <1>1, <1>5, <1>6
<1> HIDE DEF body, content, length
<1> QED
  BY <1>0, <1>1, <1>2, <1>3, <1>5, <1>8, <1>9, <1>10, <1>11, <1>12

-----------------------------------------------------------------------------
(* What http_proc makes of a packet does not depend on what is behind it,   *)
(* unless the packet has a form.                                            *)

\* Where the lines of the headers stop: at one that is empty, or at the end of the text
LineStops(t, h) ==
  {i \in {h} \cup {k + 1 : k \in {j \in h .. Len(t) : t[j] = LF}} :
     i > Len(t) \/ t[i] \in {CR, LF}}

\* Lines, by the units in front of its end
LEMMA LinesAre ==
  ASSUME NEW t \in Units, NEW h \in Nat \ {0}
  PROVE  /\ Lines(t, h) = Pieces(SubSeq(t, h, Min(LineStops(t, h)) - 1), LF)
         /\ \A x : x \in LineStops(t, h) <=>
                    /\ x \in Nat \ {0}
                    /\ x = h \/ (x - 1 \in h .. Len(t) /\ t[x - 1] = LF)
                    /\ x > Len(t) \/ t[x] \in {CR, LF}
<1>1. Lines(t, h) = Pieces(SubSeq(t, h, Min(LineStops(t, h)) - 1), LF)
  BY DEF Lines, LineStops
<1>2. ASSUME NEW x
      PROVE  x \in LineStops(t, h) <=>
               /\ x \in Nat \ {0}
               /\ x = h \/ (x - 1 \in h .. Len(t) /\ t[x - 1] = LF)
               /\ x > Len(t) \/ t[x] \in {CR, LF}
  <2> DEFINE S == LineStops(t, h)
  <2>1. Len(t) \in Nat
    BY DEF Units
  <2>2. ASSUME x \in S, x # h PROVE x \in Nat \ {0} /\ x - 1 \in h .. Len(t) /\ t[x - 1] = LF
    <3>1. PICK k \in {j \in h .. Len(t) : t[j] = LF} : x = k + 1
      BY <2>2 DEF LineStops
    <3>2. k \in Nat /\ k = x - 1 /\ x \in Nat
      BY <2>1, <3>1
    <3> QED
      BY <3>1, <3>2
  <2>3. ASSUME x \in Nat \ {0}, x - 1 \in h .. Len(t), t[x - 1] = LF,
               x > Len(t) \/ t[x] \in {CR, LF}
        PROVE  x \in S
    <3>1. x = (x - 1) + 1
      BY <2>3
    <3>2. x - 1 \in {j \in h .. Len(t) : t[j] = LF}
      BY <2>3
    <3>3. x \in {k + 1 : k \in {j \in h .. Len(t) : t[j] = LF}}
      BY <3>1, <3>2
    <3> QED
      BY <2>3, <3>3 DEF LineStops
  <2>4. x = h /\ (x > Len(t) \/ t[x] \in {CR, LF}) => x \in S
    BY DEF LineStops
  <2>5. x \in S => x > Len(t) \/ t[x] \in {CR, LF}
    BY DEF LineStops
  <2> QED
    BY <2>2, <2>3, <2>4, <2>5
<1> QED
  BY <1>1, <1>2

\* The lines of the headers end before the body,
LEMMA LinesLonger ==
  ASSUME NEW b \in Units, NEW c \in Units, Starts(c, b), NEW h \in Nat \ {0},
         HeaderEnds(b, h) # {}
  PROVE  Lines(c, h) = Lines(b, h)
<1> DEFINE Stops(t) == LineStops(t, h)
           m == Min(Stops(b))
<1>0. Len(b) \in Nat /\ Len(c) \in Nat /\ Len(b) <= Len(c)
  BY DEF Units, Starts
<1>1. /\ Lines(b, h) = Pieces(SubSeq(b, h, m - 1), LF)
      /\ Lines(c, h) = Pieces(SubSeq(c, h, Min(Stops(c)) - 1), LF)
  BY LinesAre
<1>2. ASSUME NEW t \in Units, NEW x
      PROVE  x \in Stops(t) <=>
               /\ x \in Nat \ {0}
               /\ \/ x = h
                  \/ x - 1 \in h .. Len(t) /\ t[x - 1] = LF
               /\ x > Len(t) \/ t[x] \in {CR, LF}
  BY LinesAre
<1> HIDE DEF Stops, m
<1>3. \E x \in Stops(b) : x <= Len(b)
  <2>1. PICK p \in HeaderEnds(b, h) : TRUE
    OBVIOUS
  <2>2. /\ p \in h .. Len(b) /\ b[p] = LF
        /\ \/ p = h
           \/ p = h + 1 /\ b[h] = CR
           \/ p < Len(b) /\ b[p + 1] \in {CR, LF}
    BY DEF HeaderEnds
  <2>3. CASE p = h
    <3>1. h \in Stops(b)
      BY <1>2, <2>2, <2>3
    <3> QED
      BY <2>2, <2>3, <3>1
  <2>4. CASE p = h + 1 /\ b[h] = CR
    <3>1. h \in Stops(b)
      BY <1>2, <2>4
    <3>2. h <= Len(b)
      BY <1>0, <2>2, <2>4
    <3> QED
      BY <3>1, <3>2
  <2>5. CASE p < Len(b) /\ b[p + 1] \in {CR, LF}
    <3>1. p \in Nat /\ (p + 1) - 1 = p /\ p + 1 \in Nat \ {0} /\ p + 1 <= Len(b)
      BY <1>0, <2>2, <2>5
    <3>2. p + 1 \in Stops(b)
      BY <1>2, <2>2, <2>5, <3>1
    <3> QED
      BY <3>1, <3>2
  <2> QED
    BY <2>2, <2>3, <2>4, <2>5
<1>4. Stops(b) \subseteq Nat /\ Stops(c) \subseteq Nat
  BY <1>2
<1>5. m \in Stops(b) /\ \A x \in Stops(b) : m <= x
  BY <1>3, <1>4, MinLeast DEF m
<1>6. m \in Nat \ {0} /\ m <= Len(b) /\ b[m] \in {CR, LF} /\ c[m] = b[m]
  <2>1. m \in Nat \ {0}
    BY <1>2, <1>5
  <2>2. m <= Len(b)
    BY <1>0, <1>3, <1>4, <1>5, <2>1
  <2>3. b[m] \in {CR, LF}
    <3>1. ~ (m > Len(b))
      BY <1>0, <2>1, <2>2
    <3> QED
      BY <1>2, <1>5, <3>1
  <2>4. c[m] = b[m]
    BY <1>0, <2>1, <2>2 DEF Starts
  <2> QED
    BY <2>1, <2>2, <2>3, <2>4
<1>7. m \in Stops(c)
  <2>1. m = h \/ (m - 1 \in h .. Len(b) /\ b[m - 1] = LF)
    BY <1>2, <1>5
  <2>2. m = h \/ (m - 1 \in h .. Len(c) /\ c[m - 1] = LF)
    BY <1>0, <1>6, <2>1 DEF Starts
  <2> QED
    BY <1>2, <1>6, <2>2
<1>8. ASSUME NEW x \in Stops(c) PROVE m <= x
  <2>1. /\ x \in Nat \ {0}
        /\ \/ x = h
           \/ x - 1 \in h .. Len(c) /\ c[x - 1] = LF
        /\ x > Len(c) \/ c[x] \in {CR, LF}
    BY <1>2
  <2>2. CASE x <= Len(b)
    <3>1. x \in 1 .. Len(b) /\ ~ (x > Len(c))
      BY <1>0, <2>1, <2>2
    <3>2. b[x] = c[x]
      BY <3>1 DEF Starts
    <3>3. x = h \/ (x - 1 \in h .. Len(b) /\ b[x - 1] = LF)
      <4>1. ASSUME x - 1 \in h .. Len(c), c[x - 1] = LF
            PROVE  x - 1 \in h .. Len(b) /\ b[x - 1] = LF
        <5>1. x - 1 \in h .. Len(b) /\ x - 1 \in 1 .. Len(b)
          BY <1>0, <2>1, <2>2, <4>1
        <5> QED
          BY <4>1, <5>1 DEF Starts
      <4> QED
        BY <2>1, <4>1
    <3>4. x \in Stops(b)
      BY <1>2, <2>1, <3>1, <3>2, <3>3
    <3> QED
      BY <1>5, <3>4
  <2>3. CASE ~ (x <= Len(b))
    BY <1>0, <1>6, <2>1, <2>3
  <2> QED
    BY <2>2, <2>3
<1>9. Min(Stops(c)) = m
  BY <1>4, <1>7, <1>8, MinIs
<1>10. SubSeq(c, h, m - 1) = SubSeq(b, h, m - 1)
  <2>1. m - 1 \in Int /\ m - 1 <= Len(b)
    BY <1>0, <1>6
  <2> QED
    BY <2>1, SubSeqLonger
<1> QED
  BY <1>1, <1>9, <1>10

\* the first line,
LEMMA FirstLineLonger ==
  ASSUME NEW b \in Units, NEW c \in Units, Starts(c, b), Find(b, LF) # 0
  PROVE  FirstLine(c) = FirstLine(b)
<1> DEFINE First(t) == CASE t[1] = "G" -> 5 [] t[1] \in {"H", "P"} -> 6 [] OTHER -> 9
           n == Find(b, LF)
<1>0. n \in 1 .. Len(b) /\ Len(b) \in Nat
  <2>1. n \in 0 .. Len(b) /\ Len(b) \in Nat
    BY FindFirst DEF Units
  <2> QED
    BY <2>1
<1>1. Find(c, LF) = n
  BY FindLonger
<1>2. c[1] = b[1]
  BY <1>0 DEF Starts
<1>3. First(c) = First(b)
  BY <1>2
<1>4. First(b) \in Nat \ {0}
  OBVIOUS
<1>5. ASSUME NEW t \in Units
      PROVE  FirstLine(t) = SubSeq(t, First(t), Find(t, LF) - 1)
  BY DEF FirstLine
<1> HIDE DEF First, n
<1>6. SubSeq(c, First(b), n - 1) = SubSeq(b, First(b), n - 1)
  <2>1. n - 1 \in Int /\ n - 1 <= Len(b)
    BY <1>0
  <2> QED
    BY <1>4, <2>1, SubSeqLonger
<1> QED
  BY <1>1, <1>3, <1>5, <1>6 DEF n

\* the target in it and how it ends,
LEMMA TargetLonger ==
  ASSUME NEW b \in Units, NEW c \in Units, Starts(c, b), Find(b, LF) # 0
  PROVE  /\ Target(c) = Target(b)
         /\ EndsInCR(c) <=> EndsInCR(b)
<1>1. FirstLine(c) = FirstLine(b)
  BY FirstLineLonger
<1> QED
  BY <1>1 DEF Target, EndsInCR

\* the method before it.
LEMMA BadMethodLonger ==
  ASSUME NEW b \in Units, NEW c \in Units, Starts(c, b), Find(b, LF) # 0,
         PacketType(b) # "error"
  PROVE  BadMethod(c) <=> BadMethod(b)
<1> DEFINE n == Find(b, LF)
           connect == <<"C", "T", SP>>
<1>0. /\ n \in 1 .. Len(b) /\ Len(b) \in Nat /\ Len(c) \in Nat
      /\ b[n] = LF /\ c[n] = LF
  <2>1. n \in 0 .. Len(b) /\ Len(b) \in Nat /\ Len(c) \in Nat /\ b[n] = LF
    BY FindFirst DEF Units
  <2> QED
    BY <2>1 DEF Starts
<1>1. c[1] = b[1]
  BY <1>0 DEF Starts
<1> HIDE DEF n
<1>2. ASSUME b[1] = "C", Len(b) < 8 PROVE n \in 6 .. 7
  <2>1. PICK w \in Words : Begins(b, w)
    BY NotAnError
  <2>2. \A i \in 1 .. Len(w) : w[i] # LF
    BY WordsAre
  <2>3. Len(w) \in 4 .. 5 /\ (w[1] = "C" => Len(w) = 5)
    <3>1. \/ w = <<"G", "E", "T", " ">> \/ w = <<"P", "O", "S", "T", " ">>
          \/ w = <<"H", "E", "A", "D", " ">> \/ w = <<"C", "O", "N", "N", "E">>
          \/ w = <<"H", "T", "T", "P", "/">>
      BY DEF Words, RequestWords
    <3>2. CASE w = <<"G", "E", "T", " ">>
      <4>1. Len(w) = 4
        BY <3>2
      <4>2. w[1] = "G"
        BY <3>2
      <4> QED
        BY <4>1, <4>2
    <3>3. CASE w = <<"P", "O", "S", "T", " ">>
      <4>1. Len(w) = 5
        BY <3>3
      <4>2. w[1] = "P"
        BY <3>3
      <4> QED
        BY <4>1, <4>2
    <3>4. CASE w = <<"H", "E", "A", "D", " ">>
      <4>1. Len(w) = 5
        BY <3>4
      <4>2. w[1] = "H"
        BY <3>4
      <4> QED
        BY <4>1, <4>2
    <3>5. CASE w = <<"C", "O", "N", "N", "E">>  BY <3>5
    <3>6. CASE w = <<"H", "T", "T", "P", "/">>  BY <3>6
    <3> QED
      BY <3>1, <3>2, <3>3, <3>4, <3>5, <3>6
  <2>4. b[1] = w[1]
    <3>1. 1 \in 1 .. Len(w) /\ 1 <= Len(b)
      BY <1>0, <2>3
    <3> QED
      BY <2>1, <3>1 DEF Begins
  <2>5. Len(w) = 5
    BY <1>2, <2>3, <2>4
  <2>6. ASSUME n <= 5 PROVE FALSE
    <3>1. n \in 1 .. Len(w) /\ n <= Len(b)
      BY <1>0, <2>5, <2>6
    <3> QED
      BY <1>0, <2>1, <2>2, <3>1 DEF Begins
  <2> QED
    BY <1>0, <1>2, <2>6
<1>3. ASSUME NEW t, n \in 6 .. 7, t[n] = LF PROVE SubSeq(t, 6, 8) # connect
  <2> DEFINE U == {t[6], t[7], t[8]}
  <2>1. \A i \in 6 .. 8 : t[i] \in U
    BY SMT
  <2> HIDE DEF U
  <2>2. \A i \in 1 .. 8 - 6 + 1 : SubSeq(t, 6, 8)[i] = t[6 + i - 1]
    BY <2>1, SubSeqProperties
  <2>3. SubSeq(t, 6, 8)[1] = t[6] /\ SubSeq(t, 6, 8)[2] = t[7]
    BY <2>2
  <2>4. "C" # LF /\ "T" # LF
    BY DEF LF
  <2>5. connect[1] = "C" /\ connect[2] = "T"
    OBVIOUS
  <2>6. n = 6 \/ n = 7
    BY <1>3
  <2> HIDE DEF connect
  <2> QED
    BY <1>3, <2>3, <2>4, <2>5, <2>6
<1>4. CASE b[1] = "C" /\ Len(b) < 8
  BY <1>0, <1>1, <1>2, <1>3, <1>4 DEF BadMethod
<1>5. CASE b[1] = "C" /\ ~ (Len(b) < 8)
  <2>1. 6 \in Nat \ {0} /\ 8 \in Int /\ 8 <= Len(b)
    BY <1>0, <1>5
  <2>2. SubSeq(c, 6, 8) = SubSeq(b, 6, 8)
    BY <2>1, SubSeqLonger
  <2> QED
    BY <1>1, <2>2 DEF BadMethod
<1>6. CASE b[1] # "C"
  BY <1>1, <1>6 DEF BadMethod
<1> QED
  BY <1>4, <1>5, <1>6

\* http_proc reads nothing behind the request (gr_http.c:606): with more there it finds the same
\* target, headers, body and errors, unless the request has a form.
THEOREM ParsedLonger ==
  ASSUME NEW b \in Units, NEW c \in Units, Starts(c, b), PacketType(b) # "error",
         NEW v, v.header = Find(b, LF), v.header \in 1 .. Len(b),
         HeaderEnds(b, v.header + 1) # {},
         v.body \in Nat, v.content \in Nat, v.body + v.content <= Len(b),
         ~ IsForm(b, v)
  PROVE  Parsed(c, v) = Parsed(b, v)
<1>0. Len(b) \in Nat
  BY DEF Units
<1>1. Find(b, LF) # 0 /\ v.header + 1 \in Nat \ {0}
  BY <1>0
<1>2. Lines(c, v.header + 1) = Lines(b, v.header + 1)
  BY <1>1, LinesLonger
<1>3. Target(c) = Target(b) /\ (EndsInCR(c) <=> EndsInCR(b))
  BY <1>1, TargetLonger
<1>4. BadMethod(c) <=> BadMethod(b)
  BY <1>1, BadMethodLonger
<1>5. ~ IsForm(c, v)
  BY <1>2 DEF IsForm
<1>6. BodyText(c, v) = BodyText(b, v)
  <2>1. v.body + 1 \in Nat \ {0} /\ v.body + v.content \in Int
    OBVIOUS
  <2> QED
    BY <2>1, SubSeqLonger DEF BodyText
<1> DEFINE bad == IF BadMethod(b) THEN -1 ELSE 0
<1>7. (IF BadMethod(c) THEN -1 ELSE 0) = bad
  BY <1>4
<1>8. /\ \A s : LastDecoded(c, s) = LastDecoded(b, s)
      /\ \A s : QueryParams(c, s) = QueryParams(b, s)
  BY <1>3, Zenon DEF LastDecoded, QueryParams
<1> QED
  BY <1>2, <1>3, <1>5, <1>6, <1>7, <1>8, SMTT(30) DEF Parsed

-----------------------------------------------------------------------------
(* Where http_check sees the end of a request, and where lines say it is   *)

\* The line feeds of empty lines
EmptyLines(t) ==
  {p \in 2 .. Len(t) : /\ t[p] = LF
                       /\ t[p - 1] = LF \/ (p > 2 /\ t[p - 1] = CR /\ t[p - 2] = LF)}

\* In front of a body no line begins with a CR unless it is empty.
NoCrAlone(t) ==
  \A i \in 2 .. IF EmptyLines(t) = {} THEN Len(t) ELSE Min(EmptyLines(t)) :
    t[i - 1] = LF /\ t[i] = CR => i = Len(t) \/ t[i + 1] = LF

\* A packet is a first line, headers, an empty line, and as much as Content-Length says.
PacketByLines(t) ==
  LET m      == Min(EmptyLines(t))
      n      == ContentLength(SubSeq(t, Find(t, LF) + 1, m - 1))
      length == IF n = -1 THEN 0 ELSE n
  IN  IF PacketType(t) = "error" THEN Verdict("error", 0, 0, 0)
      ELSE IF EmptyLines(t) = {} \/ Len(t) < m + length THEN NotFull
      ELSE Verdict("full", Find(t, LF), m, length)

\* What is seen of the headers' end before the first empty line
LEMMA EndsMakeEmptyLines ==
  ASSUME NEW t \in Units, NEW l \in 0 .. Len(t),
         \A i \in 2 .. l : t[i - 1] = LF /\ t[i] = CR => i = Len(t) \/ t[i + 1] = LF,
         Find(t, LF) # 0, NEW x \in HeaderEnds(t, HeadOf(t)), x < l
  PROVE  /\ x \in HeadOf(t) .. Len(t) /\ t[x] = LF
         /\ \/ x = HeadOf(t) /\ x \in EmptyLines(t)
            \/ x = HeadOf(t) + 1 /\ t[HeadOf(t)] = CR /\ x \in EmptyLines(t)
            \/ t[x + 1] = LF /\ x + 1 \in EmptyLines(t)
            \/ t[x + 1] = CR /\ x + 1 = Len(t)
            \/ t[x + 1] = CR /\ x + 2 \in EmptyLines(t) /\ x + 2 <= Len(t)
<1> DEFINE h == HeadOf(t)
           f == Find(t, LF)
<1>0. Len(t) \in Nat /\ l \in Nat /\ l <= Len(t) /\ CR # LF
  BY DEF Units, CR, LF
<1>1. f \in 1 .. Len(t) /\ t[f] = LF /\ h = f + 1 /\ h \in Nat /\ h - 1 = f
  <2>1. f \in 0 .. Len(t) /\ f # 0 /\ t[f] = LF
    BY FindFirst DEF Units
  <2> QED
    BY <1>0, <2>1 DEF HeadOf
<1> HIDE DEF h, f
<1>2. /\ x \in h .. Len(t) /\ t[x] = LF
      /\ \/ x = h
         \/ x = h + 1 /\ t[h] = CR
         \/ x < Len(t) /\ t[x + 1] \in {CR, LF}
  BY DEF HeaderEnds, h
<1>3. x \in Nat /\ x >= 2
  BY <1>0, <1>1, <1>2
<1>4. CASE x = h
  BY <1>0, <1>1, <1>2, <1>3, <1>4 DEF EmptyLines, h
<1>5. CASE x = h + 1 /\ t[h] = CR
  <2>1. x - 1 = h /\ x - 2 = f /\ x > 2 /\ x \in 2 .. Len(t)
    BY <1>0, <1>1, <1>2, <1>5
  <2>2. x \in EmptyLines(t)
    BY <1>1, <1>2, <1>5, <2>1 DEF EmptyLines
  <2> QED
    BY <1>2, <1>5, <2>2 DEF h
<1>6. CASE x < Len(t) /\ t[x + 1] = LF
  <2>1. x + 1 \in 2 .. Len(t) /\ (x + 1) - 1 = x
    BY <1>0, <1>3, <1>6
  <2>2. x + 1 \in EmptyLines(t)
    BY <1>2, <1>6, <2>1 DEF EmptyLines
  <2> QED
    BY <1>2, <1>6, <2>2 DEF h
<1>7. CASE x < Len(t) /\ t[x + 1] = CR
  <2>1. x + 1 \in 2 .. l /\ (x + 1) - 1 = x /\ (x + 1) + 1 = x + 2
    BY <1>0, <1>3, <1>7
  <2>2. x + 1 = Len(t) \/ t[x + 2] = LF
    BY <1>2, <1>7, <2>1
  <2>3. CASE x + 1 = Len(t)
    BY <1>2, <1>7, <2>3 DEF h
  <2>4. CASE x + 1 # Len(t) /\ t[x + 2] = LF
    <3>1. x + 2 \in 2 .. Len(t) /\ x + 2 > 2 /\ (x + 2) - 1 = x + 1 /\ (x + 2) - 2 = x
          /\ x + 2 <= Len(t)
      BY <1>0, <1>3, <1>7, <2>4
    <3>2. x + 2 \in EmptyLines(t)
      BY <1>2, <1>7, <2>4, <3>1 DEF EmptyLines
    <3> QED
      BY <1>2, <1>7, <3>1, <3>2 DEF h
  <2> QED
    BY <2>2, <2>3, <2>4
<1> QED
  BY <1>2, <1>4, <1>5, <1>6, <1>7

\* http_check, which looks at what follows a line feed, sees the end of a packet where reading
\* its lines does (gr_http.c:337): at the first empty line, and Content-Length behind it.
THEOREM PacketIsByLines ==
  ASSUME NEW t \in Units, NoCrAlone(t)
  PROVE  Packet(t) = PacketByLines(t)
<1> DEFINE E == EmptyLines(t)
           m == Min(E)
           H == HeaderEnds(t, HeadOf(t))
           e == EndOf(t)
           h == HeadOf(t)
           f == Find(t, LF)
           n == ContentLength(SubSeq(t, f + 1, m - 1))
           length == IF n = -1 THEN 0 ELSE n
<1>0. Len(t) \in Nat /\ CR # LF
  BY DEF Units, CR, LF
<1>1. E \subseteq Nat
  BY <1>0 DEF EmptyLines
<1>2. f \in 0 .. Len(t) /\ h = f + 1 /\ h \in Nat /\ h - 1 = f /\ h - 2 = f - 1
      /\ (f # 0 => t[f] = LF /\ \A i \in 1 .. f - 1 : t[i] # LF)
  <2>1. /\ f \in 0 .. Len(t)
        /\ f # 0 => t[f] = LF /\ \A i \in 1 .. f - 1 : t[i] # LF
    BY FindFirst DEF Units
  <2> HIDE DEF f
  <2> QED
    BY <1>0, <2>1 DEF HeadOf, f
<1>3. Packet(t) =
        IF PacketType(t) = "error" THEN Verdict("error", 0, 0, 0)
        ELSE IF h = 1 \/ H = {} THEN NotFull
        ELSE IF ContentOf(t) > Len(t) - BodyOf(t) \/ BodyOf(t) > Len(t) THEN NotFull
        ELSE Verdict("full", h - 1, BodyOf(t), IF ContentOf(t) = -1 THEN 0 ELSE ContentOf(t))
  BY PacketIs
<1>4. PacketByLines(t) =
        IF PacketType(t) = "error" THEN Verdict("error", 0, 0, 0)
        ELSE IF E = {} \/ Len(t) < m + length THEN NotFull
        ELSE Verdict("full", f, m, length)
  BY Zenon DEF PacketByLines
<1>5. ASSUME H # {} PROVE e \in H /\ \A x \in H : e <= x
  <2>1. H \subseteq Nat
    BY <1>0, <1>2 DEF HeaderEnds
  <2> HIDE DEF H
  <2> QED
    BY <1>5, <2>1, MinLeast DEF EndOf, H
<1>6. BodyOf(t) = IF e = h \/ (e = h + 1 /\ t[h] = CR) THEN e
                  ELSE IF t[e + 1] = CR THEN e + 2
                  ELSE e + 1
  BY DEF BodyOf, BodyBegin
<1>7. CASE E = {}
  <2> SUFFICES ASSUME h # 1, H # {} PROVE BodyOf(t) > Len(t)
    BY <1>3, <1>4, <1>7
  <2>1. \A i \in 2 .. Len(t) : t[i - 1] = LF /\ t[i] = CR => i = Len(t) \/ t[i + 1] = LF
    BY <1>7 DEF NoCrAlone
  <2>2. e \in H /\ e \in h .. Len(t) /\ t[e] = LF /\ Find(t, LF) # 0
    BY <1>2, <1>5 DEF HeaderEnds
  <2>3. CASE e < Len(t)
    <3>1. Len(t) \in 0 .. Len(t)
      BY <1>0
    <3>2. t[e + 1] = CR /\ e + 1 = Len(t) /\ e \notin E
      BY <1>7, <2>1, <2>2, <2>3, <3>1, EndsMakeEmptyLines
    <3>3. ~ (e = h) /\ ~ (e = h + 1 /\ t[h] = CR)
      <4> HIDE DEF e, h, f
      <4>1. ASSUME e = h PROVE e \in E
        BY <1>0, <1>2, <2>2, <4>1 DEF EmptyLines, f, h
      <4>2. ASSUME e = h + 1, t[h] = CR PROVE e \in E
        <5>1. e - 1 = h /\ e - 2 = f /\ e > 2 /\ e \in 2 .. Len(t) /\ f # 0
          BY <1>0, <1>2, <2>2, <4>2 DEF f, h
        <5> QED
          BY <1>2, <2>2, <4>2, <5>1 DEF EmptyLines
      <4> QED
        BY <3>2, <4>1, <4>2
    <3>4. BodyOf(t) = e + 2
      BY <1>6, <3>2, <3>3
    <3>5. e \in Nat
      BY <1>0, <1>2, <2>2
    <3> HIDE DEF e
    <3> QED
      BY <1>0, <3>2, <3>4, <3>5
  <2>4. CASE ~ (e < Len(t))
    <3>1. e = Len(t)
      BY <1>0, <1>2, <2>2, <2>4
    <3>2. ~ (e < Len(t)) /\ (e = h \/ (e = h + 1 /\ t[h] = CR))
      BY <2>2, <2>4 DEF HeaderEnds
    <3>3. e \in E
      <4> HIDE DEF e, h, f
      <4>1. CASE e = h
        BY <1>0, <1>2, <2>2, <4>1 DEF EmptyLines, f, h
      <4>2. CASE e = h + 1 /\ t[h] = CR
        <5>1. e - 1 = h /\ e - 2 = f /\ e > 2 /\ e \in 2 .. Len(t) /\ f # 0
          BY <1>0, <1>2, <2>2, <4>2 DEF f, h
        <5> QED
          BY <1>2, <2>2, <4>2, <5>1 DEF EmptyLines
      <4> QED
        BY <3>2, <4>1, <4>2
    <3> QED
      BY <1>7, <3>3
  <2> QED
    BY <2>3, <2>4
<1>8. CASE E # {}
  <2>1. m \in E /\ \A x \in E : m <= x
    <3> HIDE DEF E
    <3> QED
      BY <1>1, <1>8, MinLeast
  <2> HIDE DEF m
  <2>2. /\ m \in 2 .. Len(t) /\ t[m] = LF
        /\ t[m - 1] = LF \/ (m > 2 /\ t[m - 1] = CR /\ t[m - 2] = LF)
    BY <2>1 DEF EmptyLines
  <2>3. \A i \in 2 .. m : t[i - 1] = LF /\ t[i] = CR => i = Len(t) \/ t[i + 1] = LF
    BY <1>8 DEF NoCrAlone, m
  <2>4. f # 0
    <3>1. ASSUME f = 0 PROVE \A i \in 1 .. Len(t) : t[i] # LF
      BY <3>1, FindFirst DEF Units
    <3>2. m \in 1 .. Len(t)
      BY <1>0, <2>2
    <3> QED
      BY <2>2, <3>1, <3>2
  <2>5. f <= m - 1 /\ (t[m - 1] # LF => f <= m - 2)
    <3>1. ASSUME NEW i \in 1 .. Len(t), t[i] = LF PROVE f <= i
      BY <1>0, <1>2, <2>4, <3>1
    <3>2. m - 1 \in 1 .. Len(t) /\ (m > 2 => m - 2 \in 1 .. Len(t))
      BY <1>0, <2>2
    <3>3. t[m - 1] = LF => f <= m - 1
      BY <3>1, <3>2
    <3>4. t[m - 1] # LF => f <= m - 2
      BY <2>2, <3>1, <3>2
    <3> QED
      BY <1>0, <1>2, <2>2, <3>3, <3>4
  <2> HIDE DEF f, h, E
  \* What HeaderEnds holds below m makes an empty line, at m at the earliest.
  <2>6. ASSUME NEW x \in H, x < m
        PROVE  /\ x \in h .. Len(t) /\ t[x] = LF /\ x # h /\ ~ (x = h + 1 /\ t[h] = CR)
               /\ \/ t[x + 1] = LF /\ x = m - 1
                  \/ t[x + 1] = CR /\ x = m - 2
    <3>1. m \in 0 .. Len(t)
      BY <1>0, <2>2
    <3>2. /\ x \in h .. Len(t) /\ t[x] = LF
          /\ \/ x = h /\ x \in E
             \/ x = h + 1 /\ t[h] = CR /\ x \in E
             \/ t[x + 1] = LF /\ x + 1 \in E
             \/ t[x + 1] = CR /\ x + 1 = Len(t)
             \/ t[x + 1] = CR /\ x + 2 \in E /\ x + 2 <= Len(t)
      BY <2>3, <2>4, <2>6, <3>1, EndsMakeEmptyLines DEF h, E, f
    <3>3. x \in Nat /\ m \in Nat /\ x \notin E
      BY <1>0, <1>2, <2>1, <2>2, <2>6, <3>2
    <3>4. x # h /\ ~ (x = h + 1 /\ t[h] = CR)
      <4>1. ASSUME x = h PROVE x \in E
        BY <1>0, <1>2, <2>4, <3>2, <4>1 DEF EmptyLines, E
      <4>2. ASSUME x = h + 1, t[h] = CR PROVE x \in E
        <5>1. x - 1 = h /\ x - 2 = f /\ x > 2 /\ x \in 2 .. Len(t)
          BY <1>0, <1>2, <2>4, <3>2, <4>2
        <5> QED
          BY <1>2, <2>4, <3>2, <4>2, <5>1 DEF EmptyLines, E
      <4> QED
        BY <3>3, <4>1, <4>2
    <3>5. CASE t[x + 1] = LF /\ x + 1 \in E
      <4>1. m <= x + 1
        BY <2>1, <3>5
      <4>2. x = m - 1
        BY <2>6, <3>3, <4>1
      <4> QED
        BY <3>2, <3>4, <3>5, <4>2
    <3>6. CASE t[x + 1] = CR /\ x + 1 = Len(t)
      <4>1. x + 1 = m
        BY <1>0, <2>2, <2>6, <3>3, <3>6
      <4> QED
        BY <1>0, <2>2, <3>6, <4>1
    <3>7. CASE t[x + 1] = CR /\ x + 2 \in E
      <4>1. m <= x + 2
        BY <2>1, <3>7
      <4>2. x + 1 # m
        BY <1>0, <2>2, <3>7
      <4>3. x = m - 2
        BY <2>6, <3>3, <4>1, <4>2
      <4> QED
        BY <3>2, <3>4, <3>7, <4>3
    <3> QED
      BY <3>2, <3>3, <3>5, <3>6, <3>7
  <2>7. /\ m \in Nat /\ Len(t) \in Nat /\ h \in Nat /\ h <= m
    BY <1>0, <1>2, <2>2, <2>5
  <2>8. H # {} /\ e <= m
    <3>1. CASE m = h \/ (m = h + 1 /\ t[h] = CR)
      <4>1. m \in H
        BY <2>2, <2>7, <3>1 DEF HeaderEnds, h
      <4> HIDE DEF H, e
      <4> QED
        BY <1>5, <4>1
    <3>2. CASE m # h /\ t[m - 1] = LF
      <4>1. m - 1 \in h .. Len(t) /\ m - 1 < Len(t) /\ (m - 1) + 1 = m
        BY <2>2, <2>7, <3>2
      <4>2. m - 1 \in H
        BY <2>2, <3>2, <4>1 DEF HeaderEnds, h
      <4>3. e <= m - 1 /\ e \in H /\ H # {}
        BY <1>5, <4>2
      <4>4. e \in Nat
        BY <2>7, <4>3 DEF HeaderEnds, h
      <4> HIDE DEF H, e
      <4> QED
        BY <2>7, <4>3, <4>4
    <3>3. CASE m # h /\ t[m - 1] # LF /\ ~ (m = h + 1 /\ t[h] = CR)
      <4>1. m > 2 /\ t[m - 1] = CR /\ t[m - 2] = LF
        BY <2>2, <3>3
      <4>2. m # h + 1
        <5>1. m = h + 1 => m - 1 = h
          BY <2>7
        <5> QED
          BY <3>3, <4>1, <5>1
      <4>3. m - 2 \in h .. Len(t) /\ m - 2 < Len(t) /\ (m - 2) + 1 = m - 1
        BY <2>2, <2>7, <3>3, <4>2
      <4>4. m - 2 \in H
        BY <4>1, <4>3 DEF HeaderEnds, h
      <4>5. e <= m - 2 /\ e \in H /\ H # {}
        BY <1>5, <4>4
      <4>6. e \in Nat
        BY <2>7, <4>5 DEF HeaderEnds, h
      <4> HIDE DEF H, e
      <4> QED
        BY <2>7, <4>5, <4>6
    <3> QED
      BY <3>1, <3>2, <3>3
  <2>9. BodyOf(t) = m
    <3>1. e \in H /\ e <= m
      BY <1>5, <2>8
    <3>2. e \in h .. Len(t) /\ e \in Nat
      BY <2>7, <3>1 DEF HeaderEnds, h
    <3>3. CASE e < m
      <4>1. /\ ~ (e = h) /\ ~ (e = h + 1 /\ t[h] = CR)
            /\ \/ t[e + 1] = LF /\ e = m - 1
               \/ t[e + 1] = CR /\ e = m - 2
        BY <2>6, <3>1, <3>3
      <4> HIDE DEF e
      <4> QED
        BY <1>0, <1>6, <2>7, <4>1
    <3>4. CASE ~ (e < m)
      <4>1. e = m
        BY <2>7, <3>1, <3>2, <3>4
      <4>2. m = h \/ (m = h + 1 /\ t[h] = CR)
        <5>1. ASSUME m # h, t[m - 1] = LF PROVE FALSE
          <6>1. m - 1 \in h .. Len(t) /\ m - 1 < Len(t) /\ (m - 1) + 1 = m
            BY <2>2, <2>7, <5>1
          <6>2. m - 1 \in H
            BY <2>2, <5>1, <6>1 DEF HeaderEnds, h
          <6>3. e <= m - 1
            BY <1>5, <6>2
          <6> QED
            BY <2>7, <4>1, <6>3
        <5>2. ASSUME m # h, m # h + 1, t[m - 1] # LF PROVE FALSE
          <6>1. m > 2 /\ t[m - 1] = CR /\ t[m - 2] = LF
            BY <2>2, <5>2
          <6>2. m - 2 \in h .. Len(t) /\ m - 2 < Len(t) /\ (m - 2) + 1 = m - 1
            BY <2>2, <2>7, <5>2
          <6>3. m - 2 \in H
            BY <6>1, <6>2 DEF HeaderEnds, h
          <6>4. e <= m - 2
            BY <1>5, <6>3
          <6> QED
            BY <2>7, <4>1, <6>4
        <5>3. m = h + 1 /\ t[m - 1] # LF => t[h] = CR
          <6>1. m = h + 1 => m - 1 = h
            BY <2>7
          <6> QED
            BY <2>2, <6>1
        <5> QED
          BY <5>1, <5>2, <5>3
      <4> QED
        BY <1>6, <4>1, <4>2
    <3> QED
      BY <3>3, <3>4
  <2>10. ContentOf(t) = n
    <3>1. ~ (m > Len(t)) /\ h = f + 1
      BY <1>2, <2>2, <2>7
    <3> QED
      BY <2>9, <3>1 DEF ContentOf, h, f
  <2>11. n \in Nat \cup {-1}
    <3>1. f + 1 \in Nat \ {0} /\ m - 1 \in Int /\ m - 1 <= Len(t)
      BY <1>0, <1>2, <2>2
    <3>2. SubSeq(t, f + 1, m - 1) \in Units
      BY <3>1, Part
    <3> QED
      BY <3>2, ContentLengthIs
  <2> HIDE DEF n
  <2>12. (n > Len(t) - m \/ m > Len(t)) <=> Len(t) < m + length
    BY <2>2, <2>7, <2>11
  <2>13. h # 1 /\ h - 1 = f
    BY <1>2, <2>4
  <2> QED
    BY <1>3, <1>4, <1>8, <2>8, <2>9, <2>10, <2>12, <2>13 DEF E
<1> QED
  BY <1>7, <1>8

\* http_proc takes the headers apart up to the empty line in front of the body that http_check
\* found (gr_http.c:878): the two read the same headers, though each looks for their end in a way
\* of its own.
THEOREM HeadersEndAtBody ==
  ASSUME NEW t \in Units, NoCrAlone(t), EmptyLines(t) # {}
  PROVE  LET m     == Min(EmptyLines(t))
             first == Find(t, LF) + 1
             empty == IF t[m - 1] = LF THEN m ELSE m - 1
         IN  Lines(t, first) = Pieces(SubSeq(t, first, empty - 1), LF)
<1> DEFINE E == EmptyLines(t)
           m == Min(E)
           f == Find(t, LF)
           h == f + 1
           empty == IF t[m - 1] = LF THEN m ELSE m - 1
           S == LineStops(t, h)
<1>0. Len(t) \in Nat /\ CR # LF
  BY DEF Units, CR, LF
<1>1. m \in E /\ \A x \in E : m <= x
  <2>1. E \subseteq Nat
    BY <1>0 DEF EmptyLines
  <2> HIDE DEF E
  <2>2. E # {}
    BY DEF E
  <2> QED
    BY <2>1, <2>2, MinLeast
<1>2. \A i \in 2 .. m : t[i - 1] = LF /\ t[i] = CR => i = Len(t) \/ t[i + 1] = LF
  BY DEF NoCrAlone
<1> HIDE DEF m
<1>3. /\ m \in 2 .. Len(t) /\ t[m] = LF
      /\ t[m - 1] = LF \/ (m > 2 /\ t[m - 1] = CR /\ t[m - 2] = LF)
  BY <1>1 DEF EmptyLines
<1>4. /\ empty \in 2 .. m /\ t[empty - 1] = LF /\ t[empty] \in {CR, LF}
      /\ empty = m => t[m - 1] = LF
  <2>1. m \in Nat /\ m >= 2 /\ (m - 1) - 1 = m - 2
    BY <1>0, <1>3
  <2>2. CASE t[m - 1] = LF
    BY <1>3, <2>1, <2>2
  <2>3. CASE t[m - 1] # LF
    <3>1. empty = m - 1 /\ m > 2 /\ t[m - 1] = CR /\ t[m - 2] = LF
      BY <1>3, <2>3
    <3> HIDE DEF empty
    <3> QED
      BY <2>1, <3>1
  <2> QED
    BY <2>2, <2>3
<1> HIDE DEF empty
<1>5. /\ f \in 1 .. Len(t) /\ t[f] = LF /\ f <= empty - 1
      /\ h \in Nat \ {0} /\ h - 1 = f
  <2>1. /\ f \in 0 .. Len(t)
        /\ f # 0 => t[f] = LF /\ \A i \in 1 .. f - 1 : t[i] # LF
        /\ f = 0 => \A i \in 1 .. Len(t) : t[i] # LF
    BY FindFirst DEF Units
  <2> HIDE DEF f
  <2>2. empty - 1 \in 1 .. Len(t)
    BY <1>0, <1>3, <1>4
  <2>3. f # 0
    BY <1>4, <2>1, <2>2
  <2>4. ~ (empty - 1 \in 1 .. f - 1)
    BY <1>4, <2>1, <2>3
  <2>5. empty - 1 \in Nat /\ empty - 1 >= 1
    BY <1>0, <2>2
  <2>6. f \in Nat /\ f >= 1 /\ f <= Len(t) /\ f <= empty - 1
    BY <1>0, <2>1, <2>3, <2>4, <2>5
  <2> QED
    BY <1>0, <2>1, <2>3, <2>6
<1> HIDE DEF f, h, E, S
<1>6. /\ Lines(t, h) = Pieces(SubSeq(t, h, Min(S) - 1), LF)
      /\ \A x : x \in S <=> /\ x \in Nat \ {0}
                            /\ x = h \/ (x - 1 \in h .. Len(t) /\ t[x - 1] = LF)
                            /\ x > Len(t) \/ t[x] \in {CR, LF}
  BY <1>5, LinesAre DEF S
<1>7. empty \in S /\ S \subseteq Nat
  <2>1. empty = h \/ empty - 1 \in h .. Len(t)
    BY <1>0, <1>3, <1>4, <1>5
  <2>2. empty \in Nat \ {0}
    BY <1>4
  <2> QED
    BY <1>4, <1>6, <2>1, <2>2
<1>8. ASSUME NEW x \in S PROVE empty <= x
  <2> SUFFICES ASSUME x < empty PROVE FALSE
    BY <1>4, <1>6
  <2>1. /\ x \in 2 .. m - 1 /\ x \in 2 .. Len(t) /\ x + 1 \in 2 .. Len(t) /\ x + 1 > 2
        /\ (x + 1) - 1 = x /\ (x + 1) - 2 = x - 1 /\ x # Len(t)
    <3>1. x \in Nat /\ (x = h \/ x - 1 >= h)
      BY <1>5, <1>6
    <3> QED
      BY <1>0, <1>3, <1>4, <1>5, <3>1
  <2>2. t[x - 1] = LF
    BY <1>5, <1>6
  <2>3. t[x] \in {CR, LF}
    <3>1. ~ (x > Len(t))
      BY <1>0, <2>1
    <3> QED
      BY <1>6, <3>1
  <2>4. CASE t[x] = LF
    <3>1. x \in E
      BY <2>1, <2>2, <2>4 DEF E, EmptyLines
    <3>2. m <= x
      BY <1>1, <3>1
    <3> QED
      BY <1>3, <2>1, <3>2
  <2>5. CASE t[x] = CR
    <3>1. t[x + 1] = LF
      <4>1. x \in 2 .. m
        BY <1>3, <2>1
      <4> QED
        BY <1>2, <2>1, <2>2, <2>5, <4>1
    <3>2. x + 1 \in E
      BY <2>1, <2>2, <2>5, <3>1 DEF E, EmptyLines
    <3>3. m <= x + 1
      BY <1>1, <3>2
    <3>4. empty = m /\ x = m - 1
      BY <1>3, <1>4, <2>1, <3>3
    <3> QED
      BY <1>0, <1>4, <2>5, <3>4
  <2> QED
    BY <2>3, <2>4, <2>5
<1>9. Min(S) = empty
  BY <1>7, <1>8, MinIs
<1> QED
  BY <1>6, <1>9 DEF h, f, empty, m, E

-----------------------------------------------------------------------------
(* Pieces, by where they lie in the text                                   *)

\* How many of T are below i
Rank(T, i) == Cardinality({j \in T : j < i})

\* The numbers of a finite set in their order have the ranks 0, 1, 2, ...: each its own.
LEMMA Ranks ==
  ASSUME NEW m \in Nat, NEW T, T \subseteq 0 .. m
  PROVE  /\ IsFiniteSet(T) /\ Cardinality(T) \in Nat
         /\ \A i \in T : Rank(T, i) \in 0 .. Cardinality(T) - 1
         /\ \A i, j \in T : i < j => Rank(T, i) < Rank(T, j)
         /\ \A k \in 1 .. Cardinality(T) : \E i \in T : Rank(T, i) = k - 1
<1> DEFINE Less(i) == {j \in T : j < i}
           n == Cardinality(T)
<1>0. \A j \in T : j \in Nat /\ j <= m
  OBVIOUS
<1>1. IsFiniteSet(T) /\ n \in Nat
  <2>1. IsFiniteSet(0 .. m)
    BY FS_Interval
  <2> QED
    BY <2>1, FS_Subset, FS_CardinalityType
<1>2. \A i : /\ IsFiniteSet(Less(i)) /\ Rank(T, i) = Cardinality(Less(i)) /\ Rank(T, i) \in Nat
             /\ Rank(T, i) <= n
  <2> SUFFICES ASSUME NEW i
               PROVE  /\ IsFiniteSet(Less(i)) /\ Rank(T, i) = Cardinality(Less(i))
                      /\ Rank(T, i) \in Nat /\ Rank(T, i) <= n
    OBVIOUS
  <2>1. Less(i) \subseteq T
    OBVIOUS
  <2>2. Rank(T, i) = Cardinality(Less(i))
    BY DEF Rank
  <2> HIDE DEF Less
  <2> QED
    BY <1>1, <2>1, <2>2, FS_Subset, FS_CardinalityType
<1>3. ASSUME NEW i \in T PROVE /\ i \notin Less(i) /\ IsFiniteSet(Less(i) \cup {i})
                              /\ Cardinality(Less(i) \cup {i}) = Rank(T, i) + 1
  <2>1. i \notin Less(i)
    BY <1>1
  <2> HIDE DEF Less
  <2> QED
    BY <1>2, <2>1, FS_AddElement
<1>4. ASSUME NEW i \in T PROVE Rank(T, i) < n
  <2>1. Less(i) \cup {i} \subseteq T
    BY Zenon
  <2> HIDE DEF Less, n
  <2>2. Rank(T, i) + 1 <= n
    <3>1. Cardinality(Less(i) \cup {i}) <= Cardinality(T)
      BY <1>1, <2>1, FS_Subset
    <3> QED
      BY <1>3, <3>1 DEF n
  <2> QED
    BY <1>1, <1>2, <2>2
<1>5. ASSUME NEW i \in T, NEW j \in T, i < j PROVE Rank(T, i) < Rank(T, j)
  <2>1. Less(i) \cup {i} \subseteq Less(j)
    <3>1. i \in Nat /\ j \in Nat
      BY <1>0
    <3>2. ASSUME NEW x \in Less(i) \cup {i} PROVE x \in T /\ x < j
      <4>1. x \in T /\ (x < i \/ x = i)
        BY Zenon
      <4>2. x \in Nat
        BY <1>0, <4>1
      <4> HIDE DEF Less
      <4> QED
        BY <1>5, <3>1, <4>1, <4>2
    <3> QED
      BY <3>2
  <2> HIDE DEF Less
  <2>2. Rank(T, i) + 1 <= Rank(T, j)
    BY <1>2, <1>3, <2>1, FS_Subset
  <2> QED
    BY <1>2, <2>2
<1>6. ASSUME NEW k \in 1 .. n PROVE \E i \in T : Rank(T, i) = k - 1
  <2> DEFINE U == {x \in 0 .. m + 1 : Rank(T, x) >= k}
  <2>1. m + 1 \in U
    <3>1. Less(m + 1) = T
      <4>1. \A j \in T : j < m + 1
        BY <1>0
      <4> QED
        BY <4>1
    <3>2. Rank(T, m + 1) = n
      BY <3>1 DEF Rank
    <3> HIDE DEF n, Less
    <3> QED
      BY <1>1, <3>2
  <2>2. PICK x \in U : \A y \in U : x <= y
    <3>1. U \subseteq Nat
      OBVIOUS
    <3> HIDE DEF U
    <3> QED
      BY <2>1, <3>1, Smallest
  <2>3. x # 0
    <3>1. Less(0) = {}
      <4>1. \A j \in T : ~ (j < 0)
        BY <1>0
      <4> QED
        BY <4>1
    <3>2. Rank(T, 0) = 0
      BY <3>1, FS_EmptySet DEF Rank
    <3>3. ~ (0 >= k)
      BY <1>1
    <3> QED
      BY <3>2, <3>3
  <2>4. x \in 1 .. m + 1 /\ x - 1 \in 0 .. m + 1 /\ x - 1 \notin U /\ Rank(T, x) >= k
    <3>1. x \in 1 .. m + 1 /\ x - 1 \in 0 .. m + 1 /\ ~ (x <= x - 1)
      BY <2>3
    <3> QED
      BY <2>2, <3>1
  <2>5. ~ (Rank(T, x - 1) >= k)
    BY <2>4
  <2> HIDE DEF U
  <2>6. x - 1 \in T
    <3> SUFFICES ASSUME x - 1 \notin T PROVE FALSE
      OBVIOUS
    <3>1. Less(x) = Less(x - 1)
      <4>1. \A j \in T : j < x <=> j < x - 1
        <5> SUFFICES ASSUME NEW j \in T PROVE j < x <=> j < x - 1
          OBVIOUS
        <5>1. j \in Nat /\ j # x - 1 /\ x \in Nat
          BY <1>0, <2>4
        <5> QED
          BY <5>1
      <4> QED
        BY <4>1
    <3>2. Rank(T, x) = Rank(T, x - 1)
      BY <3>1 DEF Rank
    <3> QED
      BY <2>4, <2>5, <3>2
  <2>7. Less(x) = Less(x - 1) \cup {x - 1}
    <3>1. \A j \in T : j < x <=> (j < x - 1 \/ j = x - 1)
      <4> SUFFICES ASSUME NEW j \in T PROVE j < x <=> (j < x - 1 \/ j = x - 1)
        OBVIOUS
      <4>1. j \in Nat /\ x \in Nat
        BY <1>0, <2>4
      <4> QED
        BY <4>1
    <3>2. \A j : j \in Less(x) <=> (j \in T /\ j < x)
      BY Zenon
    <3>3. \A j : j \in Less(x - 1) <=> (j \in T /\ j < x - 1)
      BY Zenon
    <3> HIDE DEF Less
    <3> QED
      BY <2>6, <3>1, <3>2, <3>3
  <2> HIDE DEF Less
  <2>8. Rank(T, x) = Rank(T, x - 1) + 1
    BY <1>2, <1>3, <2>6, <2>7
  <2> DEFINE r == Rank(T, x - 1)
  <2>9. r \in Nat /\ r + 1 >= k /\ ~ (r >= k) /\ k \in Nat
    BY <1>1, <1>2, <2>4, <2>5, <2>8
  <2>10. r = k - 1
    <3> HIDE DEF r
    <3> QED
      BY <2>9
  <2> QED
    BY <2>6, <2>10
<1> HIDE DEF n
<1>7. ASSUME NEW i \in T PROVE Rank(T, i) \in 0 .. n - 1
  <2>1. Rank(T, i) \in Nat /\ Rank(T, i) < n /\ n \in Nat
    BY <1>1, <1>2, <1>4
  <2> DEFINE r == Rank(T, i)
  <2> HIDE DEF r
  <2>2. r \in Nat /\ r < n /\ n \in Nat
    BY <2>1 DEF r
  <2>3. r \in 0 .. n - 1
    BY <2>2
  <2> QED
    BY <2>3 DEF r
<1> QED
  BY <1>1, <1>5, <1>6, <1>7 DEF n

\* ps is s cut at every sep, behind b[1], b[2], ...: none is in a piece, and nothing is left out
\* or in two pieces.
CutAt(s, sep, ps, b) ==
  /\ Len(ps) \in Nat \ {0} /\ ps = [k \in 1 .. Len(ps) |-> ps[k]]
  /\ b[0] = 0 /\ b[Len(ps)] = IF s[Len(s)] = sep THEN Len(s) ELSE Len(s) + 1
  /\ \A k \in 1 .. Len(ps) :
       /\ b[k - 1] \in Nat /\ b[k] \in Nat /\ b[k - 1] < b[k]
       /\ ps[k] = SubSeq(s, b[k - 1] + 1, b[k] - 1)
       /\ \A i \in b[k - 1] + 1 .. b[k] - 1 : s[i] # sep
       /\ b[k] <= Len(s) => s[b[k]] = sep

\* The pieces are such a cut.
LEMMA PiecesCut ==
  ASSUME NEW s \in Units, s # <<>>, NEW sep
  PROVE  \E b : CutAt(s, sep, Pieces(s, sep), b)
<1> DEFINE l == Len(s)
           T == {0} \cup {i \in DOMAIN s : s[i] = sep /\ i < Len(s)}
           n == Cardinality(T)
           from(k) == CHOOSE i \in T : Cardinality({j \in T : j < i}) = k - 1
           to(k) == SelectInSubSeq(s, from(k) + 1, Len(s), LAMBDA x : x = sep)
           piece(k) == IF to(k) = 0 THEN After(s, from(k)) ELSE SubSeq(s, from(k) + 1, to(k) - 1)
           ps == [k \in 1 .. n |-> piece(k)]
           end == IF s[l] = sep THEN l ELSE l + 1
           b == [k \in 0 .. n |-> IF k = n THEN end ELSE from(k + 1)]
<1>0. l \in Nat \ {0} /\ DOMAIN s = 1 .. l
  BY EmptySeq DEF Units
<1>1. Pieces(s, sep) = ps
  BY Zenon DEF Pieces
<1>2. \A i : i \in T <=> i = 0 \/ (i \in 1 .. l /\ s[i] = sep /\ i < l)
  BY <1>0
<1>3. T \subseteq 0 .. l
  BY <1>0
<1> HIDE DEF T
<1>4. /\ IsFiniteSet(T) /\ n \in Nat
      /\ \A i \in T : Rank(T, i) \in 0 .. n - 1
      /\ \A i, j \in T : i < j => Rank(T, i) < Rank(T, j)
      /\ \A k \in 1 .. n : \E i \in T : Rank(T, i) = k - 1
  BY <1>0, <1>3, Ranks
<1>5. n # 0
  BY <1>2, <1>4, FS_EmptySet
<1>6. ASSUME NEW k \in 1 .. n PROVE from(k) \in T /\ Rank(T, from(k)) = k - 1
  <2>1. \E i \in T : Cardinality({j \in T : j < i}) = k - 1
    BY <1>4 DEF Rank
  <2>2. from(k) \in T /\ Cardinality({j \in T : j < from(k)}) = k - 1
    BY <2>1
  <2> HIDE DEF from
  <2> QED
    BY <2>2 DEF Rank
<1> HIDE DEF n, from
<1>7. ASSUME NEW k \in 1 .. n PROVE from(k) \in 0 .. l - 1 /\ from(k) < l
  <2>1. from(k) \in T
    BY <1>6
  <2> HIDE DEF l
  <2> QED
    BY <1>0, <1>2, <2>1
<1>8. from(1) = 0
  <2>1. 0 \in T /\ 1 \in 1 .. n
    BY <1>2, <1>4, <1>5
  <2>2. from(1) \in T /\ Rank(T, from(1)) = 0 /\ from(1) \in 0 .. l - 1
    BY <1>6, <1>7, <2>1
  <2>3. Rank(T, 0) \in Nat /\ ~ (Rank(T, 0) < 0)
    BY <1>4, <2>1
  <2>4. ~ (0 < from(1))
    BY <1>4, <2>1, <2>2, <2>3
  <2> QED
    BY <1>0, <2>2, <2>4
<1>9. ASSUME NEW k \in 1 .. n - 1
      PROVE  /\ k \in 1 .. n /\ k + 1 \in 1 .. n /\ from(k) < from(k + 1)
             /\ s[from(k + 1)] = sep /\ from(k + 1) \in 1 .. l - 1
             /\ \A i \in T : ~ (from(k) < i /\ i < from(k + 1))
  <2>1. k \in 1 .. n /\ k + 1 \in 1 .. n /\ (k + 1) - 1 = k
    BY <1>4
  <2>2. /\ from(k) \in T /\ Rank(T, from(k)) = k - 1 /\ from(k) \in 0 .. l - 1
        /\ from(k + 1) \in T /\ Rank(T, from(k + 1)) = k /\ from(k + 1) \in 0 .. l - 1
    BY <1>6, <1>7, <2>1
  <2> DEFINE x == from(k)
             y == from(k + 1)
  <2> HIDE DEF x, y
  <2>3. x < y
    <3>1. x # y
      <4>1. k - 1 # k
        BY <1>4
      <4> QED
        BY <2>2, <4>1 DEF x, y
    <3>2. ~ (y < x)
      <4>1. ASSUME y < x PROVE k < k - 1
        BY <1>4, <2>2, <4>1 DEF x, y
      <4>2. ~ (k < k - 1)
        BY <1>4
      <4> QED
        BY <4>1, <4>2
    <3> QED
      BY <1>0, <2>2, <3>1, <3>2 DEF x, y
  <2>4. ASSUME NEW i \in T, x < i, i < y PROVE FALSE
    <3>1. k - 1 < Rank(T, i) /\ Rank(T, i) < k
      BY <1>4, <2>2, <2>4 DEF x, y
    <3>2. Rank(T, i) \in Int
      BY <1>4
    <3> QED
      BY <1>4, <3>1, <3>2
  <2>5. y \in 1 .. l - 1
    BY <1>0, <2>2, <2>3 DEF x, y
  <2>6. s[y] = sep
    <3>1. y # 0
      BY <2>5
    <3> QED
      BY <1>2, <2>2, <3>1 DEF y
  <2> QED
    BY <2>1, <2>3, <2>4, <2>5, <2>6 DEF x, y
<1>10. \A i \in T : ~ (from(n) < i)
  <2> SUFFICES ASSUME NEW i \in T, from(n) < i PROVE FALSE
    OBVIOUS
  <2>1. n \in 1 .. n
    BY <1>4, <1>5
  <2>2. from(n) \in T /\ Rank(T, from(n)) = n - 1
    BY <1>6, <2>1
  <2>3. n - 1 < Rank(T, i) /\ Rank(T, i) \in 0 .. n - 1
    BY <1>4, <2>2
  <2> QED
    BY <1>4, <2>3
<1>11. ASSUME NEW k \in 1 .. n
       PROVE  to(k) = LET I == {i \in from(k) + 1 .. l : s[i] = sep}
                      IN  IF I # {} THEN Min(I) ELSE 0
  BY DEF SelectInSubSeq
<1> HIDE DEF to
<1>12. ASSUME NEW k \in 1 .. n - 1
       PROVE  /\ to(k) = from(k + 1) /\ to(k) # 0
              /\ \A i \in from(k) + 1 .. from(k + 1) - 1 : s[i] # sep
  <2> DEFINE x == from(k)
             y == from(k + 1)
             I == {i \in x + 1 .. l : s[i] = sep}
  <2>1. /\ k \in 1 .. n /\ k + 1 \in 1 .. n /\ x < y /\ s[y] = sep
        /\ y \in 1 .. l - 1 /\ x \in 0 .. l - 1
        /\ \A i \in T : ~ (x < i /\ i < y)
    BY <1>7, <1>9
  <2> HIDE DEF x, y
  <2>2. y \in I /\ I \subseteq Nat
    BY <1>0, <2>1
  <2>3. ASSUME NEW i \in x + 1 .. y - 1 PROVE s[i] # sep
    <3>1. i \in 1 .. l /\ i < l /\ x < i /\ i < y
      BY <1>0, <2>1
    <3> QED
      BY <1>2, <2>1, <3>1
  <2>4. ASSUME NEW i \in I PROVE y <= i
    <3> SUFFICES ASSUME ~ (y <= i) PROVE FALSE
      OBVIOUS
    <3>1. i \in x + 1 .. y - 1 /\ s[i] = sep
      BY <1>0, <2>1
    <3> QED
      BY <2>3, <3>1
  <2>5. to(k) = IF I # {} THEN Min(I) ELSE 0
    BY <1>11, <2>1 DEF x
  <2> HIDE DEF I
  <2>6. Min(I) = y
    BY <2>2, <2>4, MinIs
  <2>7. to(k) = y /\ y # 0
    BY <2>1, <2>2, <2>5, <2>6
  <2> QED
    BY <2>3, <2>7 DEF x, y
<1>13. /\ to(n) = IF s[l] = sep THEN l ELSE 0
       /\ \A i \in from(n) + 1 .. end - 1 : s[i] # sep
  <2> DEFINE x == from(n)
             I == {i \in x + 1 .. l : s[i] = sep}
  <2>1. n \in 1 .. n /\ x \in 0 .. l - 1 /\ \A i \in T : ~ (x < i)
    BY <1>4, <1>5, <1>7, <1>10
  <2> HIDE DEF x
  <2>2. ASSUME NEW i \in x + 1 .. l, s[i] = sep PROVE i = l
    <3>1. i \in 1 .. l /\ x < i
      BY <1>0, <2>1
    <3>2. i \notin T
      BY <2>1, <3>1
    <3>3. ~ (i < l)
      BY <1>2, <2>2, <3>1, <3>2
    <3>4. l \in Nat
      BY <1>0
    <3> HIDE DEF l
    <3> QED
      BY <3>1, <3>3, <3>4
  <2>3. to(n) = IF I # {} THEN Min(I) ELSE 0
    BY <1>11, <2>1 DEF x
  <2>4. I \subseteq Nat /\ l \in x + 1 .. l
    BY <1>0, <2>1
  <2>5. CASE s[l] = sep
    <3>1. l \in I /\ \A i \in I : l <= i
      <4>1. l <= l
        BY <1>0
      <4>2. \A i \in I : i = l
        BY <2>2
      <4>3. l \in I
        BY <2>4, <2>5
      <4> QED
        BY <4>1, <4>2, <4>3
    <3>2. \A i \in x + 1 .. l - 1 : s[i] # sep
      <4>1. ASSUME NEW i \in x + 1 .. l - 1 PROVE i \in x + 1 .. l /\ i # l
        <5>1. x \in Nat /\ l \in Nat
          BY <1>0, <2>1
        <5> HIDE DEF l
        <5> QED
          BY <5>1
      <4>2. ASSUME NEW i \in x + 1 .. l - 1 PROVE s[i] # sep
        BY <2>2, <4>1, Zenon
      <4> QED
        BY <4>2
    <3> HIDE DEF I
    <3>3. Min(I) = l /\ I # {}
      BY <2>4, <3>1, MinIs
    <3> QED
      BY <2>3, <2>5, <3>2, <3>3 DEF x
  <2>6. CASE s[l] # sep
    <3>1. \A i \in x + 1 .. l : s[i] # sep
      BY <2>2, <2>6
    <3>2. I = {}
      BY <3>1
    <3>3. (l + 1) - 1 = l
      BY <1>0
    <3> HIDE DEF I
    <3> QED
      BY <2>3, <2>6, <3>1, <3>2, <3>3 DEF x
  <2> QED
    BY <2>5, <2>6
<1>14. /\ b[0] = 0 /\ b[n] = end /\ ps = [k \in 1 .. n |-> ps[k]] /\ Len(ps) = n
       /\ \A k \in 1 .. n : ps[k] = piece(k)
  <2>1. 0 \in 0 .. n /\ n \in 0 .. n /\ 0 # n /\ 0 + 1 = 1
    BY <1>4, <1>5
  <2>2. b[0] = from(1) /\ b[n] = end
    <3> HIDE DEF end
    <3> QED
      BY <2>1
  <2>3. ps = [k \in 1 .. n |-> ps[k]] /\ \A k \in 1 .. n : ps[k] = piece(k)
    <3> HIDE DEF piece
    <3> QED
      OBVIOUS
  <2>4. Len(ps) = n
    <3> HIDE DEF piece
    <3> QED
      BY <1>4
  <2> QED
    BY <1>8, <2>2, <2>3, <2>4
<1>15. end \in Nat /\ end \in {l, l + 1} /\ (end <= l => s[end] = sep)
  BY <1>0
<1>16. ASSUME NEW k \in 1 .. n
       PROVE  /\ b[k - 1] \in Nat /\ b[k] \in Nat /\ b[k - 1] < b[k]
              /\ ps[k] = SubSeq(s, b[k - 1] + 1, b[k] - 1)
              /\ \A i \in b[k - 1] + 1 .. b[k] - 1 : s[i] # sep
              /\ b[k] <= l => s[b[k]] = sep
  <2>1. b[k - 1] = from(k)
    <3>1. k - 1 \in 0 .. n /\ k - 1 # n /\ (k - 1) + 1 = k
      BY <1>4
    <3> HIDE DEF end
    <3> QED
      BY <3>1
  <2>2. from(k) \in 0 .. l - 1 /\ from(k) \in Nat
    BY <1>0, <1>7
  <2>3. CASE k # n
    <3>1. k \in 1 .. n - 1 /\ k \in 0 .. n
      BY <1>4, <2>3
    <3>2. b[k] = from(k + 1)
      <4> HIDE DEF end
      <4> QED
        BY <2>3, <3>1
    <3>3. /\ from(k) < from(k + 1) /\ s[from(k + 1)] = sep /\ from(k + 1) \in 1 .. l - 1
          /\ to(k) = from(k + 1) /\ to(k) # 0
          /\ \A i \in from(k) + 1 .. from(k + 1) - 1 : s[i] # sep
      BY <1>9, <1>12, <3>1
    <3>4. from(k + 1) \in Nat
      BY <1>0, <3>3
    <3>5. ps[k] = SubSeq(s, from(k) + 1, from(k + 1) - 1)
      BY <1>14, <3>3
    <3> HIDE DEF b, ps
    <3> QED
      BY <2>1, <2>2, <3>2, <3>3, <3>4, <3>5
  <2>4. CASE k = n
    <3>1. b[k] = end /\ to(k) = IF s[l] = sep THEN l ELSE 0
      BY <1>13, <1>14, <2>4
    <3>2. \A i \in from(k) + 1 .. end - 1 : s[i] # sep
      BY <1>13, <2>4
    <3>3. from(k) < end
      BY <1>0, <1>15, <2>2
    <3>4. ps[k] = SubSeq(s, from(k) + 1, end - 1)
      <4>1. ps[k] = piece(k) /\ l # 0 /\ (l + 1) - 1 = l
        BY <1>0, <1>14
      <4>2. After(s, from(k)) = SubSeq(s, from(k) + 1, l)
        BY DEF After
      <4> HIDE DEF ps, l
      <4>3. CASE s[l] = sep
        BY <3>1, <4>1, <4>3
      <4>4. CASE s[l] # sep
        BY <3>1, <4>1, <4>2, <4>4
      <4> QED
        BY <4>3, <4>4
    <3> HIDE DEF b, ps, end
    <3> QED
      BY <1>15, <2>1, <2>2, <3>1, <3>2, <3>3, <3>4
  <2> QED
    BY <2>3, <2>4
<1> HIDE DEF ps, b
<1>17. CutAt(s, sep, ps, b)
  BY <1>4, <1>5, <1>14, <1>16 DEF CutAt, l, end
<1> QED
  BY <1>1, <1>17

\* There is no other cut.
LEMMA OneCut ==
  ASSUME NEW s \in Units, s # <<>>, NEW sep, NEW ps, NEW qs, NEW b, NEW c,
         CutAt(s, sep, ps, b), CutAt(s, sep, qs, c)
  PROVE  ps = qs
<1> DEFINE l == Len(s)
           n == Len(ps)
           o == Len(qs)
           end == IF s[l] = sep THEN l ELSE l + 1
<1>1. /\ n \in Nat \ {0} /\ ps = [k \in 1 .. n |-> ps[k]] /\ b[0] = 0 /\ b[n] = end
      /\ \A k \in 1 .. n :
           /\ b[k - 1] \in Nat /\ b[k] \in Nat /\ b[k - 1] < b[k]
           /\ ps[k] = SubSeq(s, b[k - 1] + 1, b[k] - 1)
           /\ \A i \in b[k - 1] + 1 .. b[k] - 1 : s[i] # sep
           /\ b[k] <= l => s[b[k]] = sep
  BY DEF CutAt
<1>2. /\ o \in Nat \ {0} /\ qs = [k \in 1 .. o |-> qs[k]] /\ c[0] = 0 /\ c[o] = end
      /\ \A k \in 1 .. o :
           /\ c[k - 1] \in Nat /\ c[k] \in Nat /\ c[k - 1] < c[k]
           /\ qs[k] = SubSeq(s, c[k - 1] + 1, c[k] - 1)
           /\ \A i \in c[k - 1] + 1 .. c[k] - 1 : s[i] # sep
           /\ c[k] <= l => s[c[k]] = sep
  BY DEF CutAt
<1>3. l \in Nat /\ end \in Nat /\ end <= l + 1
  BY DEF Units
<1> HIDE DEF l, n, o, end
<1>4. ASSUME NEW a, NEW m \in Nat \ {0}, a[m] = end,
             \A k \in 1 .. m : a[k - 1] \in Nat /\ a[k] \in Nat /\ a[k - 1] < a[k],
             NEW k \in 0 .. m
      PROVE  a[k] \in Nat /\ a[k] <= end /\ (k < m => a[k] < end)
  <2> DEFINE T == {x \in Nat : x <= m => /\ a[m - x] \in Nat /\ a[m - x] <= end
                                         /\ x # 0 => a[m - x] < end}
  <2>1. 0 \in T
    <3>1. m - 0 = m
      BY <1>4
    <3> QED
      BY <1>3, <1>4, <3>1
  <2>2. ASSUME NEW x \in 1 .. m, x - 1 \in T PROVE x \in T
    <3>1. x \in Nat /\ m - (x - 1) \in 1 .. m /\ (m - (x - 1)) - 1 = m - x /\ x - 1 <= m
      OBVIOUS
    <3>2. a[m - x] \in Nat /\ a[m - (x - 1)] \in Nat /\ a[m - x] < a[m - (x - 1)]
      BY <1>4, <3>1
    <3>3. a[m - (x - 1)] <= end
      BY <2>2, <3>1
    <3> DEFINE u == a[m - x]
               v == a[m - (x - 1)]
    <3>4. u \in Nat /\ u < end
      <4> HIDE DEF u, v
      <4>1. u \in Nat /\ v \in Nat /\ u < v /\ v <= end
        BY <3>2, <3>3 DEF u, v
      <4> QED
        BY <1>3, <4>1
    <3>5. u <= end
      <4> HIDE DEF u
      <4> QED
        BY <1>3, <3>4
    <3> QED
      BY <3>1, <3>4, <3>5
  <2>3. m - k \in Nat /\ m - (m - k) = k /\ m - k <= m /\ (k < m => m - k # 0)
    OBVIOUS
  <2>4. m - k \in T
    <3>1. \A x \in 1 .. m - k : x - 1 \in T => x \in T
      BY <2>2, <2>3
    <3> HIDE DEF T
    <3> QED
      BY <2>1, <2>3, <3>1, Induction
  <2> QED
    BY <2>3, <2>4
<1>5. \A k \in 0 .. n : b[k] \in Nat /\ b[k] <= end /\ (k < n => b[k] < end)
  BY <1>1, <1>4
<1>6. \A k \in 0 .. o : c[k] \in Nat /\ c[k] <= end /\ (k < o => c[k] < end)
  BY <1>2, <1>4
<1>7. ASSUME NEW k \in Nat, k <= n, k <= o PROVE b[k] = c[k]
  <2> DEFINE T == {x \in Nat : b[x] = c[x]}
  <2>1. 0 \in T
    BY <1>1, <1>2
  <2>2. ASSUME NEW x \in 1 .. k, x - 1 \in T PROVE x \in T
    <3>1. x \in 1 .. n /\ x \in 1 .. o /\ x \in 0 .. n /\ x \in 0 .. o
      BY <1>1, <1>2, <1>7
    <3> DEFINE p == b[x - 1]
               u == b[x]
               v == c[x]
    <3>2. /\ p \in Nat /\ u \in Nat /\ p < u /\ u <= end
          /\ \A i \in p + 1 .. u - 1 : s[i] # sep
          /\ u <= l => s[u] = sep
      BY <1>1, <1>5, <3>1
    <3>3. p = c[x - 1]
      BY <2>2
    <3>4. /\ v \in Nat /\ p < v /\ v <= end
          /\ \A i \in p + 1 .. v - 1 : s[i] # sep
          /\ v <= l => s[v] = sep
      BY <1>2, <1>6, <3>1, <3>3
    <3> HIDE DEF p, u, v
    <3>5. ASSUME u < v PROVE FALSE
      <4>1. u <= l /\ u \in p + 1 .. v - 1
        BY <1>3, <3>2, <3>4, <3>5
      <4> QED
        BY <3>2, <3>4, <4>1
    <3>6. ASSUME v < u PROVE FALSE
      <4>1. v <= l /\ v \in p + 1 .. u - 1
        BY <1>3, <3>2, <3>4, <3>6
      <4> QED
        BY <3>2, <3>4, <4>1
    <3>7. u = v
      BY <3>2, <3>4, <3>5, <3>6
    <3> QED
      BY <3>7 DEF u, v
  <2> HIDE DEF T
  <2>3. k \in T
    BY <2>1, <2>2, Induction
  <2> QED
    BY <2>3 DEF T
<1>8. n = o
  <2>1. ASSUME n < o PROVE FALSE
    <3>1. n \in 0 .. o /\ n <= n /\ n <= o /\ n \in Nat
      BY <1>1, <1>2, <2>1
    <3>2. c[n] = end /\ c[n] < end
      BY <1>1, <1>6, <1>7, <2>1, <3>1
    <3> QED
      BY <1>3, <3>2
  <2>2. ASSUME o < n PROVE FALSE
    <3>1. o \in 0 .. n /\ o <= o /\ o <= n /\ o \in Nat
      BY <1>1, <1>2, <2>2
    <3>2. b[o] = end /\ b[o] < end
      BY <1>2, <1>5, <1>7, <2>2, <3>1
    <3> QED
      BY <1>3, <3>2
  <2> QED
    BY <1>1, <1>2, <2>1, <2>2
<1>9. ASSUME NEW k \in 1 .. n PROVE ps[k] = qs[k]
  <2>1. k \in Nat /\ k - 1 \in Nat /\ k <= n /\ k - 1 <= n /\ k \in 1 .. o
    BY <1>1, <1>8
  <2>2. b[k] = c[k] /\ b[k - 1] = c[k - 1]
    BY <1>7, <1>8, <2>1
  <2> QED
    BY <1>1, <1>2, <2>1, <2>2
<1> QED
  BY <1>1, <1>2, <1>8, <1>9

\* The loops of http_proc over a query, the headers and a form (gr_http.c:805, 878, 1001) take a
\* text apart at each separator and lose nothing of it: this cut of it there is, and no other.
THEOREM PiecesAreAll ==
  ASSUME NEW s \in Units, s # <<>>, NEW sep, NEW ps
  PROVE  ps = Pieces(s, sep) <=> \E b : CutAt(s, sep, ps, b)
<1>1. PICK b : CutAt(s, sep, Pieces(s, sep), b)
  BY PiecesCut
<1>2. ASSUME NEW c, CutAt(s, sep, ps, c) PROVE ps = Pieces(s, sep)
  BY <1>1, <1>2, OneCut
<1> QED
  BY <1>1, <1>2

-----------------------------------------------------------------------------
(* http_decode                                                             *)

Escape(t, i) == t[i] = "%" /\ i + 2 <= Len(t) /\ IsHex(t[i + 1]) /\ IsHex(t[i + 2])

\* What Decoded makes of t from i on, if r[j] is what it makes of it from a later j on
DecodedFrom(t, r, i) ==
  IF i > Len(t) THEN <<>>
  ELSE IF Escape(t, i) THEN <<Code[FromHex(t[i + 1], t[i + 2])][1]>> \o r[i + 3]
  ELSE <<t[i]>> \o r[i + 1]

Spaced(s) == [i \in DOMAIN s |-> IF s[i] = "+" THEN SP ELSE s[i]]

\* Decoded is defined by recursion from the end of the text; there is such a function.
LEMMA DecodedRun ==
  ASSUME NEW s \in Units
  PROVE  \E r : /\ Decoded(s) = r[1]
                /\ \A i \in 1 .. Len(s) + 1 : r[i] = DecodedFrom(Spaced(s), r, i)
<1> DEFINE t == Spaced(s)
           n == Len(s)
           F(g) == [i \in 1 .. Len(t) + 1 |->
                      IF i > Len(t) THEN <<>>
                      ELSE IF t[i] = "%" /\ i + 2 <= Len(t) /\ IsHex(t[i + 1]) /\ IsHex(t[i + 2])
                      THEN <<Code[FromHex(t[i + 1], t[i + 2])][1]>> \o g[i + 3]
                      ELSE <<t[i]>> \o g[i + 1]]
           T == {k \in Nat : k <= n + 1 => \E g : \A i \in n + 2 - k .. n + 1 :
                                              g[i] = DecodedFrom(t, g, i)}
<1>1. Decoded(s) = (CHOOSE g : g = F(g))[1]
  BY Zenon DEF Decoded, Spaced
<1>2. n \in Nat /\ Len(t) = n
  BY DEF Units, Spaced
<1>3. \A g : F(g) = [i \in 1 .. n + 1 |-> DecodedFrom(t, g, i)]
  <2> HIDE DEF t, n
  <2> QED
    BY <1>2, Zenon DEF DecodedFrom, Escape
<1> HIDE DEF F, t, n
<1>4. ASSUME NEW g, NEW h, NEW i \in 1 .. n + 1,
             i + 1 <= n + 1 => g[i + 1] = h[i + 1], i + 3 <= n + 1 => g[i + 3] = h[i + 3]
      PROVE  DecodedFrom(t, g, i) = DecodedFrom(t, h, i)
  <2>1. CASE i > n
    BY <1>2, <2>1 DEF DecodedFrom
  <2>2. CASE i <= n /\ Escape(t, i)
    <3>1. i + 2 <= n
      BY <1>2, <2>2 DEF Escape
    <3>2. g[i + 3] = h[i + 3]
      BY <1>2, <1>4, <3>1
    <3> QED
      BY <2>2, <3>2, Zenon DEF DecodedFrom
  <2>3. CASE i <= n /\ ~ Escape(t, i)
    <3>1. g[i + 1] = h[i + 1]
      BY <1>2, <1>4, <2>3
    <3> QED
      BY <2>3, <3>1, Zenon DEF DecodedFrom
  <2> QED
    BY <1>2, <2>1, <2>2, <2>3
<1>5. 0 \in T
  BY <1>2
<1>6. ASSUME NEW k \in 1 .. n + 1, k - 1 \in T PROVE k \in T
  <2>1. k - 1 <= n + 1 /\ n + 2 - (k - 1) = n + 3 - k /\ k \in Nat
    BY <1>2
  <2>2. PICK g : \A i \in n + 3 - k .. n + 1 : g[i] = DecodedFrom(t, g, i)
    BY <1>6, <2>1
  <2> DEFINE m == n + 2 - k
             h == [i \in 1 .. n + 1 |-> IF i = m THEN DecodedFrom(t, g, i) ELSE g[i]]
  <2>3. ASSUME NEW i \in m .. n + 1 PROVE h[i] = DecodedFrom(t, h, i)
    <3>1. i \in 1 .. n + 1 /\ m \in 1 .. n + 1
      BY <1>2
    <3>2. i + 1 <= n + 1 => h[i + 1] = g[i + 1]
      <4>1. i + 1 <= n + 1 => i + 1 \in 1 .. n + 1 /\ i + 1 # m
        BY <1>2
      <4> QED
        BY <4>1
    <3>3. i + 3 <= n + 1 => h[i + 3] = g[i + 3]
      <4>1. i + 3 <= n + 1 => i + 3 \in 1 .. n + 1 /\ i + 3 # m
        BY <1>2
      <4> QED
        BY <4>1
    <3>4. h[i] = DecodedFrom(t, g, i)
      <4>1. i # m => i \in n + 3 - k .. n + 1
        BY <1>2
      <4> HIDE DEF m
      <4> QED
        BY <2>2, <3>1, <4>1
    <3> HIDE DEF h
    <3> QED
      BY <1>4, <3>1, <3>2, <3>3, <3>4
  <2> HIDE DEF h
  <2> QED
    BY <2>1, <2>3
<1>7. n + 1 \in T
  <2> HIDE DEF T
  <2> QED
    BY <1>2, <1>5, <1>6, Induction
<1>8. PICK g : \A i \in 1 .. n + 1 : g[i] = DecodedFrom(t, g, i)
  <2>1. n + 2 - (n + 1) = 1 /\ n + 1 <= n + 1
    BY <1>2
  <2> QED
    BY <1>7, <2>1
<1>9. \E h : h = F(h)
  <2> DEFINE h == [i \in 1 .. n + 1 |-> g[i]]
  <2>1. ASSUME NEW i \in 1 .. n + 1 PROVE h[i] = DecodedFrom(t, h, i)
    <3>1. i + 1 <= n + 1 => h[i + 1] = g[i + 1]
      <4>1. i + 1 <= n + 1 => i + 1 \in 1 .. n + 1
        BY <1>2
      <4> QED
        BY <4>1
    <3>2. i + 3 <= n + 1 => h[i + 3] = g[i + 3]
      <4>1. i + 3 <= n + 1 => i + 3 \in 1 .. n + 1
        BY <1>2
      <4> QED
        BY <4>1
    <3>3. h[i] = DecodedFrom(t, g, i)
      BY <1>8
    <3> HIDE DEF h
    <3> QED
      BY <1>4, <3>1, <3>2, <3>3
  <2>2. h = [i \in 1 .. n + 1 |-> DecodedFrom(t, h, i)]
    BY <2>1
  <2> HIDE DEF h
  <2> QED
    BY <1>3, <2>2
<1>10. PICK r : r = F(r) /\ Decoded(s) = r[1]
  BY <1>1, <1>9
<1>11. ASSUME NEW i \in 1 .. n + 1 PROVE r[i] = DecodedFrom(t, r, i)
  <2>1. r = [j \in 1 .. n + 1 |-> DecodedFrom(t, r, j)]
    BY <1>3, <1>10
  <2> QED
    BY <2>1
<1> QED
  BY <1>10, <1>11 DEF t, n

\* What is behind a place follows from what is behind the later ones.
LEMMA Backwards ==
  ASSUME NEW n \in Nat, NEW P,
         \A i \in 1 .. n + 1 : (\A j \in i + 1 .. n + 1 : j \in P) => i \in P
  PROVE  1 \in P
<1> DEFINE T == {k \in Nat : \A i \in n + 1 - k .. n + 1 : i \in P \/ i = 0}
<1>1. 0 \in T
  <2>1. \A j \in (n + 1) + 1 .. n + 1 : j \in P
    OBVIOUS
  <2>2. n + 1 \in P
    BY <2>1
  <2>3. \A i \in n + 1 - 0 .. n + 1 : i = n + 1
    OBVIOUS
  <2> QED
    BY <2>2, <2>3
<1>2. ASSUME NEW k \in 1 .. n, k - 1 \in T PROVE k \in T
  <2> DEFINE m == n + 1 - k
  <2>1. m \in 1 .. n + 1 /\ n + 1 - (k - 1) = m + 1 /\ k \in Nat
    OBVIOUS
  <2>2. \A i \in m + 1 .. n + 1 : i \in P
    <3>1. \A i \in m + 1 .. n + 1 : i # 0
      BY <2>1
    <3> QED
      BY <1>2, <2>1, <3>1
  <2>3. m \in P
    BY <2>1, <2>2
  <2>4. \A i \in m .. n + 1 : i = m \/ i \in m + 1 .. n + 1
    BY <2>1
  <2>5. \A i \in m .. n + 1 : i \in P
    BY <2>2, <2>3, <2>4
  <2> QED
    BY <2>1, <2>5
<1>3. n \in T
  <2> HIDE DEF T
  <2> QED
    BY <1>1, <1>2, Induction
<1>4. 1 \in n + 1 - n .. n + 1
  OBVIOUS
<1> QED
  BY <1>3, <1>4

\* http_decode writes into the text it reads (gr_http.c:546): what it writes is never longer.
THEOREM DecodedFits ==
  ASSUME NEW s \in Units
  PROVE  Len(Decoded(s)) \in 0 .. Len(s)
<1> DEFINE t == Spaced(s)
           n == Len(s)
           V == {t[i] : i \in 1 .. n}
                  \cup {Code[FromHex(t[p[1]], t[p[2]])][1] : p \in (1 .. n) \X (1 .. n)}
<1>1. n \in Nat /\ Len(t) = n
  BY DEF Units, Spaced
<1>2. PICK r : Decoded(s) = r[1] /\ \A i \in 1 .. n + 1 : r[i] = DecodedFrom(t, r, i)
  BY DecodedRun
<1> DEFINE P == {i \in 1 .. n + 1 : r[i] \in Seq(V) /\ Len(r[i]) <= n + 1 - i}
<1>3. ASSUME NEW i \in 1 .. n, Escape(t, i)
      PROVE  i + 3 \in i + 1 .. n + 1 /\ Code[FromHex(t[i + 1], t[i + 2])][1] \in V
  <2>1. i + 2 <= n
    BY <1>1, <1>3 DEF Escape
  <2>2. i + 3 \in i + 1 .. n + 1 /\ i + 1 \in 1 .. n /\ i + 2 \in 1 .. n
    BY <1>1, <2>1
  <2>3. <<i + 1, i + 2>> \in (1 .. n) \X (1 .. n)
    BY <2>2
  <2> QED
    BY <2>2, <2>3
<1>4. \A i \in 1 .. n : t[i] \in V
  OBVIOUS
<1> HIDE DEF V, t, n
<1>5. ASSUME NEW v \in V, NEW q \in Seq(V)
      PROVE  <<v>> \o q \in Seq(V) /\ Len(<<v>> \o q) = Len(q) + 1 /\ Len(q) \in Nat
  OBVIOUS
<1>6. ASSUME NEW i \in 1 .. n + 1, \A j \in i + 1 .. n + 1 : j \in P PROVE i \in P
  <2>1. CASE i > n
    <3>0. i > Len(t) /\ i = n + 1
      BY <1>1, <2>1
    <3>1. r[i] = <<>> /\ i = n + 1
      BY <1>2, <3>0, Zenon DEF DecodedFrom
    <3>2. Len(r[i]) = 0 /\ n + 1 - i = 0 /\ r[i] \in Seq(V)
      BY <1>1, <3>1
    <3> QED
      BY <3>2
  <2>2. CASE i <= n /\ Escape(t, i)
    <3>1. i \in 1 .. n /\ ~ (i > n)
      BY <1>1, <2>2
    <3> DEFINE v == Code[FromHex(t[i + 1], t[i + 2])][1]
               q == r[i + 3]
    <3>2. r[i] = <<v>> \o q
      BY <1>1, <1>2, <2>2, <3>1, Zenon DEF DecodedFrom
    <3>3. v \in V /\ q \in Seq(V) /\ Len(q) <= n + 1 - (i + 3)
      BY <1>3, <1>6, <2>2, <3>1
    <3> HIDE DEF v, q
    <3> DEFINE w == Len(q)
    <3>4. r[i] \in Seq(V) /\ Len(r[i]) = w + 1 /\ w \in Nat /\ w <= n + 1 - (i + 3)
      BY <1>5, <3>2, <3>3
    <3>5. w + 1 <= n + 1 - i
      <4> HIDE DEF w
      <4> QED
        BY <1>1, <3>1, <3>4
    <3> QED
      BY <3>4, <3>5
  <2>3. CASE i <= n /\ ~ Escape(t, i)
    <3>1. i \in 1 .. n /\ ~ (i > n) /\ i + 1 \in i + 1 .. n + 1
      BY <1>1, <2>3
    <3> DEFINE q == r[i + 1]
    <3>2. r[i] = <<t[i]>> \o q
      BY <1>1, <1>2, <2>3, <3>1, Zenon DEF DecodedFrom
    <3>3. t[i] \in V /\ q \in Seq(V) /\ Len(q) <= n + 1 - (i + 1)
      BY <1>4, <1>6, <3>1
    <3> HIDE DEF q
    <3> DEFINE w == Len(q)
    <3>4. r[i] \in Seq(V) /\ Len(r[i]) = w + 1 /\ w \in Nat /\ w <= n + 1 - (i + 1)
      BY <1>5, <3>2, <3>3
    <3>5. w + 1 <= n + 1 - i
      <4> HIDE DEF w
      <4> QED
        BY <1>1, <3>1, <3>4
    <3> QED
      BY <3>4, <3>5
  <2> QED
    BY <1>1, <2>1, <2>2, <2>3
<1>7. 1 \in P
  <2> HIDE DEF P
  <2> QED
    BY <1>1, <1>6, Backwards
<1>8. Len(r[1]) \in Nat /\ Len(r[1]) <= n + 1 - 1
  BY <1>7
<1> DEFINE w == Len(r[1])
<1>9. w \in 0 .. n
  <2> HIDE DEF w
  <2>1. w \in Nat /\ w <= n + 1 - 1
    BY <1>8 DEF w
  <2> QED
    BY <1>1, <2>1
<1> QED
  BY <1>2, <1>9 DEF n

\* The sixteen digits differ, and are read as they stand.
LEMMA HexDigitsAre ==
  /\ DOMAIN HexDigits = 1 .. 16
  /\ \A i \in 1 .. 16 : /\ Find(HexDigits, HexDigits[i]) = i
                        /\ HexDigits[i] \notin {"+", "%"}
<1> DEFINE U == {"0", "1", "2", "3", "4", "5", "6", "7", "8", "9", "A", "B", "C", "D", "E", "F"}
           tail == <<"A", "B", "C", "D", "E", "F">>
           h == HexDigits
<1>1. /\ Digits \in Seq(U) /\ Len(Digits) = 10
      /\ Digits[1] = "0" /\ Digits[2] = "1" /\ Digits[3] = "2" /\ Digits[4] = "3"
      /\ Digits[5] = "4" /\ Digits[6] = "5" /\ Digits[7] = "6" /\ Digits[8] = "7"
      /\ Digits[9] = "8" /\ Digits[10] = "9"
  BY DEF Digits
<1>2. /\ tail \in Seq(U) /\ Len(tail) = 6
      /\ tail[1] = "A" /\ tail[2] = "B" /\ tail[3] = "C"
      /\ tail[4] = "D" /\ tail[5] = "E" /\ tail[6] = "F"
  OBVIOUS
<1> HIDE DEF tail, U
<1>3. /\ h \in Seq(U) /\ Len(h) = 16
      /\ \A i \in 1 .. 16 : h[i] = IF i <= 10 THEN Digits[i] ELSE tail[i - 10]
  <2>1. h = Digits \o tail
    BY DEF HexDigits, tail
  <2>2. /\ Digits \o tail \in Seq(U) /\ Len(Digits \o tail) = 10 + 6
        /\ \A i \in 1 .. 10 + 6 : (Digits \o tail)[i] = IF i <= 10 THEN Digits[i] ELSE tail[i - 10]
    <3>1. /\ Digits \o tail \in Seq(U) /\ Len(Digits \o tail) = Len(Digits) + Len(tail)
          /\ \A i \in 1 .. Len(Digits) + Len(tail) :
               (Digits \o tail)[i] = IF i <= Len(Digits) THEN Digits[i]
                                     ELSE tail[i - Len(Digits)]
      <4>1. Digits \in Seq(U) /\ tail \in Seq(U)
        BY <1>1, <1>2
      <4> QED
        BY <4>1, ConcatProperties
    <3> QED
      BY <1>1, <1>2, <3>1
  <2>3. 10 + 6 = 16
    OBVIOUS
  <2> QED
    BY <2>1, <2>2, <2>3
<1> HIDE DEF h
<1>4. /\ h[1] = "0" /\ h[2] = "1" /\ h[3] = "2" /\ h[4] = "3"
      /\ h[5] = "4" /\ h[6] = "5" /\ h[7] = "6" /\ h[8] = "7"
      /\ h[9] = "8" /\ h[10] = "9" /\ h[11] = "A" /\ h[12] = "B"
      /\ h[13] = "C" /\ h[14] = "D" /\ h[15] = "E" /\ h[16] = "F"
  <2>1. h[1] = "0" /\ h[2] = "1" /\ h[3] = "2" /\ h[4] = "3" /\ h[5] = "4"
    BY <1>1, <1>3
  <2>2. h[6] = "5" /\ h[7] = "6" /\ h[8] = "7" /\ h[9] = "8" /\ h[10] = "9"
    BY <1>1, <1>3
  <2>3. h[11] = tail[1] /\ h[12] = tail[2] /\ h[13] = tail[3]
    <3>1. h[11] = tail[11 - 10] /\ h[12] = tail[12 - 10] /\ h[13] = tail[13 - 10]
      BY <1>3
    <3> QED
      BY <3>1
  <2>4. h[14] = tail[4] /\ h[15] = tail[5] /\ h[16] = tail[6]
    <3>1. h[14] = tail[14 - 10] /\ h[15] = tail[15 - 10] /\ h[16] = tail[16 - 10]
      BY <1>3
    <3> QED
      BY <3>1
  <2> QED
    BY <1>2, <2>1, <2>2, <2>3, <2>4
<1>5. \A i \in 1 .. 16 : \/ i = 1 \/ i = 2 \/ i = 3 \/ i = 4 \/ i = 5 \/ i = 6 \/ i = 7 \/ i = 8
                         \/ i = 9 \/ i = 10 \/ i = 11 \/ i = 12 \/ i = 13 \/ i = 14 \/ i = 15
                         \/ i = 16
  OBVIOUS
<1>6. ASSUME NEW i \in 1 .. 16, NEW j \in 1 .. 16, h[i] = h[j] PROVE i = j
  BY <1>4, <1>5, <1>6
<1>7. ASSUME NEW i \in 1 .. 16 PROVE h[i] \notin {"+", "%"}
  BY <1>4, <1>5
<1>8. ASSUME NEW i \in 1 .. 16 PROVE Find(h, h[i]) = i
  <2>1. i \in 1 .. Len(h) /\ \A j \in 1 .. i - 1 : j \in 1 .. 16 /\ j # i
    BY <1>3
  <2>2. \A j \in 1 .. i - 1 : h[j] # h[i]
    BY <1>6, <2>1
  <2> QED
    BY <1>3, <2>1, <2>2, FindIs
<1>9. DOMAIN h = 1 .. 16
  BY <1>3
<1> QED
  BY <1>7, <1>8, <1>9 DEF h

\* x2c gives the character back that an escape was written for.
LEMMA EscapeIs ==
  ASSUME NEW c \in DOMAIN Code, NEW u, NEW high \in DOMAIN HexDigits,
         NEW low \in DOMAIN HexDigits, Code[c] = <<u, 16 * (high - 1) + low - 1>>
  PROVE  /\ IsHex(HexDigits[high]) /\ IsHex(HexDigits[low])
         /\ Code[FromHex(HexDigits[high], HexDigits[low])][1] = u
<1> DEFINE n == 16 * (high - 1) + low - 1
<1>1. high \in 1 .. 16 /\ low \in 1 .. 16
  BY HexDigitsAre
<1>2. Find(HexDigits, HexDigits[high]) = high /\ Find(HexDigits, HexDigits[low]) = low
  BY <1>1, HexDigitsAre
<1>3. FromHex(HexDigits[high], HexDigits[low]) = CHOOSE i \in DOMAIN Code : Code[i][2] = n
  BY <1>2, Zenon DEF FromHex
<1>4. \A i, j \in DOMAIN Code : Code[i][2] = Code[j][2] => Code[i][1] = Code[j][1]
  <2>1. /\ DOMAIN Code = {1, 2, 3, 4, 5, 6}
        /\ Code[1] = <<"+", 43>> /\ Code[2] = <<"&", 38>> /\ Code[3] = <<"=", 61>>
        /\ Code[4] = <<"?", 63>> /\ Code[5] = <<"%", 37>> /\ Code[6] = <<"/", 47>>
    BY DEF Code
  <2> QED
    BY <2>1
<1>5. Code[c][1] = u /\ Code[c][2] = n
  OBVIOUS
<1> HIDE DEF n
<1>6. \E i \in DOMAIN Code : Code[i][2] = n
  BY <1>5
<1>7. LET i == CHOOSE i \in DOMAIN Code : Code[i][2] = n
      IN  i \in DOMAIN Code /\ Code[i][2] = n
  BY <1>6
<1> QED
  BY <1>3, <1>4, <1>5, <1>7 DEF IsHex

\* u is what is written in t behind the first i units and up to the j-th: as it is, a space as +,
\* or % and its code in hexadecimal.
UnitWritten(t, i, j, u) ==
  \/ j = i + 1 /\ t[j] \notin {"+", "%"} /\ t[j] = u
  \/ j = i + 1 /\ t[j] = "+" /\ u = SP
  \/ /\ j = i + 3 /\ t[i + 1] = "%"
     /\ \E c \in DOMAIN Code, high \in DOMAIN HexDigits, low \in DOMAIN HexDigits :
          /\ t[i + 2] = HexDigits[high] /\ t[i + 3] = HexDigits[low]
          /\ Code[c] = <<u, 16 * (high - 1) + low - 1>>

\* The k-th unit of s is written up to b[k].
EncodesAt(t, s, b) ==
  /\ b[0] = 0 /\ b[Len(s)] = Len(t)
  /\ \A k \in 1 .. Len(s) : b[k - 1] \in Nat /\ b[k] \in Nat /\ UnitWritten(t, b[k - 1], b[k], s[k])

\* t is a way to write s.
Encodes(t, s) == t \in Units /\ s \in Units /\ \E b : EncodesAt(t, s, b)

\* One unit in front of a text
LEMMA Prepended ==
  ASSUME NEW U, NEW u \in U, NEW q \in Seq(U)
  PROVE  /\ <<u>> \o q \in Seq(U) /\ Len(<<u>> \o q) = Len(q) + 1 /\ Len(q) \in Nat
         /\ (<<u>> \o q)[1] = u
         /\ \A j \in 2 .. Len(q) + 1 : (<<u>> \o q)[j] = q[j - 1]
<1> DEFINE l == Len(q)
           w == <<u>> \o q
<1>1. <<u>> \in Seq(U) /\ Len(<<u>>) = 1 /\ <<u>>[1] = u /\ l \in Nat
  OBVIOUS
<1>2. /\ w \in Seq(U) /\ Len(w) = 1 + l
      /\ \A i \in 1 .. 1 + l : w[i] = IF i <= 1 THEN <<u>>[i] ELSE q[i - 1]
  <2>1. /\ w \in Seq(U) /\ Len(w) = Len(<<u>>) + Len(q)
        /\ \A i \in 1 .. Len(<<u>>) + Len(q) :
             w[i] = IF i <= Len(<<u>>) THEN <<u>>[i] ELSE q[i - Len(<<u>>)]
    BY <1>1, ConcatProperties
  <2> HIDE DEF w
  <2> QED
    BY <1>1, <2>1
<1> HIDE DEF w, l
<1>3. /\ 1 + l = l + 1 /\ 1 \in 1 .. 1 + l /\ 1 <= 1
      /\ \A j \in 2 .. l + 1 : j \in 1 .. 1 + l /\ ~ (j <= 1)
  BY <1>1
<1>4. Len(w) = l + 1 /\ w[1] = u /\ \A j \in 2 .. l + 1 : w[j] = q[j - 1]
  BY <1>1, <1>2, <1>3
<1> QED
  BY <1>1, <1>2, <1>4 DEF w, l

\* By units of s, from the last
LEMMA DecodedOf ==
  ASSUME NEW t \in Units, NEW s, Encodes(t, s)
  PROVE  Decoded(t) = s
<1> DEFINE n == Len(s)
           m == Len(t)
           v == Spaced(t)
<1>1. n \in Nat /\ s \in Seq(STRING) /\ \A i \in 1 .. n : s[i] \in STRING
  BY ElementOfSeq DEF Encodes, Units
<1>2. m \in Nat /\ Len(v) = m /\ \A i \in 1 .. m : v[i] = IF t[i] = "+" THEN SP ELSE t[i]
  BY DEF Units, Spaced
<1>3. PICK r : Decoded(t) = r[1] /\ \A i \in 1 .. m + 1 : r[i] = DecodedFrom(v, r, i)
  BY DecodedRun
<1>4. PICK b : EncodesAt(t, s, b)
  BY DEF Encodes
<1>5. /\ b[0] = 0 /\ b[n] = m
      /\ \A k \in 1 .. n : b[k - 1] \in Nat /\ b[k] \in Nat /\ UnitWritten(t, b[k - 1], b[k], s[k])
  BY <1>4 DEF EncodesAt
<1> DEFINE P == {i \in 1 .. n + 1 :
                   /\ b[i - 1] \in 0 .. m
                   /\ r[b[i - 1] + 1] \in Seq(STRING) /\ Len(r[b[i - 1] + 1]) = n + 1 - i
                   /\ \A j \in 1 .. n + 1 - i : r[b[i - 1] + 1][j] = s[i + j - 1]}
<1> HIDE DEF n, m, v
<1>6. ASSUME NEW a \in Nat, NEW e \in 0 .. m, NEW u, UnitWritten(t, a, e, u)
      PROVE  a \in 0 .. m /\ r[a + 1] = <<u>> \o r[e + 1]
  <2>0. SP # "%"
    BY DEF SP
  <2>1. CASE e = a + 1 /\ u = (IF t[e] = "+" THEN SP ELSE t[e]) /\ t[e] # "%"
    <3>1. e \in 1 .. m /\ e \in 1 .. m + 1 /\ a \in 0 .. m /\ ~ (e > m)
      BY <1>2, <2>1
    <3>2. v[e] = u /\ u # "%"
      BY <1>2, <2>0, <2>1, <3>1
    <3>3. r[e] = <<v[e]>> \o r[e + 1]
      BY <1>2, <1>3, <3>1, <3>2, Zenon DEF DecodedFrom, Escape
    <3> QED
      BY <2>1, <3>1, <3>2, <3>3
  <2>2. CASE e = a + 3 /\ t[a + 1] = "%"
             /\ \E c \in DOMAIN Code, high \in DOMAIN HexDigits, low \in DOMAIN HexDigits :
                  /\ t[a + 2] = HexDigits[high] /\ t[a + 3] = HexDigits[low]
                  /\ Code[c] = <<u, 16 * (high - 1) + low - 1>>
    <3> DEFINE i == a + 1
    <3>1. PICK c \in DOMAIN Code, high \in DOMAIN HexDigits, low \in DOMAIN HexDigits :
            /\ t[a + 2] = HexDigits[high] /\ t[a + 3] = HexDigits[low]
            /\ Code[c] = <<u, 16 * (high - 1) + low - 1>>
      BY <2>2
    <3>2. /\ a \in 0 .. m /\ i \in 1 .. m /\ i \in 1 .. m + 1 /\ ~ (i > m) /\ i + 2 <= m
          /\ i + 1 = a + 2 /\ i + 2 = a + 3 /\ i + 3 = e + 1
          /\ a + 2 \in 1 .. m /\ a + 3 \in 1 .. m
      BY <1>2, <2>2
    <3>3. /\ IsHex(HexDigits[high]) /\ IsHex(HexDigits[low])
          /\ Code[FromHex(HexDigits[high], HexDigits[low])][1] = u
      BY <3>1, EscapeIs
    <3>4. HexDigits[high] # "+" /\ HexDigits[low] # "+"
      BY HexDigitsAre
    <3>5. v[i] = "%" /\ v[i + 1] = HexDigits[high] /\ v[i + 2] = HexDigits[low]
      BY <1>2, <2>2, <3>1, <3>2, <3>4
    <3> HIDE DEF i
    <3>6. Escape(v, i)
      BY <1>2, <3>2, <3>3, <3>5 DEF Escape
    <3>7. r[i] = <<Code[FromHex(v[i + 1], v[i + 2])][1]>> \o r[i + 3]
      BY <1>2, <1>3, <3>2, <3>6, Zenon DEF DecodedFrom
    <3>8. r[i] = <<u>> \o r[e + 1]
      BY <3>2, <3>3, <3>5, <3>7
    <3> QED
      BY <3>2, <3>8 DEF i
  <2> QED
    BY <1>6, <2>0, <2>1, <2>2 DEF UnitWritten
<1>7. ASSUME NEW i \in 1 .. n + 1, \A j \in i + 1 .. n + 1 : j \in P PROVE i \in P
  <2>1. CASE i = n + 1
    <3>1. i - 1 = n /\ n + 1 - i = 0 /\ b[i - 1] = m /\ m \in 0 .. m
          /\ m + 1 \in 1 .. m + 1 /\ m + 1 > m
      BY <1>1, <1>2, <1>5, <2>1
    <3>2. r[m + 1] = <<>>
      BY <1>2, <1>3, <3>1, Zenon DEF DecodedFrom
    <3>3. <<>> \in Seq(STRING) /\ Len(<<>>) = 0 /\ \A j \in 1 .. 0 : FALSE
      OBVIOUS
    <3> QED
      BY <3>1, <3>2, <3>3
  <2>2. CASE i # n + 1
    <3>1. /\ i \in 1 .. n /\ i + 1 \in i + 1 .. n + 1 /\ (i + 1) - 1 = i
          /\ n + 1 - (i + 1) = n - i /\ n - i \in Nat /\ (n - i) + 1 = n + 1 - i
      BY <1>1, <2>2
    <3> DEFINE q == r[b[i] + 1]
               u == s[i]
               w == r[b[i - 1] + 1]
    <3>2. /\ b[i] \in 0 .. m /\ q \in Seq(STRING) /\ Len(q) = n - i
          /\ \A j \in 1 .. n - i : q[j] = s[(i + 1) + j - 1]
      BY <1>7, <3>1
    <3>3. b[i - 1] \in 0 .. m /\ w = <<u>> \o q
      <4>1. b[i - 1] \in Nat /\ UnitWritten(t, b[i - 1], b[i], u)
        BY <1>5, <3>1
      <4>2. b[i] \in 0 .. m
        BY <3>2
      <4> HIDE DEF q, u, w
      <4>3. b[i - 1] \in 0 .. m /\ r[b[i - 1] + 1] = <<u>> \o r[b[i] + 1]
        BY <1>6, <4>1, <4>2
      <4> QED
        BY <4>3 DEF q, w
    <3>4. u \in STRING
      BY <1>1, <3>1
    <3> HIDE DEF q, u, w
    <3>5. /\ w \in Seq(STRING) /\ Len(w) = (n - i) + 1
          /\ w[1] = u /\ \A j \in 2 .. (n - i) + 1 : w[j] = q[j - 1]
      <4> DEFINE S == STRING
                 x == <<u>> \o q
      <4>1. u \in S /\ q \in Seq(S)
        BY <3>2, <3>4
      <4> HIDE DEF S
      <4>2. /\ x \in Seq(S) /\ Len(x) = Len(q) + 1 /\ x[1] = u
            /\ \A j \in 2 .. Len(q) + 1 : x[j] = q[j - 1]
        BY <4>1, Prepended
      <4> HIDE DEF x
      <4>3. /\ x \in Seq(S) /\ Len(x) = (n - i) + 1 /\ x[1] = u
            /\ \A j \in 2 .. (n - i) + 1 : x[j] = q[j - 1]
        BY <3>2, <4>2
      <4> QED
        BY <3>3, <4>3 DEF x, S
    <3>6. ASSUME NEW j \in 1 .. n + 1 - i PROVE w[j] = s[i + j - 1]
      <4>1. CASE j = 1
        <5>1. i + j - 1 = i
          BY <3>1, <4>1
        <5> QED
          BY <3>5, <4>1, <5>1 DEF u
      <4>2. CASE j # 1
        <5>1. j \in 2 .. (n - i) + 1 /\ j - 1 \in 1 .. n - i /\ (i + 1) + (j - 1) - 1 = i + j - 1
          BY <3>1, <4>2
        <5>2. q[j - 1] = s[(i + 1) + (j - 1) - 1]
          BY <3>2, <5>1
        <5> QED
          BY <3>5, <5>1, <5>2
      <4> QED
        BY <4>1, <4>2
    <3> QED
      BY <3>1, <3>3, <3>5, <3>6 DEF w
  <2> QED
    BY <2>1, <2>2
<1>8. 1 \in P
  <2> HIDE DEF P
  <2> QED
    BY <1>1, <1>7, Backwards
<1>9. r[1] \in Seq(STRING) /\ Len(r[1]) = n /\ \A j \in 1 .. n : r[1][j] = s[j]
  <2>1. n + 1 - 1 = n /\ 1 - 1 = 0 /\ 0 + 1 = 1 /\ \A j \in 1 .. n : 1 + j - 1 = j
    BY <1>1
  <2> QED
    BY <1>5, <1>8, <2>1
<1> QED
  BY <1>1, <1>3, <1>9, SeqEqual DEF n

\* http_decode reads what an encoder has written, whatever it chose to escape (gr_http.c:546).
THEOREM DecodedIs ==
  ASSUME NEW t, NEW s, Encodes(t, s)
  PROVE  Decoded(t) = s
<1>1. t \in Units
  BY DEF Encodes
<1> QED
  BY <1>1, DecodedOf

\* A text without + and % is left as it is.
COROLLARY DecodedPlain ==
  ASSUME NEW s \in Units, \A i \in 1 .. Len(s) : s[i] \notin {"+", "%"}
  PROVE  Encodes(s, s) /\ Decoded(s) = s
<1> DEFINE n == Len(s)
           b == [k \in 0 .. n |-> k]
<1>1. n \in Nat
  BY DEF Units
<1> HIDE DEF n
<1>2. b[0] = 0 /\ b[n] = n /\ \A k \in 1 .. n : b[k - 1] = k - 1 /\ b[k] = k /\ (k - 1) + 1 = k
  BY <1>1
<1> HIDE DEF b
<1>3. \A k \in 1 .. n : b[k - 1] \in Nat /\ b[k] \in Nat /\ UnitWritten(s, b[k - 1], b[k], s[k])
  BY <1>1, <1>2 DEF UnitWritten, n
<1>4. Encodes(s, s)
  BY <1>2, <1>3 DEF Encodes, EncodesAt, n
<1> QED
  BY <1>4, DecodedIs

\* What is in front of the first separator, and what is behind it
LEMMA Halves ==
  ASSUME NEW U, NEW a \in Seq(U), NEW c \in Seq(U), NEW u, \A i \in 1 .. Len(a) : a[i] # u
  PROVE  LET s  == a \o <<u>> \o c
             at == Find(s, u)
         IN  at # 0 /\ Before(s, at) = a /\ After(s, at) = c
<1> DEFINE W == U \cup {u}
           s == a \o <<u>> \o c
           m == Len(a)
           l == Len(c)
<1>1. /\ a \in Seq(W) /\ c \in Seq(W) /\ <<u>> \in Seq(W) /\ Len(<<u>>) = 1
      /\ <<u>>[1] = u /\ m \in Nat /\ l \in Nat
  <2>1. U \subseteq W /\ u \in W
    OBVIOUS
  <2> HIDE DEF W
  <2>2. a \in Seq(W) /\ c \in Seq(W)
    <3>1. ASSUME NEW q \in Seq(U) PROVE q \in Seq(W)
      <4>1. PICK k \in Nat : q \in [1 .. k -> U]
        BY SeqDef
      <4>2. q \in [1 .. k -> W]
        BY <2>1, <4>1
      <4> QED
        BY <4>2, SeqDef
    <3> QED
      BY <3>1
  <2>3. Len(<<u>>) = 1 /\ <<u>>[1] = u
    OBVIOUS
  <2>4. u \in W
    BY <2>1
  <2>5. <<u>> \in Seq(W)
    BY <2>4
  <2>6. m \in Nat /\ l \in Nat
    BY <2>2
  <2> QED
    BY <2>2, <2>3, <2>5, <2>6
<1> HIDE DEF W
<1> DEFINE d == a \o <<u>>
<1>2. /\ d \in Seq(W) /\ Len(d) = m + 1
      /\ \A i \in 1 .. m : d[i] = a[i]
      /\ d[m + 1] = u
  <2>1. /\ d \in Seq(W) /\ Len(d) = m + 1
        /\ \A i \in 1 .. m + 1 : d[i] = IF i <= m THEN a[i] ELSE <<u>>[i - m]
    BY <1>1, ConcatProperties
  <2> HIDE DEF d, m
  <2>2. \A i \in 1 .. m : i \in 1 .. m + 1 /\ i <= m
    BY <1>1
  <2>3. m + 1 \in 1 .. m + 1 /\ ~ (m + 1 <= m) /\ (m + 1) - m = 1
    BY <1>1
  <2>4. \A i \in 1 .. m : d[i] = a[i]
    BY <2>1, <2>2
  <2>5. d[m + 1] = u
    BY <1>1, <2>1, <2>3
  <2> QED
    BY <2>1, <2>4, <2>5
<1>3. /\ s \in Seq(W) /\ Len(s) = m + 1 + l
      /\ \A i \in 1 .. m : s[i] = a[i]
      /\ s[m + 1] = u
      /\ \A i \in 1 .. l : s[m + 1 + i] = c[i]
  <2>1. /\ d \o c \in Seq(W) /\ Len(d \o c) = Len(d) + l
        /\ \A i \in 1 .. Len(d) + l : (d \o c)[i] = IF i <= Len(d) THEN d[i] ELSE c[i - Len(d)]
    <3>1. d \in Seq(W) /\ c \in Seq(W)
      BY <1>1, <1>2
    <3> HIDE DEF d, m
    <3> QED
      BY <3>1, ConcatProperties
  <2>2. s = d \o c
    OBVIOUS
  <2> HIDE DEF d, s, m, l
  <2>3. \A i \in 1 .. m + 1 : i \in 1 .. m + 1 + l /\ i <= m + 1
    BY <1>1
  <2>4. \A i \in 1 .. l : m + 1 + i \in 1 .. m + 1 + l /\ ~ (m + 1 + i <= m + 1)
                          /\ (m + 1 + i) - (m + 1) = i
    BY <1>1
  <2>5. m + 1 \in 1 .. m + 1 /\ \A i \in 1 .. m : i \in 1 .. m + 1
    BY <1>1
  <2>6. s \in Seq(W) /\ Len(s) = m + 1 + l
    BY <1>2, <2>1, <2>2
  <2>7. ASSUME NEW i \in 1 .. m + 1 PROVE s[i] = d[i]
    BY <1>2, <2>1, <2>2, <2>3
  <2>8. ASSUME NEW i \in 1 .. l PROVE s[m + 1 + i] = c[i]
    BY <1>2, <2>1, <2>2, <2>4
  <2> QED
    BY <1>2, <2>5, <2>6, <2>7, <2>8
<1> HIDE DEF s, d
<1>4. Find(s, u) = m + 1
  <2>1. m + 1 \in 1 .. Len(s) /\ (m + 1) - 1 = m
    <3> HIDE DEF m, l
    <3> QED
      BY <1>1, <1>3
  <2>2. \A i \in 1 .. m : s[i] # u
    BY <1>3
  <2> HIDE DEF m
  <2> QED
    BY <1>3, <2>1, <2>2, FindIs
<1>5. Before(s, m + 1) = a
  <2> DEFINE x == SubSeq(s, 1, m)
  <2>1. (m + 1) - 1 = m /\ Before(s, m + 1) = x
    <3>1. (m + 1) - 1 = m
      <4> HIDE DEF m
      <4> QED
        BY <1>1
    <3> QED
      BY <3>1 DEF Before
  <2>2. \A i \in 1 .. m : s[i] \in W
    <3>1. \A i \in 1 .. m : a[i] \in W
      BY <1>1, ElementOfSeq
    <3> QED
      BY <1>3, <3>1
  <2>3. /\ x \in Seq(W) /\ Len(x) = (IF 1 <= m THEN m - 1 + 1 ELSE 0)
        /\ \A i \in 1 .. m - 1 + 1 : x[i] = s[1 + i - 1]
    <3> HIDE DEF m
    <3> QED
      BY <1>1, <2>2, SubSeqProperties
  <2> HIDE DEF x
  <2>4. Len(x) = m /\ \A i \in 1 .. m : x[i] = a[i]
    <3>1. m - 1 + 1 = m /\ (~ (1 <= m) => m = 0) /\ \A i \in 1 .. m : 1 + i - 1 = i
      <4> HIDE DEF m
      <4> QED
        BY <1>1
    <3> QED
      BY <1>3, <2>3, <3>1
  <2>5. x = a
    BY <1>1, <2>3, <2>4, SeqEqual
  <2> QED
    BY <2>1, <2>5
<1>6. After(s, m + 1) = c
  <2> DEFINE x == SubSeq(s, m + 2, m + 1 + l)
  <2>1. After(s, m + 1) = x
    <3>1. (m + 1) + 1 = m + 2
      <4> HIDE DEF m
      <4> QED
        BY <1>1
    <3> QED
      BY <1>3, <3>1 DEF After
  <2>2. \A i \in m + 2 .. m + 1 + l : s[i] \in W
    <3>1. \A i \in m + 2 .. m + 1 + l : i \in 1 .. Len(s)
      <4> HIDE DEF m, l
      <4> QED
        BY <1>1, <1>3
    <3> QED
      BY <1>3, <3>1, ElementOfSeq
  <2>3. /\ x \in Seq(W)
        /\ Len(x) = (IF m + 2 <= m + 1 + l THEN (m + 1 + l) - (m + 2) + 1 ELSE 0)
        /\ \A i \in 1 .. (m + 1 + l) - (m + 2) + 1 : x[i] = s[(m + 2) + i - 1]
    <3>1. m + 2 \in Nat /\ m + 1 + l \in Int /\ m + 2 \in Int
      <4> HIDE DEF m, l
      <4> QED
        BY <1>1
    <3> HIDE DEF m, l
    <3> QED
      BY <2>2, <3>1, SubSeqProperties
  <2> HIDE DEF x
  <2>4. Len(x) = l /\ \A i \in 1 .. l : x[i] = c[i]
    <3>1. /\ (m + 1 + l) - (m + 2) + 1 = l /\ (~ (m + 2 <= m + 1 + l) => l = 0)
          /\ \A i \in 1 .. l : (m + 2) + i - 1 = m + 1 + i
      <4> HIDE DEF m, l
      <4> QED
        BY <1>1
    <3> QED
      BY <1>3, <2>3, <3>1
  <2>5. x = c
    BY <1>1, <2>3, <2>4, SeqEqual
  <2> QED
    BY <2>1, <2>5
<1>7. m + 1 # 0
  <2> HIDE DEF m
  <2> QED
    BY <1>1
<1> QED
  BY <1>4, <1>5, <1>6, <1>7 DEF s

\* http_proc trims the value of a header.
Trim(u, v) == IF u = ":" THEN Trimmed(v) ELSE v

\* Who writes a query or a form may escape anything in it, who writes headers does not.
Writes(u, t, s) == Encodes(t, s) /\ (u = ":" => t = s)

None(s, X) == \A i \in 1 .. Len(s) : s[i] \notin X

\* s writes the names and values ps, each pair with u between and one pair behind the other
\* with sep between; ws is how each of them is written.
IsWrittenBy(s, sep, u, ps, ws) ==
  /\ \A k \in 1 .. Len(ps) : /\ Writes(u, ws[k].name, ps[k].name) /\ None(ws[k].name, {u})
                              /\ ws[k].value \in Units
                              /\ Writes(u, Trim(u, ws[k].value), ps[k].value)
  /\ IF s = <<>> THEN Len(ps) = 0
     ELSE \E b : CutAt(s, sep, [k \in 1 .. Len(ps) |-> ws[k].name \o <<u>> \o ws[k].value], b)

\* Some way to write them is.
IsWritten(s, sep, u, ps) ==
  /\ Len(ps) \in Nat
  /\ ps = [k \in 1 .. Len(ps) |-> [name |-> ps[k].name, value |-> ps[k].value]]
  /\ \E ws : IsWrittenBy(s, sep, u, ps, ws)

\* A query or a form that writes names and values, with = and &, gives the module just these, in
\* their order (gr_http.c:830, 1026); and so do headers, one on a line, with a : (gr_http.c:925).
THEOREM ParamsAsWritten ==
  ASSUME NEW s \in Units, NEW sep, NEW u, NEW ps, IsWritten(s, sep, u, ps)
  PROVE  /\ Params(Pieces(s, sep), u) = ps
         /\ ~ Unpaired(Pieces(s, sep), u) /\ Len(Pieces(s, sep)) = Len(ps)
<1>0. PICK raw : IsWrittenBy(s, sep, u, ps, raw)
  BY DEF IsWritten
<1> DEFINE n == Len(ps)
           ws == [k \in 1 .. n |-> raw[k].name \o <<u>> \o raw[k].value]
           P(k) == LET at     == Find(ws[k], u)
                       behind == After(ws[k], at)
                   IN  [name  |-> Decoded(Before(ws[k], at)),
                        value |-> Decoded(IF u = ":" THEN Trimmed(behind) ELSE behind)]
<1>1. n \in Nat
  BY DEF IsWritten
<1>2. Pieces(s, sep) = ws /\ Len(ws) = n
  <2>1. CASE s = <<>>
    <3>1. n = 0
      BY <1>0, <2>1 DEF IsWrittenBy
    <3>2. ws = <<>> /\ Len(<<>>) = 0
      BY <3>1
    <3>3. Pieces(s, sep) = <<>>
      BY <2>1, Zenon DEF Pieces
    <3> HIDE DEF ws
    <3> QED
      BY <3>1, <3>2, <3>3
  <2>2. CASE s # <<>>
    <3>1. \E b : CutAt(s, sep, ws, b)
      BY <1>0, <2>2 DEF IsWrittenBy
    <3>2. Len(ws) = n
      BY <1>1
    <3> HIDE DEF ws
    <3> QED
      BY <2>2, <3>1, <3>2, PiecesAreAll
  <2> QED
    BY <2>1, <2>2
<1>3. DOMAIN ws = 1 .. n
  OBVIOUS
<1>4. ASSUME NEW k \in 1 .. n
      PROVE  Find(ws[k], u) # 0 /\ P(k) = [name |-> ps[k].name, value |-> ps[k].value]
  <2> DEFINE x == raw[k].name
             y == raw[k].value
             at == Find(ws[k], u)
  <2>1. ws[k] = x \o <<u>> \o y
    OBVIOUS
  <2>2. /\ Encodes(x, ps[k].name) /\ y \in Units /\ Encodes(Trim(u, y), ps[k].value)
        /\ \A i \in 1 .. Len(x) : x[i] # u
    BY <1>0 DEF IsWrittenBy, Writes, None
  <2> HIDE DEF x, y, ws
  <2>3. /\ x \in Seq(STRING) /\ y \in Seq(STRING)
        /\ Decoded(x) = ps[k].name /\ Decoded(Trim(u, y)) = ps[k].value
    BY <2>2, DecodedIs DEF Encodes, Units
  <2>4. at # 0 /\ Before(ws[k], at) = x /\ After(ws[k], at) = y
    <3> DEFINE w == x \o <<u>> \o y
    <3>1. Find(w, u) # 0 /\ Before(w, Find(w, u)) = x /\ After(w, Find(w, u)) = y
      BY <2>2, <2>3, Halves, Zenon
    <3> HIDE DEF w
    <3>2. ws[k] = w
      BY <2>1 DEF w
    <3> QED
      BY <3>1, <3>2
  <2> HIDE DEF at
  <2>5. P(k) = [name |-> Decoded(x), value |-> Decoded(Trim(u, y))]
    BY <2>4 DEF at, Trim
  <2> QED
    BY <2>3, <2>4, <2>5 DEF at, x, y
<1>5. Params(ws, u) = [k \in 1 .. n |-> P(k)]
  <2> HIDE DEF ws
  <2> QED
    BY <1>3, Zenon DEF Params
<1>6. Params(ws, u) = ps
  <2>1. ps = [k \in 1 .. n |-> [name |-> ps[k].name, value |-> ps[k].value]]
    BY DEF IsWritten
  <2> HIDE DEF P, ws
  <2> QED
    BY <1>4, <1>5, <2>1
<1>7. ~ Unpaired(ws, u)
  BY <1>3, <1>4 DEF Unpaired
<1> HIDE DEF ws
<1> QED
  BY <1>2, <1>6, <1>7

\* What str_trim takes away
Blanks == {SP, CR, LF}

\* The blanks in front of a text are left out,
LEMMA UnspacedIs ==
  ASSUME NEW s \in Units, NEW i \in 1 .. Len(s), s[i] \notin Blanks,
         \A j \in 1 .. i - 1 : s[j] \in Blanks
  PROVE  Unspaced(s) = SubSeq(s, i, Len(s))
<1> DEFINE I == {j \in 1 .. Len(s) : s[j] \notin Blanks}
<1>0. Len(s) \in Nat
  BY DEF Units
<1>1. SelectInSeq(s, LAMBDA u : u \notin {SP, CR, LF}) = IF I # {} THEN Min(I) ELSE 0
  BY DEF SelectInSeq, Blanks
<1>2. i \in I /\ I \subseteq Nat
  BY <1>0
<1>3. ASSUME NEW j \in I PROVE i <= j
  <2>1. j \in 1 .. Len(s) /\ j \notin 1 .. i - 1
    OBVIOUS
  <2> QED
    BY <1>0, <2>1
<1> HIDE DEF I
<1>4. Min(I) = i
  BY <1>2, <1>3, MinIs
<1>5. SelectInSeq(s, LAMBDA u : u \notin {SP, CR, LF}) = i /\ i # 0
  BY <1>1, <1>2, <1>4
<1> QED
  BY <1>5 DEF Unspaced

\* and those at its ends are what str_trim takes away (gr_http.c:944): what is between the first
\* unit that is none and the last stays.
THEOREM TrimmedIs ==
  ASSUME NEW s \in Units, NEW i \in 1 .. Len(s), NEW j \in i .. Len(s),
         s[i] \notin Blanks, s[j] \notin Blanks,
         \A k \in 1 .. i - 1 : s[k] \in Blanks, \A k \in j + 1 .. Len(s) : s[k] \in Blanks
  PROVE  Trimmed(s) = SubSeq(s, i, j)
<1> DEFINE l == Len(s)
           t == SubSeq(s, i, l)
           m == l - i + 1
           r == Reverse(t)
           o == l - j + 1
           q == SubSeq(r, o, m)
           x == Reverse(q)
           y == SubSeq(s, i, j)
<1>0. l \in Nat /\ i \in 1 .. l /\ j \in i .. l /\ j \in 1 .. l /\ m \in 1 .. l /\ o \in 1 .. m
  <2>1. l \in Nat
    BY DEF Units
  <2> HIDE DEF l
  <2>2. i \in 1 .. l /\ j \in i .. l
    BY DEF l
  <2> QED
    BY <2>1, <2>2
<1> HIDE DEF l
<1>1. \A k \in 1 .. l : s[k] \in STRING
  BY ElementOfSeq DEF Units, l
<1>2. Unspaced(s) = t
  BY UnspacedIs DEF l
<1>3. /\ t \in Seq(STRING) /\ Len(t) = m /\ \A k \in 1 .. m : t[k] = s[i + k - 1]
  <2>1. \A k \in i .. l : s[k] \in STRING
    BY <1>0, <1>1
  <2>2. /\ t \in Seq(STRING) /\ Len(t) = (IF i <= l THEN l - i + 1 ELSE 0)
        /\ \A k \in 1 .. l - i + 1 : t[k] = s[i + k - 1]
    BY <1>0, <2>1, SubSeqProperties
  <2> HIDE DEF t
  <2> QED
    BY <1>0, <2>2
<1> HIDE DEF t
<1>4. r = [k \in 1 .. m |-> t[(m - k) + 1]]
  BY <1>3, Zenon DEF Reverse
<1>5. \A k \in 1 .. m : r[k] = s[l - k + 1] /\ l - k + 1 \in 1 .. l
  <2> SUFFICES ASSUME NEW k \in 1 .. m PROVE r[k] = s[l - k + 1] /\ l - k + 1 \in 1 .. l
    OBVIOUS
  <2>1. r[k] = t[(m - k) + 1]
    BY <1>4
  <2>2. (m - k) + 1 \in 1 .. m /\ i + ((m - k) + 1) - 1 = l - k + 1 /\ l - k + 1 \in 1 .. l
    BY <1>0
  <2> QED
    BY <1>3, <2>1, <2>2
<1> HIDE DEF r, m
<1>6. r \in Units /\ Len(r) = m
  <2>1. r \in [1 .. m -> STRING]
    BY <1>1, <1>4, <1>5
  <2>2. m \in Nat
    BY <1>0
  <2>3. r \in Seq(STRING)
    BY <2>1, <2>2, SeqDef
  <2>4. Len(r) = m
    BY <2>1, <2>2
  <2> QED
    BY <2>3, <2>4 DEF Units
<1>7. Unspaced(r) = q
  <2>1. r[o] = s[j]
    <3>1. l - o + 1 = j
      BY <1>0
    <3> QED
      BY <1>0, <1>5, <3>1
  <2>2. ASSUME NEW k \in 1 .. o - 1 PROVE r[k] \in Blanks
    <3>1. k \in 1 .. m /\ l - k + 1 \in j + 1 .. l
      BY <1>0
    <3> QED
      BY <1>5, <3>1 DEF l
  <2>3. o \in 1 .. Len(r)
    BY <1>0, <1>6
  <2> HIDE DEF o
  <2> QED
    BY <1>6, <2>1, <2>2, <2>3, UnspacedIs
<1> DEFINE d == m - o + 1
<1>8. /\ q \in Seq(STRING) /\ Len(q) = d /\ \A k \in 1 .. d : q[k] = r[o + k - 1]
  <2>1. \A k \in o .. m : r[k] \in STRING
    BY <1>0, <1>1, <1>5
  <2>2. /\ q \in Seq(STRING) /\ Len(q) = (IF o <= m THEN m - o + 1 ELSE 0)
        /\ \A k \in 1 .. m - o + 1 : q[k] = r[o + k - 1]
    BY <1>0, <2>1, SubSeqProperties
  <2> HIDE DEF q
  <2> QED
    BY <1>0, <2>2
<1> HIDE DEF q
<1>9. d = j - i + 1 /\ d \in Nat
  BY <1>0 DEF m
<1>10. x = [k \in 1 .. d |-> q[(d - k) + 1]]
  <2> HIDE DEF d
  <2> QED
    BY <1>8, Zenon DEF Reverse
<1>11. /\ y \in Seq(STRING) /\ Len(y) = d /\ \A k \in 1 .. d : y[k] = s[i + k - 1]
  <2>1. \A k \in i .. j : s[k] \in STRING
    BY <1>0, <1>1
  <2>2. /\ y \in Seq(STRING) /\ Len(y) = (IF i <= j THEN j - i + 1 ELSE 0)
        /\ \A k \in 1 .. j - i + 1 : y[k] = s[i + k - 1]
    BY <1>0, <2>1, SubSeqProperties
  <2> HIDE DEF y, d
  <2> QED
    BY <1>0, <1>9, <2>2
<1>12. ASSUME NEW k \in 1 .. d PROVE x[k] = s[i + k - 1]
  <2>1. x[k] = q[(d - k) + 1]
    BY <1>10
  <2>2. /\ (d - k) + 1 \in 1 .. d /\ o + ((d - k) + 1) - 1 \in 1 .. m
        /\ l - (o + ((d - k) + 1) - 1) + 1 = i + k - 1
    BY <1>0, <1>9 DEF m
  <2>3. q[(d - k) + 1] = r[o + ((d - k) + 1) - 1]
    BY <1>8, <2>2
  <2> QED
    BY <1>5, <2>1, <2>2, <2>3
<1> HIDE DEF d, y, x
<1>13. y = [k \in 1 .. d |-> y[k]]
  BY <1>9, <1>11
<1>14. x = [k \in 1 .. d |-> x[k]]
  BY <1>10
<1>15. x = y
  <2>1. \A k \in 1 .. d : x[k] = y[k]
    BY <1>11, <1>12
  <2> QED
    BY <1>13, <1>14, <2>1, Zenon
<1>16. Trimmed(s) = x
  BY <1>2, <1>7 DEF Trimmed, r, x
<1> QED
  BY <1>15, <1>16 DEF y

-----------------------------------------------------------------------------
(* Where the requests of a stream end in its text.                         *)

IsStream(s) ==
  /\ Len(s) \in Nat /\ DOMAIN s = 1 .. Len(s)
  /\ \A k \in 1 .. Len(s) : s[k].text \in Units

\* e[k] is where the first k requests of s end.
EndsAt(s, e) ==
  /\ Text(s) \in Units
  /\ e[0] = 0 /\ e[Len(s)] = Len(Text(s))
  /\ \A k \in 0 .. Len(s) : e[k] \in Nat
  /\ \A k \in 1 .. Len(s) : e[k] = e[k - 1] + Len(s[k].text)
  /\ \A k \in 1 .. Len(s) : \A j \in 1 .. Len(s[k].text) : Text(s)[e[k - 1] + j] = s[k].text[j]

\* FlattenSeq appends one text after the other.
LEMMA FlattenRun ==
  ASSUME NEW texts, NEW n \in Nat \ {0}, Len(texts) = n
  PROVE  \E f : /\ FlattenSeq(texts) = f[n] /\ f[1] = texts[1]
                /\ \A k \in 2 .. n : f[k] = f[k - 1] \o texts[k]
<1> DEFINE F(g, k) == [i \in 1 .. k |-> IF i = 1 THEN texts[i] ELSE g[i - 1] \o texts[i]]
           T == {k \in Nat : \E g : g = F(g, k)}
<1>1. FlattenSeq(texts) = (CHOOSE g : g = F(g, n))[n]
  BY DEF FlattenSeq
<1>2. 0 \in T
  <2>1. [i \in 1 .. 0 |-> 0] = F([i \in 1 .. 0 |-> 0], 0)
    OBVIOUS
  <2> QED
    BY <2>1
<1>3. ASSUME NEW k \in 1 .. n, k - 1 \in T PROVE k \in T
  <2>1. PICK g : g = F(g, k - 1)
    BY <1>3
  <2>2. PICK h : h = [i \in 1 .. k |->
                        IF i = k THEN IF k = 1 THEN texts[1] ELSE g[k - 1] \o texts[k]
                        ELSE g[i]]
    OBVIOUS
  <2>3. ASSUME NEW i \in 1 .. k PROVE h[i] = F(h, k)[i]
    <3>1. CASE i = k
      <4>1. k # 1 => h[k - 1] = g[k - 1]
        BY <2>2
      <4> QED
        BY <2>2, <3>1, <4>1
    <3>2. CASE i # k
      <4>1. i \in 1 .. k - 1
        BY <3>2
      <4>2. g[i] = IF i = 1 THEN texts[i] ELSE g[i - 1] \o texts[i]
        BY <2>1, <4>1
      <4>3. h[i] = g[i] /\ (i # 1 => h[i - 1] = g[i - 1])
        BY <2>2, <4>1
      <4> QED
        BY <4>2, <4>3
    <3> QED
      BY <3>1, <3>2
  <2>4. h = F(h, k)
    BY <2>2, <2>3
  <2>5. k \in Nat
    OBVIOUS
  <2> HIDE DEF F
  <2> QED
    BY <2>4, <2>5
<1> HIDE DEF T
<1>4. n \in T
  BY <1>2, <1>3, Induction
<1>5. PICK f : f = F(f, n) /\ FlattenSeq(texts) = f[n]
  <2>1. \E g : g = F(g, n)
    BY <1>4 DEF T
  <2> HIDE DEF F
  <2> QED
    BY <1>1, <2>1
<1>6. ASSUME NEW k \in 1 .. n PROVE f[k] = IF k = 1 THEN texts[k] ELSE f[k - 1] \o texts[k]
  <2>1. f = [i \in 1 .. n |-> IF i = 1 THEN texts[i] ELSE f[i - 1] \o texts[i]]
    BY <1>5
  <2> QED
    BY <2>1
<1>7. 1 \in 1 .. n /\ \A k \in 2 .. n : k \in 1 .. n /\ k # 1
  OBVIOUS
<1> QED
  BY <1>5, <1>6, <1>7

\* One text behind another
LEMMA Joined ==
  ASSUME NEW s \in Units, NEW t \in Units
  PROVE  /\ s \o t \in Units /\ Len(s \o t) = Len(s) + Len(t) /\ Starts(s \o t, s)
         /\ \A j \in 1 .. Len(t) : (s \o t)[Len(s) + j] = t[j]
<1>1. Len(s) \in Nat /\ Len(t) \in Nat
  BY DEF Units
<1>2. /\ s \o t \in Seq(STRING) /\ Len(s \o t) = Len(s) + Len(t)
      /\ \A i \in 1 .. Len(s) + Len(t) :
           (s \o t)[i] = IF i <= Len(s) THEN s[i] ELSE t[i - Len(s)]
  BY ConcatProperties DEF Units
<1>3. ASSUME NEW i \in 1 .. Len(s) PROVE s[i] = (s \o t)[i]
  <2>1. i \in 1 .. Len(s) + Len(t) /\ i <= Len(s)
    BY <1>1
  <2> QED
    BY <1>2, <2>1
<1>4. ASSUME NEW j \in 1 .. Len(t) PROVE (s \o t)[Len(s) + j] = t[j]
  <2>1. Len(s) + j \in 1 .. Len(s) + Len(t) /\ ~ (Len(s) + j <= Len(s)) /\ (Len(s) + j) - Len(s) = j
    BY <1>1
  <2> QED
    BY <1>2, <2>1
<1>5. Starts(s \o t, s)
  BY <1>1, <1>2, <1>3 DEF Starts
<1> QED
  BY <1>2, <1>4, <1>5 DEF Units

\* So the requests of a stream lie one behind the other in its text.
LEMMA EndsExist ==
  ASSUME NEW s, IsStream(s)
  PROVE  \E e : EndsAt(s, e)
<1> DEFINE texts == [i \in DOMAIN s |-> s[i].text]
           n == Len(s)
<1>1. /\ n \in Nat /\ DOMAIN s = 1 .. n
      /\ \A k \in 1 .. n : texts[k] = s[k].text /\ texts[k] \in Units
      /\ Text(s) = FlattenSeq(texts) /\ texts \in Seq(Units) /\ Len(texts) = n
  <2>1. n \in Nat /\ DOMAIN s = 1 .. n /\ \A k \in 1 .. n : s[k].text \in Units
    BY DEF IsStream
  <2>2. texts \in [1 .. n -> Units]
    BY <2>1
  <2> HIDE DEF n
  <2> QED
    BY <2>1, <2>2 DEF Text
<1> HIDE DEF texts
<1>2. CASE n = 0
  <2>1. Text(s) = texts /\ texts = <<>>
    BY <1>1, <1>2 DEF FlattenSeq
  <2>2. Text(s) \in Units /\ Len(Text(s)) = 0
    BY <2>1, EmptySeq DEF Units
  <2>3. EndsAt(s, [k \in 0 .. 0 |-> 0])
    BY <1>2, <2>2 DEF EndsAt
  <2> QED
    BY <2>3
<1>3. CASE n # 0
  <2>0. n \in Nat \ {0}
    BY <1>1, <1>3
  <2>1. PICK f : /\ FlattenSeq(texts) = f[n] /\ f[1] = texts[1]
                 /\ \A k \in 2 .. n : f[k] = f[k - 1] \o texts[k]
    <3> HIDE DEF n
    <3> QED
      BY <1>1, <2>0, FlattenRun
  <2> DEFINE g == [k \in 0 .. n |-> IF k = 0 THEN <<>> ELSE f[k]]
             e == [k \in 0 .. n |-> Len(g[k])]
             T == {k \in 0 .. n : g[k] \in Units /\ \A i \in 0 .. k : Starts(g[k], g[i])}
  <2> HIDE DEF n
  <2>2. <<>> \in Units /\ Len(<<>>) = 0
    BY EmptySeq DEF Units
  <2>3. g[0] = <<>> /\ g[n] = Text(s)
    BY <1>1, <2>0, <2>1
  <2>4. ASSUME NEW k \in 1 .. n, g[k - 1] \in Units PROVE g[k] = g[k - 1] \o texts[k]
    <3>1. CASE k = 1
      <4>1. g[k] = texts[1] /\ g[k - 1] = <<>>
        BY <2>0, <2>1, <3>1
      <4>2. texts[1] \in Seq(STRING)
        BY <1>1, <2>0 DEF Units
      <4>3. <<>> \o texts[1] = texts[1]
        BY <4>2, ConcatEmptySeq
      <4> QED
        BY <3>1, <4>1, <4>3
    <3>2. CASE k # 1
      <4>1. k \in 2 .. n /\ k \in 0 .. n /\ k - 1 \in 0 .. n /\ k # 0 /\ k - 1 # 0
        BY <1>1, <3>2
      <4>2. g[k] = f[k] /\ g[k - 1] = f[k - 1]
        BY <4>1
      <4> HIDE DEF g
      <4> QED
        BY <2>1, <4>1, <4>2
    <3> QED
      BY <3>1, <3>2
  <2> HIDE DEF g
  <2>5. 0 \in T
    <3>1. Starts(g[0], g[0]) /\ g[0] \in Units
      BY <2>2, <2>3 DEF Starts
    <3>2. \A i \in 0 .. 0 : i = 0
      OBVIOUS
    <3> QED
      BY <1>1, <3>1, <3>2
  <2>6. ASSUME NEW k \in 1 .. n, k - 1 \in T PROVE k \in T
    <3>1. g[k - 1] \in Units /\ \A i \in 0 .. k - 1 : Starts(g[k - 1], g[i])
      BY <2>6
    <3>2. texts[k] \in Units /\ g[k] = g[k - 1] \o texts[k]
      BY <1>1, <2>4, <3>1
    <3>3. g[k] \in Units /\ Starts(g[k], g[k - 1])
      BY <3>1, <3>2, Joined
    <3>4. ASSUME NEW i \in 0 .. k PROVE Starts(g[k], g[i])
      <4>1. CASE i = k
        BY <3>3, <4>1 DEF Starts, Units
      <4>2. CASE i # k
        <5>1. i \in 0 .. k - 1
          BY <4>2
        <5>2. Starts(g[k - 1], g[i])
          BY <3>1, <5>1
        <5>3. Len(g[k]) \in Nat /\ Len(g[k - 1]) \in Nat
          BY <3>1, <3>3 DEF Units
        <5>4. Len(g[i]) <= Len(g[k - 1]) /\ \A j \in 1 .. Len(g[i]) : g[i][j] = g[k - 1][j]
          BY <5>2 DEF Starts
        <5> QED
          BY <3>3, <5>3, <5>4 DEF Starts
      <4> QED
        BY <4>1, <4>2
    <3>5. k \in 0 .. n
      BY <1>1
    <3> QED
      BY <3>3, <3>4, <3>5
  <2>7. ASSUME NEW k \in 0 .. n PROVE k \in T
    <3>1. k \in Nat /\ \A i \in 1 .. k : i \in 1 .. n
      BY <1>1
    <3> HIDE DEF T
    <3>2. \A i \in 1 .. k : i - 1 \in T => i \in T
      BY <2>6, <3>1
    <3> QED
      BY <2>5, <3>1, <3>2, Induction
  <2>8. /\ \A k \in 0 .. n : g[k] \in Units /\ Starts(Text(s), g[k])
        /\ \A k \in 0 .. n : e[k] = Len(g[k]) /\ e[k] \in Nat
    <3>1. n \in 0 .. n
      BY <1>1
    <3>2. \A k \in 0 .. n : g[k] \in Units /\ Starts(g[n], g[k])
      BY <2>7, <3>1
    <3>3. \A k \in 0 .. n : e[k] = Len(g[k])
      OBVIOUS
    <3>4. \A k \in 0 .. n : Len(g[k]) \in Nat
      BY <3>2 DEF Units
    <3> QED
      BY <2>3, <3>2, <3>3, <3>4
  <2>9. Text(s) \in Units /\ e[0] = 0 /\ e[n] = Len(Text(s))
    <3>1. n \in 0 .. n /\ 0 \in 0 .. n
      BY <1>1
    <3> HIDE DEF e
    <3> QED
      BY <2>2, <2>3, <2>8, <3>1
  <2> HIDE DEF e, T
  <2>10. ASSUME NEW k \in 1 .. n
         PROVE  /\ e[k] = e[k - 1] + Len(s[k].text)
                /\ \A j \in 1 .. Len(s[k].text) : Text(s)[e[k - 1] + j] = s[k].text[j]
    <3>1. k \in 0 .. n /\ k - 1 \in 0 .. n
      BY <1>1
    <3>2. g[k - 1] \in Units /\ texts[k] \in Units /\ texts[k] = s[k].text
      BY <1>1, <2>8, <3>1
    <3>3. g[k] = g[k - 1] \o texts[k]
      BY <2>4, <3>2
    <3> DEFINE a == g[k - 1]
               t == texts[k]
               c == g[k]
    <3>4. a \in Units /\ t \in Units /\ c = a \o t /\ Len(a) \in Nat /\ Len(t) \in Nat
      BY <3>2, <3>3 DEF Units
    <3>5. \A i \in 1 .. Len(c) : Text(s)[i] = c[i]
      BY <2>8, <3>1 DEF Starts
    <3> HIDE DEF a, t, c
    <3>6. Len(c) = Len(a) + Len(t) /\ \A j \in 1 .. Len(t) : c[Len(a) + j] = t[j]
      BY <3>4, Joined
    <3>7. \A j \in 1 .. Len(t) : Text(s)[Len(a) + j] = t[j]
      <4>1. \A j \in 1 .. Len(t) : Len(a) + j \in 1 .. Len(c)
        BY <3>4, <3>6
      <4> QED
        BY <3>5, <3>6, <4>1
    <3>8. e[k] = Len(g[k]) /\ e[k - 1] = Len(g[k - 1])
      BY <2>8, <3>1
    <3> QED
      BY <3>2, <3>6, <3>7, <3>8 DEF a, t, c
  <2>11. EndsAt(s, e)
    BY <2>8, <2>9, <2>10 DEF EndsAt, n
  <2> QED
    BY <2>11
<1> QED
  BY <1>2, <1>3

Ends(s) == CHOOSE e : EndsAt(s, e)

\* Ends picks those.
LEMMA EndsAre == ASSUME NEW s, IsStream(s) PROVE EndsAt(s, Ends(s))
BY EndsExist DEF Ends

\* What is behind the first k requests of a stream is the text of the others.
LEMMA RestIsText ==
  ASSUME NEW s, IsStream(s), NEW k \in 0 .. Len(s), NEW t \in Units,
         Len(t) = Len(Text(s)) - Ends(s)[k],
         \A j \in 1 .. Len(t) : t[j] = Text(s)[Ends(s)[k] + j]
  PROVE  Text(After(s, k)) = t
<1> DEFINE n == Len(s)
           r == After(s, k)
           m == n - k
           e == Ends(s)
           f == Ends(r)
<1>1. /\ n \in Nat /\ k \in Nat /\ m \in Nat /\ k + m = n
      /\ \A i \in 1 .. n : s[i].text \in Units
  BY DEF IsStream
<1>2. /\ Len(r) = m /\ DOMAIN r = 1 .. m
      /\ \A i \in 1 .. m : r[i] = s[k + i]
  <2> DEFINE S == {s[i] : i \in k + 1 .. n}
  <2>1. \A i \in k + 1 .. n : s[i] \in S
    OBVIOUS
  <2>2. k + 1 \in Int /\ n \in Int
    BY <1>1
  <2> HIDE DEF S
  <2>3. /\ SubSeq(s, k + 1, n) \in Seq(S)
        /\ Len(SubSeq(s, k + 1, n)) = IF k + 1 <= n THEN n - (k + 1) + 1 ELSE 0
        /\ \A i \in 1 .. n - (k + 1) + 1 : SubSeq(s, k + 1, n)[i] = s[k + 1 + i - 1]
    BY <2>1, <2>2, SubSeqProperties
  <2>4. r = SubSeq(s, k + 1, n)
    BY DEF After
  <2> HIDE DEF r
  <2>5. Len(r) = m
    BY <1>1, <2>3, <2>4
  <2>6. DOMAIN r = 1 .. m
    BY <2>3, <2>4, <2>5, LenProperties
  <2>7. ASSUME NEW i \in 1 .. m PROVE r[i] = s[k + i]
    <3>1. i \in 1 .. n - (k + 1) + 1 /\ k + 1 + i - 1 = k + i
      BY <1>1
    <3> QED
      BY <2>3, <2>4, <3>1
  <2> QED
    BY <2>5, <2>6, <2>7
<1> HIDE DEF r, n, m
<1>3. \A i \in 1 .. m : k + i \in 1 .. n /\ k + i - 1 = k + (i - 1) /\ i - 1 \in 0 .. m
  BY <1>1
<1>4. IsStream(r)
  BY <1>1, <1>2, <1>3 DEF IsStream
<1>5. EndsAt(s, e) /\ EndsAt(r, f)
  BY <1>4, EndsAre
<1> HIDE DEF e, f
<1>6. /\ Text(s) \in Units /\ e[n] = Len(Text(s))
      /\ \A i \in 0 .. n : e[i] \in Nat
      /\ \A i \in 1 .. n : e[i] = e[i - 1] + Len(s[i].text)
      /\ \A i \in 1 .. n : \A j \in 1 .. Len(s[i].text) : Text(s)[e[i - 1] + j] = s[i].text[j]
  BY <1>5 DEF EndsAt, n
<1>7. /\ Text(r) \in Units /\ f[0] = 0 /\ f[m] = Len(Text(r))
      /\ \A i \in 0 .. m : f[i] \in Nat
      /\ \A i \in 1 .. m : f[i] = f[i - 1] + Len(r[i].text)
      /\ \A i \in 1 .. m : \A j \in 1 .. Len(r[i].text) : Text(r)[f[i - 1] + j] = r[i].text[j]
  BY <1>2, <1>5 DEF EndsAt
<1>8. k \in 0 .. n /\ e[k] \in Nat
  BY <1>1, <1>6
<1> DEFINE T == {i \in 0 .. m : /\ f[i] = e[k + i] - e[k]
                               /\ \A p \in 1 .. f[i] : Text(r)[p] = Text(s)[e[k] + p]}
<1>9. 0 \in T
  <2>1. k + 0 = k /\ 0 \in 0 .. m
    BY <1>1
  <2> QED
    BY <1>7, <1>8, <2>1
<1>10. ASSUME NEW i \in 1 .. m, i - 1 \in T PROVE i \in T
  <2> DEFINE q == r[i].text
             a == f[i - 1]
             b == f[i]
             c == e[k + (i - 1)]
             d == e[k + i]
             z == e[k]
  <2>0. k + i \in 1 .. n /\ k + i - 1 = k + (i - 1) /\ i - 1 \in 0 .. m /\ k + (i - 1) \in 0 .. n
    BY <1>1
  <2>1. a = c - z /\ \A p \in 1 .. a : Text(r)[p] = Text(s)[z + p]
    BY <1>10
  <2>2. q \in Units /\ q = s[k + i].text /\ Len(q) \in Nat
    BY <1>1, <1>2, <2>0 DEF Units
  <2>3. /\ b = a + Len(q) /\ a \in Nat
        /\ \A j \in 1 .. Len(q) : Text(r)[a + j] = q[j]
    BY <1>7, <2>0
  <2>4. /\ d = c + Len(q) /\ c \in Nat /\ z \in Nat
        /\ \A j \in 1 .. Len(q) : Text(s)[c + j] = q[j]
    BY <1>6, <1>8, <2>0, <2>2
  <2> HIDE DEF a, b, c, d, z, q
  <2>5. b = d - z
    BY <2>1, <2>2, <2>3, <2>4
  <2>6. ASSUME NEW p \in 1 .. b PROVE Text(r)[p] = Text(s)[z + p]
    <3>1. CASE p <= a
      <4>1. p \in 1 .. a
        BY <2>3, <3>1
      <4> QED
        BY <2>1, <4>1
    <3>2. CASE ~ (p <= a)
      <4> DEFINE j == p - a
      <4>1. j \in 1 .. Len(q) /\ a + j = p
        BY <2>2, <2>3, <3>2
      <4>2. c + j = z + p
        BY <2>1, <2>3, <2>4, <4>1
      <4> HIDE DEF j
      <4> QED
        BY <2>3, <2>4, <4>1, <4>2
    <3> QED
      BY <3>1, <3>2
  <2>7. i \in 0 .. m
    BY <1>1
  <2> QED
    BY <2>5, <2>6, <2>7 DEF b, d, z
<1> HIDE DEF T
<1>11. m \in T
  BY <1>1, <1>9, <1>10, Induction
<1>12. f[m] = e[n] - e[k] /\ \A p \in 1 .. f[m] : Text(r)[p] = Text(s)[e[k] + p]
  BY <1>1, <1>11 DEF T
<1>13. Len(t) = e[n] - e[k] /\ \A j \in 1 .. Len(t) : t[j] = Text(s)[e[k] + j]
  BY <1>6 DEF e
<1>14. Len(Text(r)) = Len(t) /\ \A j \in 1 .. Len(Text(r)) : Text(r)[j] = t[j]
  BY <1>7, <1>12, <1>13
<1>15. Text(r) = t
  BY <1>7, <1>14, SeqEqual DEF Units
<1> QED
  BY <1>15 DEF r

-----------------------------------------------------------------------------
(* One request, and what a connection received of it or with it            *)

\* Cut off to a bit field an offset does not grow, and stays what it is if it fits.
LEMMA Wrapped ==
  ASSUME NEW a \in Nat, NEW m \in Nat \ {0}
  PROVE  a % m \in 0 .. a /\ (a < m => a % m = a)
<1>1. a % m \in Nat /\ m > 0
  OBVIOUS
<1>2. a % m <= a
  BY SMTT(20)
<1>3. ASSUME a < m PROVE a % m = a
  BY <1>1, <1>3, SMTT(20)
<1> QED
  BY <1>1, <1>2, <1>3

\* A request that began to arrive is never an error.  It is taken when all of it is there, and not
\* before; if its offsets fit it is taken to its end, and it is understood as it would be alone
\* unless it has a form and there is more behind it.
LEMMA RequestTaken ==
  ASSUME NEW rq, rq.text \in Units, OnePacket(rq), Understood(rq),
         NEW b \in Units, b # <<>>, Starts(b, rq.text) \/ Starts(rq.text, b),
         NEW v, v = HttpCheck(b), NEW length, length = v.body + v.content
  PROVE  /\ v.is # "error"
         /\ v.is = "full" =>
              /\ Starts(b, rq.text) /\ length \in 0 .. Len(rq.text)
              /\ Short(rq) =>
                   /\ length = Len(rq.text)
                   /\ \A r \in Results(b, v) : Len(b) = length \/ ~ rq.form => Means(r, rq)
         /\ v.is # "full" => Len(b) < Len(rq.text)
         /\ Len(rq.text) > 0
<1> DEFINE q == rq.text
           p == Packet(q)
<1>0. q \in Units /\ Len(q) \in Nat /\ Len(b) \in Nat /\ (Starts(b, q) \/ Starts(q, b))
  BY DEF Units
<1>1. p.is = "full" /\ p.body + p.content = Len(q)
  BY DEF OnePacket
<1>2. /\ p.header = Find(q, LF) /\ p.header \in 1 .. Len(q)
      /\ p.body \in Nat /\ p.content \in Nat
      /\ HeaderEnds(q, p.header + 1) # {}
      /\ \A c \in Units : Starts(c, q) => Packet(c) = p
  <2>1. Starts(q, q)
    BY <1>0 DEF Starts
  <2> QED
    BY <1>0, <1>1, <2>1, FullIsFinal
<1>3. PacketType(q) # "error"
  BY <1>0, <1>1, VerdictsAre
<1>4. v.is = Packet(b).is /\ v.is \in {"error", "more", "full"}
  BY VerdictsAre
<1>5. Starts(b, q) => Packet(b) = p
  BY <1>2
<1>6. v.is # "error"
  <2>1. CASE Starts(b, q)
    BY <1>1, <1>4, <1>5, <2>1
  <2>2. CASE Starts(q, b)
    <3>1. PacketType(b) # "error"
      BY <1>0, <1>3, <2>2, NoErrorBefore
    <3> QED
      BY <3>1, VerdictsAre
  <2> QED
    BY <1>0, <2>1, <2>2
<1>7. ASSUME v.is = "full" PROVE Starts(b, q)
  <2>1. ASSUME Starts(q, b) PROVE Len(b) = Len(q)
    <3>1. p = Packet(b) /\ Packet(b).body + Packet(b).content <= Len(b)
      BY <1>0, <1>4, <1>7, <2>1, FullIsFinal
    <3>2. Len(q) <= Len(b)
      BY <1>1, <3>1
    <3>3. Len(b) <= Len(q)
      BY <2>1 DEF Starts
    <3> QED
      BY <1>0, <3>2, <3>3
  <2>2. ASSUME Starts(q, b), Len(b) = Len(q) PROVE Starts(b, q)
    BY <1>0, <2>2 DEF Starts
  <2> QED
    BY <1>0, <2>1, <2>2
<1>8. ASSUME v.is # "full" PROVE Len(b) < Len(q)
  <2>1. ~ Starts(b, q)
    BY <1>1, <1>4, <1>5, <1>8
  <2>2. Starts(q, b)
    BY <1>0, <2>1
  <2>3. Len(b) # Len(q)
    BY <1>0, <2>1, <2>2 DEF Starts
  <2> QED
    BY <1>0, <2>2, <2>3 DEF Starts
<1> HIDE DEF p
<1>9. ASSUME v.is = "full" PROVE v.header = p.header % HeaderWrap /\ v.body = p.body % BodyWrap
                                 /\ v.content = p.content
  BY <1>5, <1>7, <1>9, VerdictsAre
<1>10. ASSUME v.is = "full"
       PROVE  /\ length \in 0 .. Len(q)
              /\ Short(rq) => v.header = p.header /\ v.body = p.body /\ length = Len(q)
  <2>1. BodyWrap \in Nat \ {0} /\ HeaderWrap \in Nat \ {0}
    BY HttpParserAssumption
  <2>2. p.body % BodyWrap \in 0 .. p.body
    BY <1>2, <2>1, Wrapped
  <2>3. length = (p.body % BodyWrap) + p.content
    BY <1>9, <1>10
  <2>4. length \in 0 .. Len(q)
    BY <1>0, <1>1, <1>2, <2>2, <2>3
  <2>5. ASSUME Short(rq) PROVE v.header = p.header /\ v.body = p.body
    <3>1. p.header < HeaderWrap /\ Len(q) < BodyWrap
      BY <1>2, <2>5 DEF Short
    <3>2. p.body < BodyWrap /\ p.header \in Nat
      BY <1>0, <1>1, <1>2, <2>1, <3>1
    <3>3. p.body % BodyWrap = p.body /\ p.header % HeaderWrap = p.header
      BY <1>2, <2>1, <3>1, <3>2, Wrapped
    <3> QED
      BY <1>9, <1>10, <3>3
  <2> QED
    BY <1>1, <1>9, <1>10, <2>4, <2>5
<1>11. ASSUME v.is = "full", Short(rq), NEW r \in Results(b, v), Len(b) = length \/ ~ rq.form
       PROVE  Means(r, rq)
  <2>1. v.header = p.header /\ v.body = p.body /\ v.content = p.content /\ length = Len(q)
    BY <1>9, <1>10, <1>11
  <2>2. Starts(b, q)
    BY <1>7, <1>11
  <2>3. v = HttpCheck(q)
    BY <1>2, <2>2 DEF HttpCheck, p
  <2>4. Means(Parsed(q, v), rq) /\ (IsForm(q, v) => rq.form)
    BY <1>11, <2>3 DEF Understood
  <2>5. r = Parsed(b, v)
    <3>1. Find(b, LF) = Find(q, LF)
      <4>1. Find(q, LF) # 0
        BY <1>0, <1>2
      <4> QED
        BY <1>0, <2>2, <4>1, FindLonger
    <3> QED
      BY <1>2, <1>11, <2>1, <3>1 DEF Results
  <2>6. CASE Len(b) = length
    <3>1. b = q
      <4>1. \A i \in 1 .. Len(b) : b[i] = q[i]
        BY <2>1, <2>2, <2>6 DEF Starts
      <4> QED
        BY <1>0, <2>1, <2>6, <4>1, SeqEqual DEF Units
    <3> QED
      BY <2>4, <2>5, <3>1
  <2>7. CASE ~ rq.form
    <3>1. Parsed(b, v) = Parsed(q, v)
      <4>1. ~ IsForm(q, v)
        BY <2>4, <2>7
      <4>2. v.header = Find(q, LF) /\ v.header \in 1 .. Len(q) /\ HeaderEnds(q, v.header + 1) # {}
            /\ v.body \in Nat /\ v.content \in Nat /\ v.body + v.content <= Len(q)
        BY <1>0, <1>1, <1>2, <2>1
      <4> HIDE DEF q
      <4> QED
        BY <1>0, <1>3, <2>2, <4>1, <4>2, ParsedLonger
    <3> QED
      BY <2>4, <2>5, <3>1
  <2> QED
    BY <1>11, <2>6, <2>7
<1>12. Len(q) > 0
  BY <1>0, <1>2
<1> QED
  BY <1>6, <1>7, <1>8, <1>10, <1>11, <1>12

-----------------------------------------------------------------------------
(* A GET request, from what a client means to what the module is given     *)

\* x stands in s behind the first i units.
Holds(s, i, x) == i + Len(x) <= Len(s) /\ \A j \in 1 .. Len(x) : s[i + j] = x[j]

\* Two texts one behind the other
LEMMA Glued ==
  ASSUME NEW U, NEW a \in Seq(U), NEW c \in Seq(U)
  PROVE  /\ a \o c \in Seq(U) /\ Len(a \o c) = Len(a) + Len(c)
         /\ Holds(a \o c, 0, a) /\ Holds(a \o c, Len(a), c)
<1> DEFINE s == a \o c
           m == Len(a)
           l == Len(c)
<1>1. m \in Nat /\ l \in Nat
  OBVIOUS
<1>2. /\ s \in Seq(U) /\ Len(s) = m + l
      /\ \A i \in 1 .. m + l : s[i] = IF i <= m THEN a[i] ELSE c[i - m]
  BY ConcatProperties
<1> HIDE DEF s, m, l
<1>3. Holds(s, 0, a)
  <2>1. 0 + m <= Len(s) /\ \A j \in 1 .. m : 0 + j = j /\ j \in 1 .. m + l /\ j <= m
    BY <1>1, <1>2
  <2>2. \A j \in 1 .. m : s[0 + j] = a[j]
    BY <1>2, <2>1
  <2> QED
    BY <2>1, <2>2 DEF Holds, m
<1>4. Holds(s, m, c)
  <2>1. m + l <= Len(s) /\ \A j \in 1 .. l : /\ m + j \in 1 .. m + l
                                            /\ ~ (m + j <= m) /\ (m + j) - m = j
    BY <1>1, <1>2
  <2>2. \A j \in 1 .. l : s[m + j] = c[j]
    BY <1>2, <2>1
  <2> QED
    BY <2>1, <2>2 DEF Holds, l
<1> QED
  BY <1>2, <1>3, <1>4 DEF s, m, l

\* What stands in s is the part of it that is as long.
LEMMA HeldIs ==
  ASSUME NEW U, NEW s, Len(s) \in Nat, NEW x \in Seq(U), NEW i \in Nat, Holds(s, i, x)
  PROVE  SubSeq(s, i + 1, i + Len(x)) = x
<1> DEFINE l == Len(x)
           y == SubSeq(s, i + 1, i + l)
<1>1. l \in Nat /\ \A j \in 1 .. l : x[j] \in U
  BY ElementOfSeq
<1>2. \A j \in 1 .. l : s[i + j] = x[j]
  BY DEF Holds
<1> HIDE DEF l
<1>3. \A k \in i + 1 .. i + l : s[k] \in U
  <2> SUFFICES ASSUME NEW k \in i + 1 .. i + l PROVE s[k] \in U
    OBVIOUS
  <2>1. k - i \in 1 .. l /\ i + (k - i) = k
    BY <1>1
  <2> QED
    BY <1>1, <1>2, <2>1
<1>4. /\ y \in Seq(U)
      /\ Len(y) = (IF i + 1 <= i + l THEN (i + l) - (i + 1) + 1 ELSE 0)
      /\ \A k \in 1 .. (i + l) - (i + 1) + 1 : y[k] = s[(i + 1) + k - 1]
  <2>1. i + 1 \in Int /\ i + l \in Int
    BY <1>1
  <2> QED
    BY <1>3, <2>1, SubSeqProperties
<1> HIDE DEF y
<1>5. Len(y) = l /\ \A k \in 1 .. l : y[k] = x[k]
  <2>1. /\ (i + l) - (i + 1) + 1 = l /\ (~ (i + 1 <= i + l) => l = 0)
        /\ \A k \in 1 .. l : (i + 1) + k - 1 = i + k
    BY <1>1
  <2> QED
    BY <1>2, <1>4, <2>1
<1>6. y = x
  BY <1>4, <1>5, SeqEqual DEF l
<1> QED
  BY <1>6 DEF y, l

\* What stands in a part of s stands in s.
LEMMA HeldIn ==
  ASSUME NEW s, NEW x, NEW y, NEW i \in Nat, NEW k \in Nat,
         Len(s) \in Nat, Len(x) \in Nat, Len(y) \in Nat, Holds(s, i, x), Holds(x, k, y)
  PROVE  Holds(s, i + k, y)
<1> DEFINE m == Len(x)
           l == Len(y)
           n == Len(s)
<1>1. /\ i + m <= n /\ k + l <= m
      /\ \A j \in 1 .. m : s[i + j] = x[j]
      /\ \A j \in 1 .. l : x[k + j] = y[j]
  BY DEF Holds
<1>2. m \in Nat /\ l \in Nat /\ n \in Nat
  OBVIOUS
<1> HIDE DEF m, l, n
<1>3. ASSUME NEW j \in 1 .. l PROVE s[(i + k) + j] = y[j]
  <2>1. k + j \in 1 .. m /\ i + (k + j) = (i + k) + j
    BY <1>1, <1>2
  <2> QED
    BY <1>1, <2>1
<1>4. (i + k) + l <= n
  BY <1>1, <1>2
<1> QED
  BY <1>3, <1>4 DEF Holds, m, l, n

\* What is asked for, as it stands between the method and the version
TargetText(g) ==
  LET path == g.dir \o <<"/">> \o g.obj
  IN  IF g.query = <<>> THEN path ELSE path \o <<"?">> \o g.query

\* The request line, the headers and the empty line
GetText(g) ==
  <<"G", "E", "T", SP>> \o
    (TargetText(g) \o ((<<SP>> \o (g.version \o <<CR, LF>>)) \o (g.lines \o <<CR, LF>>)))

\* g is a GET request for an object in a directory, with a query and lines of headers that write
\* its params and header: no more of each than the server takes, what would end them escaped, and
\* no Content-Length.
IsGet(g) ==
  /\ Encodes(g.dir, g.directory) /\ None(g.dir, {"?", SP, LF})
  /\ Encodes(g.obj, g.object) /\ None(g.obj, {"/", "?", SP, LF})
  /\ g.query \in Units /\ None(g.query, {SP, LF})
  /\ IsWritten(g.query, "&", "=", g.params) /\ Len(g.params) <= ParamMax
  /\ g.version \in Units /\ None(g.version, {LF})
  /\ g.lines \in Units /\ None(g.lines, {CL})
  /\ IsWritten(g.lines, LF, ":", g.header) /\ Len(g.header) <= ParamMax
  /\ g.lines # <<>> => g.lines[Len(g.lines)] = LF
  /\ \A i \in 1 .. Len(g.lines) : i = 1 \/ g.lines[i - 1] = LF => g.lines[i] \notin {CR, LF}

\* What the module is to be given
GetMeans(g) ==
  Result(0, IF g.directory = <<>> THEN <<"/">> ELSE g.directory, g.object, g.params, g.header,
         <<>>, <<>>)

\* Where its parts are
GetParts(t, g, l, f, n) ==
  /\ l \in Nat /\ f \in Nat /\ n \in Nat
  /\ l = Len(TargetText(g)) /\ n = Len(g.lines)
  /\ t[1] = "G" /\ t[2] = "E" /\ t[3] = "T" /\ t[4] = SP
  /\ Holds(t, 4, TargetText(g))
  /\ t[4 + l + 1] = SP /\ 4 + l + 1 < f
  /\ \A i \in 4 + l + 1 .. f - 1 : t[i] # LF
  /\ t[f] = LF
  /\ Holds(t, f, g.lines)
  /\ t[f + n + 1] = CR /\ t[f + n + 2] = LF
  /\ Len(t) = f + n + 2

\* What is asked for comes apart at the ? and at the last / in front of it.
LEMMA TargetParts ==
  ASSUME NEW g, IsGet(g), NEW U, STRING \subseteq U, {"/", "?"} \subseteq U
  PROVE  /\ TargetText(g) \in Seq(U) /\ None(TargetText(g), {SP, LF})
         /\ LET ask  == Find(TargetText(g), "?")
                path == IF ask = 0 THEN TargetText(g) ELSE Before(TargetText(g), ask)
            IN  /\ (IF ask = 0 THEN <<>> ELSE After(TargetText(g), ask)) = g.query
                /\ FindLast(path, "/") = Len(g.dir) + 1
                /\ Before(path, Len(g.dir) + 1) = g.dir
                /\ After(path, Len(g.dir) + 1) = g.obj
<1> DEFINE d == g.dir
           o == g.obj
           q == g.query
           w == d \o <<"/">>
           p == w \o o
           x == p \o <<"?">>
<1>0. "/" # SP /\ "/" # LF /\ "?" # SP /\ "?" # LF /\ "/" # "?"
  BY DEF SP, LF
<1>1. ASSUME NEW s \in Seq(STRING) PROVE s \in Seq(U)
  <2>1. PICK k \in Nat : s \in [1 .. k -> STRING]
    BY SeqDef
  <2>2. s \in [1 .. k -> U]
    BY <2>1
  <2> QED
    BY <2>2, SeqDef
<1>2. d \in Seq(STRING) /\ o \in Seq(STRING) /\ q \in Seq(STRING)
  BY DEF IsGet, Encodes, Units
<1>3. /\ d \in Seq(U) /\ o \in Seq(U) /\ q \in Seq(U)
      /\ None(d, {"?", SP, LF}) /\ None(o, {"/", "?", SP, LF}) /\ None(q, {SP, LF})
  BY <1>1, <1>2 DEF IsGet
<1>4. TargetText(g) = IF q = <<>> THEN p ELSE p \o <<"?">> \o q
  BY Zenon DEF TargetText
<1> HIDE DEF d, o, q
<1>5. Len(d) \in Nat /\ Len(o) \in Nat /\ Len(q) \in Nat
  BY <1>3
<1>6. <<"/">> \in Seq(U) /\ Len(<<"/">>) = 1 /\ <<"/">>[1] = "/"
  OBVIOUS
<1>7. <<"?">> \in Seq(U) /\ Len(<<"?">>) = 1 /\ <<"?">>[1] = "?"
  OBVIOUS
<1>8. /\ w \in Seq(U) /\ Len(w) = Len(d) + 1
      /\ \A i \in 1 .. Len(d) : w[i] = d[i]
      /\ w[Len(d) + 1] = "/"
  <2>1. /\ w \in Seq(U) /\ Len(w) = Len(d) + Len(<<"/">>)
        /\ Holds(w, 0, d) /\ Holds(w, Len(d), <<"/">>)
    BY <1>3, <1>6, Glued
  <2> HIDE DEF w
  <2>2. \A i \in 1 .. Len(d) : w[0 + i] = d[i]
    BY <2>1 DEF Holds
  <2>3. w[Len(d) + 1] = <<"/">>[1]
    BY <1>6, <2>1 DEF Holds
  <2>4. \A i \in 1 .. Len(d) : 0 + i = i
    BY <1>5
  <2> QED
    BY <1>6, <2>1, <2>2, <2>3, <2>4
<1> HIDE DEF w
<1>9. /\ p \in Seq(U) /\ Len(p) = Len(d) + 1 + Len(o)
      /\ \A i \in 1 .. Len(d) : p[i] = d[i]
      /\ p[Len(d) + 1] = "/"
      /\ \A i \in 1 .. Len(o) : p[Len(d) + 1 + i] = o[i]
  <2>1. /\ p \in Seq(U) /\ Len(p) = Len(w) + Len(o)
        /\ Holds(p, 0, w) /\ Holds(p, Len(w), o)
    BY <1>3, <1>8, Glued
  <2> HIDE DEF p
  <2>2. \A i \in 1 .. Len(d) + 1 : p[0 + i] = w[i]
    BY <1>8, <2>1 DEF Holds
  <2>3. \A i \in 1 .. Len(o) : p[Len(d) + 1 + i] = o[i]
    BY <1>8, <2>1 DEF Holds
  <2>4. \A i \in 1 .. Len(d) : 0 + i = i /\ i \in 1 .. Len(d) + 1
    BY <1>5
  <2>5. 0 + (Len(d) + 1) = Len(d) + 1 /\ Len(d) + 1 \in 1 .. Len(d) + 1
    BY <1>5
  <2>6. \A i \in 1 .. Len(d) : p[i] = d[i]
    BY <1>8, <2>2, <2>4
  <2>7. p[Len(d) + 1] = "/"
    BY <1>8, <2>2, <2>5
  <2> QED
    BY <1>8, <2>1, <2>3, <2>6, <2>7
<1> HIDE DEF p
<1>10. ASSUME NEW i \in 1 .. Len(p)
       PROVE  \/ i \in 1 .. Len(d)
              \/ i = Len(d) + 1
              \/ i - (Len(d) + 1) \in 1 .. Len(o) /\ Len(d) + 1 + (i - (Len(d) + 1)) = i
  <2> DEFINE a == Len(d)
             c == Len(o)
  <2>1. a \in Nat /\ c \in Nat /\ i \in 1 .. a + 1 + c
    BY <1>5, <1>9
  <2> HIDE DEF a, c
  <2>2. i \in 1 .. a \/ i = a + 1 \/ (i - (a + 1) \in 1 .. c /\ a + 1 + (i - (a + 1)) = i)
    BY <2>1
  <2> QED
    BY <2>2 DEF a, c
<1>11. ASSUME NEW i \in 1 .. Len(p) PROVE p[i] \notin {"?", SP, LF}
  <2>1. CASE i \in 1 .. Len(d)
    BY <1>3, <1>9, <2>1 DEF None
  <2>2. CASE i = Len(d) + 1
    BY <1>0, <1>9, <2>2
  <2>3. CASE i - (Len(d) + 1) \in 1 .. Len(o) /\ Len(d) + 1 + (i - (Len(d) + 1)) = i
    <3>1. p[i] = o[i - (Len(d) + 1)]
      BY <1>9, <2>3
    <3> QED
      BY <1>3, <2>3, <3>1 DEF None
  <2> QED
    BY <1>10, <2>1, <2>2, <2>3
<1>12. FindLast(p, "/") = Len(d) + 1
  <2> DEFINE I == {i \in 1 .. Len(p) : p[i] = "/"}
  <2>1. FindLast(p, "/") = IF I # {} THEN Max(I) ELSE 0
    BY DEF FindLast, SelectLastInSeq
  <2>2. Len(d) + 1 \in 1 .. Len(p)
    BY <1>5, <1>9
  <2>3. Len(d) + 1 \in I /\ I \subseteq Nat
    BY <1>9, <2>2
  <2>4. ASSUME NEW i \in I PROVE i <= Len(d) + 1
    <3>1. i \in 1 .. Len(p) /\ p[i] = "/" /\ i \in Nat
      BY <2>3
    <3>2. CASE i - (Len(d) + 1) \in 1 .. Len(o) /\ Len(d) + 1 + (i - (Len(d) + 1)) = i
      <4>1. p[i] = o[i - (Len(d) + 1)]
        BY <1>9, <3>2
      <4> QED
        BY <1>3, <3>1, <3>2, <4>1 DEF None
    <3>3. CASE i \in 1 .. Len(d) \/ i = Len(d) + 1
      BY <1>5, <3>3
    <3> QED
      BY <1>10, <3>1, <3>2, <3>3
  <2> HIDE DEF I
  <2>5. Max(I) = Len(d) + 1
    BY <2>3, <2>4, MaxIs
  <2> QED
    BY <2>1, <2>3, <2>5
<1>13. Before(p, Len(d) + 1) = d
  <2>1. Holds(p, 0, d)
    <3>1. 0 + Len(d) <= Len(p) /\ \A j \in 1 .. Len(d) : 0 + j = j
      BY <1>5, <1>9
    <3> QED
      BY <1>9, <3>1 DEF Holds
  <2>2. SubSeq(p, 0 + 1, 0 + Len(d)) = d
    <3>1. Len(p) \in Nat /\ 0 \in Nat
      BY <1>9
    <3> QED
      BY <1>3, <2>1, <3>1, HeldIs
  <2>3. 0 + 1 = 1 /\ 0 + Len(d) = (Len(d) + 1) - 1
    BY <1>5
  <2> QED
    BY <2>2, <2>3 DEF Before
<1>14. After(p, Len(d) + 1) = o
  <2>1. Holds(p, Len(d) + 1, o)
    <3>1. Len(d) + 1 + Len(o) <= Len(p)
      BY <1>5, <1>9
    <3> QED
      BY <1>9, <3>1 DEF Holds
  <2>2. SubSeq(p, (Len(d) + 1) + 1, (Len(d) + 1) + Len(o)) = o
    <3>1. Len(p) \in Nat /\ Len(d) + 1 \in Nat
      BY <1>5, <1>9
    <3> QED
      BY <1>3, <2>1, <3>1, HeldIs
  <2> QED
    BY <1>9, <2>2 DEF After
<1>15. CASE q = <<>>
  <2>1. TargetText(g) = p
    BY <1>4, <1>15
  <2>2. Find(p, "?") = 0
    <3>1. Find(p, "?") \in 0 .. Len(p) /\ (Find(p, "?") # 0 => p[Find(p, "?")] = "?")
      BY <1>9, FindFirst
    <3>2. Len(p) \in Nat
      BY <1>9
    <3>3. Find(p, "?") # 0 => Find(p, "?") \in 1 .. Len(p)
      BY <3>1, <3>2
    <3> QED
      BY <1>11, <3>1, <3>3
  <2>3. None(p, {SP, LF})
    BY <1>11 DEF None
  <2> QED
    BY <1>9, <1>12, <1>13, <1>14, <1>15, <2>1, <2>2, <2>3 DEF d, o, q
<1>16. CASE q # <<>>
  <2> DEFINE t == p \o <<"?">> \o q
  <2>1. TargetText(g) = t
    BY <1>4, <1>16
  <2>2. Find(t, "?") # 0 /\ Before(t, Find(t, "?")) = p /\ After(t, Find(t, "?")) = q
    <3>1. \A i \in 1 .. Len(p) : p[i] # "?"
      BY <1>11
    <3> QED
      BY <1>3, <1>9, <3>1, Halves, Zenon
  <2>3. /\ x \in Seq(U) /\ Len(x) = Len(p) + Len(<<"?">>)
        /\ Holds(x, 0, p) /\ Holds(x, Len(p), <<"?">>)
    BY <1>7, <1>9, Glued
  <2>4. t = x \o q
    OBVIOUS
  <2> HIDE DEF x, t
  <2>5. t \in Seq(U) /\ Len(t) = Len(x) + Len(q) /\ Holds(t, 0, x) /\ Holds(t, Len(x), q)
    BY <1>3, <2>3, <2>4, Glued
  <2>6. None(t, {SP, LF})
    <3> SUFFICES ASSUME NEW i \in 1 .. Len(t) PROVE t[i] \notin {SP, LF}
      BY DEF None
    <3> DEFINE a == Len(p)
               c == Len(q)
    <3>1. a \in Nat /\ c \in Nat /\ Len(x) = a + 1 /\ i \in 1 .. a + 1 + c
      BY <1>5, <1>7, <1>9, <2>3, <2>5
    <3>2. /\ \A j \in 1 .. a + 1 : t[0 + j] = x[j]
          /\ \A j \in 1 .. c : t[(a + 1) + j] = q[j]
          /\ \A j \in 1 .. a : x[0 + j] = p[j]
          /\ x[a + 1] = "?"
      BY <1>7, <2>3, <2>5, <3>1 DEF Holds
    <3> HIDE DEF a, c
    <3>3. CASE i <= a
      <4>1. 0 + i = i /\ i \in 1 .. a /\ i \in 1 .. a + 1
        BY <3>1, <3>3
      <4>2. t[i] = p[i]
        BY <3>2, <4>1
      <4> QED
        BY <1>11, <4>1, <4>2 DEF a
    <3>4. CASE i = a + 1
      <4>1. 0 + i = i /\ i \in 1 .. a + 1
        BY <3>1, <3>4
      <4>2. t[i] = "?"
        BY <3>2, <3>4, <4>1
      <4> QED
        BY <1>0, <4>2
    <3>5. CASE i > a + 1
      <4>1. i - (a + 1) \in 1 .. c /\ (a + 1) + (i - (a + 1)) = i
        BY <3>1, <3>5
      <4>2. t[i] = q[i - (a + 1)]
        BY <3>2, <4>1
      <4> QED
        BY <1>3, <4>1, <4>2 DEF None, c
    <3> QED
      BY <3>1, <3>3, <3>4, <3>5
  <2> QED
    BY <1>12, <1>13, <1>14, <2>1, <2>2, <2>5, <2>6 DEF d, o, q
<1> QED
  BY <1>15, <1>16

\* Such a text has these parts.
LEMMA GetHolds ==
  ASSUME NEW g, IsGet(g), NEW t, t = GetText(g)
  PROVE  \E l, f, n : GetParts(t, g, l, f, n)
<1> DEFINE U == STRING \cup {"/", "?", SP, CR, LF, "G", "E", "T"}
           x == TargetText(g)
           v == g.version
           ls == g.lines
           get == <<"G", "E", "T", SP>>
           e == <<CR, LF>>
           c1 == ls \o e
           c2 == v \o e
           c3 == <<SP>> \o c2
           c4 == c3 \o c1
           c5 == x \o c4
           l == Len(x)
           n == Len(ls)
           k == Len(v)
           f == 4 + l + 1 + k + 2
<1>0. SP # LF /\ CR # LF
  BY DEF SP, CR, LF
<1>1. ASSUME NEW s \in Seq(STRING) PROVE s \in Seq(U)
  <2>1. PICK i \in Nat : s \in [1 .. i -> STRING]
    BY SeqDef
  <2>2. s \in [1 .. i -> U]
    BY <2>1
  <2> QED
    BY <2>2, SeqDef
<1>2. v \in Seq(U) /\ ls \in Seq(U) /\ None(v, {LF})
  <2>1. v \in Seq(STRING) /\ ls \in Seq(STRING) /\ None(v, {LF})
    BY DEF IsGet, Units
  <2> QED
    BY <1>1, <2>1
<1>3. x \in Seq(U) /\ None(x, {SP, LF})
  <2>1. STRING \subseteq U /\ {"/", "?"} \subseteq U
    OBVIOUS
  <2> HIDE DEF U
  <2> QED
    BY <2>1, TargetParts
<1>4. /\ get \in Seq(U) /\ Len(get) = 4
      /\ get[1] = "G" /\ get[2] = "E" /\ get[3] = "T" /\ get[4] = SP
  OBVIOUS
<1>5. e \in Seq(U) /\ Len(e) = 2 /\ e[1] = CR /\ e[2] = LF
  OBVIOUS
<1>6. <<SP>> \in Seq(U) /\ Len(<<SP>>) = 1 /\ <<SP>>[1] = SP
  OBVIOUS
<1>7. t = get \o c5
  BY Zenon DEF GetText
<1> HIDE DEF U, get, e, x, v, ls
<1>8. l \in Nat /\ n \in Nat /\ k \in Nat
  BY <1>2, <1>3
<1>9. c1 \in Seq(U) /\ Len(c1) = n + 2 /\ Holds(c1, 0, ls) /\ Holds(c1, n, e)
  BY <1>2, <1>5, Glued
<1>10. c2 \in Seq(U) /\ Len(c2) = k + 2 /\ Holds(c2, 0, v) /\ Holds(c2, k, e)
  BY <1>2, <1>5, Glued
<1> HIDE DEF c1, c2, l, n, k
<1>11. c3 \in Seq(U) /\ Len(c3) = 1 + (k + 2) /\ Holds(c3, 0, <<SP>>) /\ Holds(c3, 1, c2)
  BY <1>6, <1>10, Glued
<1> HIDE DEF c3
<1>12. /\ c4 \in Seq(U) /\ Len(c4) = 1 + (k + 2) + (n + 2)
       /\ Holds(c4, 0, c3) /\ Holds(c4, 1 + (k + 2), c1)
  BY <1>9, <1>11, Glued
<1> HIDE DEF c4
<1>13. /\ c5 \in Seq(U) /\ Len(c5) = l + (1 + (k + 2) + (n + 2))
       /\ Holds(c5, 0, x) /\ Holds(c5, l, c4)
  BY <1>3, <1>12, Glued DEF l
<1> HIDE DEF c5
<1>14. /\ t \in Seq(U) /\ Len(t) = 4 + (l + (1 + (k + 2) + (n + 2)))
       /\ Holds(t, 0, get) /\ Holds(t, 4, c5)
  <2> DEFINE w == get \o c5
  <2>1. /\ w \in Seq(U) /\ Len(w) = Len(get) + Len(c5)
        /\ Holds(w, 0, get) /\ Holds(w, Len(get), c5)
    BY <1>4, <1>13, Glued
  <2>2. t = w
    BY <1>7
  <2> HIDE DEF w
  <2> QED
    BY <1>4, <1>13, <2>1, <2>2
<1>15. /\ Len(x) \in Nat /\ Len(c1) \in Nat /\ Len(c2) \in Nat /\ Len(c3) \in Nat
       /\ Len(c4) \in Nat /\ Len(c5) \in Nat /\ Len(t) \in Nat /\ Len(e) \in Nat
       /\ Len(v) \in Nat /\ Len(ls) \in Nat /\ Len(<<SP>>) \in Nat
  <2>1. Len(x) \in Nat /\ Len(v) \in Nat /\ Len(ls) \in Nat
    BY <1>8 DEF l, n, k
  <2>2. 1 \in Nat /\ 2 \in Nat /\ n + 2 \in Nat /\ k + 2 \in Nat /\ 1 + (k + 2) \in Nat
    BY <1>8
  <2>3. 1 + (k + 2) + (n + 2) \in Nat /\ l + (1 + (k + 2) + (n + 2)) \in Nat
        /\ 4 + (l + (1 + (k + 2) + (n + 2))) \in Nat
    BY <1>8
  <2>4. Len(e) \in Nat /\ Len(<<SP>>) \in Nat
    BY <1>5, <1>6, <2>2
  <2>5. Len(c1) \in Nat /\ Len(c2) \in Nat /\ Len(c3) \in Nat
    BY <1>9, <1>10, <1>11, <2>2
  <2>6. Len(c4) \in Nat /\ Len(c5) \in Nat /\ Len(t) \in Nat
    BY <1>12, <1>13, <1>14, <2>3
  <2> QED
    BY <2>1, <2>4, <2>5, <2>6
<1>16. /\ 4 + 0 = 4 /\ 4 \in Nat /\ 0 \in Nat /\ 4 + l \in Nat /\ (4 + l) + 0 = 4 + l
       /\ (4 + l) + 1 \in Nat /\ ((4 + l) + 1) + 0 = (4 + l) + 1
       /\ (4 + l) + (1 + (k + 2)) = f /\ f \in Nat /\ f + 0 = f /\ 1 \in Nat
       /\ 1 + (k + 2) \in Nat /\ ((4 + l) + 1) + k + 2 = f
  BY <1>8
<1>17. Holds(t, 4, x)
  <2>1. Holds(t, 4 + 0, x)
    BY <1>13, <1>14, <1>15, <1>16, HeldIn
  <2> QED
    BY <1>16, <2>1
<1>18. Holds(t, 4 + l, c4)
  BY <1>8, <1>13, <1>14, <1>15, <1>16, HeldIn
<1>19. Holds(t, 4 + l, c3)
  <2>1. Holds(t, (4 + l) + 0, c3)
    BY <1>12, <1>15, <1>16, <1>18, HeldIn
  <2> QED
    BY <1>16, <2>1
<1>20. Holds(t, f, c1)
  <2>1. Holds(t, (4 + l) + (1 + (k + 2)), c1)
    BY <1>12, <1>15, <1>16, <1>18, HeldIn
  <2> QED
    BY <1>16, <2>1
<1>21. Holds(t, f, ls)
  <2>1. Holds(t, f + 0, ls)
    BY <1>9, <1>15, <1>16, <1>20, HeldIn
  <2> QED
    BY <1>16, <2>1
<1>22. Holds(t, f + n, e)
  BY <1>8, <1>9, <1>15, <1>16, <1>20, HeldIn
<1>23. Holds(t, 4 + l, <<SP>>)
  <2>1. Holds(t, (4 + l) + 0, <<SP>>)
    BY <1>11, <1>15, <1>16, <1>19, HeldIn
  <2> QED
    BY <1>16, <2>1
<1>24. Holds(t, (4 + l) + 1, c2)
  BY <1>11, <1>15, <1>16, <1>19, HeldIn
<1>25. Holds(t, (4 + l) + 1, v)
  <2>1. Holds(t, ((4 + l) + 1) + 0, v)
    BY <1>10, <1>15, <1>16, <1>24, HeldIn
  <2> QED
    BY <1>16, <2>1
<1>26. Holds(t, ((4 + l) + 1) + k, e)
  BY <1>8, <1>10, <1>15, <1>16, <1>24, HeldIn
<1> HIDE DEF f
<1>27. t[1] = "G" /\ t[2] = "E" /\ t[3] = "T" /\ t[4] = SP
  <2>1. \A j \in 1 .. 4 : t[0 + j] = get[j]
    BY <1>4, <1>14 DEF Holds
  <2>2. t[0 + 1] = get[1] /\ t[0 + 2] = get[2] /\ t[0 + 3] = get[3] /\ t[0 + 4] = get[4]
    BY <2>1
  <2>3. 0 + 1 = 1 /\ 0 + 2 = 2 /\ 0 + 3 = 3 /\ 0 + 4 = 4
    OBVIOUS
  <2> QED
    BY <1>4, <2>2, <2>3
<1>28. t[4 + l + 1] = SP
  <2>1. t[(4 + l) + 1] = <<SP>>[1]
    BY <1>6, <1>23 DEF Holds
  <2> QED
    BY <1>6, <2>1
<1>29. t[f + n + 1] = CR /\ t[f + n + 2] = LF
  <2>1. t[(f + n) + 1] = e[1] /\ t[(f + n) + 2] = e[2]
    BY <1>5, <1>22 DEF Holds
  <2> QED
    BY <1>5, <2>1
<1> DEFINE w == (4 + l) + 1
<1>30. w \in Nat /\ w + k + 1 \in Nat /\ w + k + 2 = f /\ w < f
  BY <1>8, <1>16 DEF f
<1>31. t[w + k + 1] = CR /\ t[f] = LF
  <2>1. t[(w + k) + 1] = e[1] /\ t[(w + k) + 2] = e[2]
    BY <1>5, <1>26 DEF Holds
  <2> QED
    BY <1>5, <1>30, <2>1
<1>32. ASSUME NEW i \in w .. f - 1 PROVE t[i] # LF
  <2>1. t[w] = SP /\ \A j \in 1 .. k : t[w + j] = v[j]
    BY <1>25, <1>28 DEF Holds, k
  <2> HIDE DEF w
  <2>2. i = w \/ (i - w \in 1 .. k /\ w + (i - w) = i) \/ i = w + k + 1
    BY <1>8, <1>30
  <2>3. CASE i - w \in 1 .. k /\ w + (i - w) = i
    <3>1. t[i] = v[i - w]
      BY <2>1, <2>3
    <3> QED
      BY <1>2, <2>3, <3>1 DEF None, k
  <2> QED
    BY <1>0, <1>31, <2>1, <2>2, <2>3
<1>33. Len(t) = f + n + 2
  BY <1>8, <1>14, <1>16 DEF f
<1>34. GetParts(t, g, l, f, n)
  BY <1>8, <1>16, <1>17, <1>21, <1>27, <1>28, <1>29, <1>30, <1>31, <1>32, <1>33
     DEF GetParts, l, n, x, ls
<1> QED
  BY <1>34

\* The first line of such a text
LEMMA GetLine ==
  ASSUME NEW g, IsGet(g), NEW t \in Units, NEW l, NEW f, NEW n, GetParts(t, g, l, f, n)
  PROVE  /\ Find(t, LF) = f
         /\ Target(t) = TargetText(g) /\ ~ EndsInCR(t)
         /\ PacketType(t) = "request" /\ ~ BadMethod(t)
<1> DEFINE U == STRING \cup {"/", "?", SP, CR, LF}
           x == TargetText(g)
<1>0. /\ SP # LF /\ "G" # LF /\ "E" # LF /\ "T" # LF /\ "G" # "C" /\ "G" # "H"
  BY DEF SP, LF
<1>1. x \in Seq(U) /\ None(x, {SP, LF})
  <2>1. STRING \subseteq U /\ {"/", "?"} \subseteq U
    OBVIOUS
  <2> HIDE DEF U
  <2> QED
    BY <2>1, TargetParts
<1>2. /\ l \in Nat /\ f \in Nat /\ n \in Nat /\ l = Len(x)
      /\ t[1] = "G" /\ t[2] = "E" /\ t[3] = "T" /\ t[4] = SP
      /\ \A j \in 1 .. l : t[4 + j] = x[j]
      /\ t[4 + l + 1] = SP /\ 4 + l + 1 < f
      /\ \A i \in 4 + l + 1 .. f - 1 : t[i] # LF
      /\ t[f] = LF /\ Len(t) = f + n + 2
  BY DEF GetParts, Holds
<1> HIDE DEF U, x
<1>3. ASSUME NEW i \in 1 .. f - 1 PROVE t[i] # LF
  <2>1. \/ i \in {1, 2, 3, 4}
        \/ i - 4 \in 1 .. l /\ 4 + (i - 4) = i
        \/ i \in 4 + l + 1 .. f - 1
    BY <1>2
  <2>2. CASE i \in {1, 2, 3, 4}
    BY <1>0, <1>2, <2>2
  <2>3. CASE i - 4 \in 1 .. l /\ 4 + (i - 4) = i
    <3>1. t[i] = x[i - 4]
      BY <1>2, <2>3
    <3> QED
      BY <1>1, <1>2, <2>3, <3>1 DEF None
  <2> QED
    BY <1>2, <2>1, <2>2, <2>3
<1>4. Find(t, LF) = f
  <2>1. f \in 1 .. Len(t)
    BY <1>2
  <2> QED
    BY <1>2, <1>3, <2>1, FindIs DEF Units
<1>5. Target(t) = x /\ ~ EndsInCR(t)
  <2> DEFINE W == STRING \cup U \cup {SP}
             part == SubSeq(t, 5, f - 1)
             line == part \o <<SP>>
  <2>1. FirstLine(t) = part /\ Target(t) = Before(line, Find(line, SP))
    <3>1. (CASE t[1] = "G" -> 5 [] t[1] \in {"H", "P"} -> 6 [] OTHER -> 9) = 5
      BY <1>0, <1>2
    <3>2. FirstLine(t) = SubSeq(t, 5, Find(t, LF) - 1)
      BY <3>1, Zenon DEF FirstLine
    <3> QED
      BY <1>4, <3>2 DEF Target
  <2>2. /\ part \in Seq(W)
        /\ Len(part) = f - 5
        /\ \A i \in 1 .. f - 5 : part[i] = t[4 + i]
    <3>1. \A i \in 5 .. f - 1 : t[i] \in W
      <4>1. \A i \in 5 .. f - 1 : i \in 1 .. Len(t)
        BY <1>2
      <4> QED
        BY <4>1, ElementOfSeq DEF Units
    <3>2. /\ part \in Seq(W)
          /\ Len(part) = (IF 5 <= f - 1 THEN (f - 1) - 5 + 1 ELSE 0)
          /\ \A i \in 1 .. (f - 1) - 5 + 1 : part[i] = t[5 + i - 1]
      <4> HIDE DEF W
      <4> QED
        BY <1>2, <3>1, SubSeqProperties
    <3> HIDE DEF part
    <3>3. /\ (f - 1) - 5 + 1 = f - 5 /\ (~ (5 <= f - 1) => f - 5 = 0)
          /\ \A i \in 1 .. f - 5 : 5 + i - 1 = 4 + i
      BY <1>2
    <3> QED
      BY <3>2, <3>3
  <2>3. <<SP>> \in Seq(W) /\ Len(<<SP>>) = 1 /\ <<SP>>[1] = SP
    OBVIOUS
  <2>4. x \in Seq(W)
    <3>1. PICK i \in Nat : x \in [1 .. i -> U]
      BY <1>1, SeqDef
    <3>2. x \in [1 .. i -> W]
      BY <3>1
    <3> QED
      BY <3>2, SeqDef
  <2> HIDE DEF W, part
  <2>5. /\ line \in Seq(W) /\ Len(line) = f - 5 + 1
        /\ Holds(line, 0, part) /\ Holds(line, f - 5, <<SP>>)
    <3>1. /\ line \in Seq(W) /\ Len(line) = Len(part) + Len(<<SP>>)
          /\ Holds(line, 0, part) /\ Holds(line, Len(part), <<SP>>)
      BY <2>2, <2>3, Glued
    <3> QED
      BY <2>2, <2>3, <3>1
  <2> HIDE DEF line
  <2>6. /\ \A i \in 1 .. f - 5 : line[i] = t[4 + i]
        /\ line[f - 5 + 1] = SP
    <3>1. \A i \in 1 .. f - 5 : line[0 + i] = part[i]
      BY <2>2, <2>5 DEF Holds
    <3>2. \A i \in 1 .. f - 5 : 0 + i = i
      BY <1>2
    <3>3. line[(f - 5) + 1] = <<SP>>[1]
      BY <2>3, <2>5 DEF Holds
    <3> QED
      BY <2>2, <2>3, <3>1, <3>2, <3>3
  <2>7. Holds(line, 0, x)
    <3>1. 0 + l <= Len(line) /\ \A j \in 1 .. l : 0 + j = j /\ j \in 1 .. f - 5
      BY <1>2, <2>5
    <3>2. \A j \in 1 .. l : line[0 + j] = x[j]
      BY <1>2, <2>6, <3>1
    <3> QED
      BY <1>2, <3>1, <3>2 DEF Holds
  <2>8. Find(line, SP) = l + 1
    <3>1. l + 1 \in 1 .. Len(line) /\ l + 1 \in 1 .. f - 5 /\ 4 + (l + 1) = 4 + l + 1
          /\ (l + 1) - 1 = l
      BY <1>2, <2>5
    <3>2. line[l + 1] = SP
      BY <1>2, <2>6, <3>1
    <3>3. \A i \in 1 .. l : line[i] # SP
      <4>1. \A i \in 1 .. l : 0 + i = i
        BY <1>2
      <4> QED
        BY <1>1, <1>2, <2>7, <4>1 DEF Holds, None
    <3> QED
      BY <2>5, <3>1, <3>2, <3>3, FindIs
  <2>9. SubSeq(line, 0 + 1, 0 + l) = x
    <3>1. Len(line) \in Nat /\ 0 \in Nat
      BY <2>5
    <3> QED
      BY <1>2, <2>4, <2>7, <3>1, HeldIs
  <2>10. Before(line, l + 1) = x
    <3>1. 0 + 1 = 1 /\ 0 + l = (l + 1) - 1
      BY <1>2
    <3> QED
      BY <2>9, <3>1 DEF Before
  <2>11. ~ EndsInCR(t)
    <3>1. l + 1 \in 1 .. Len(part) /\ part[l + 1] = SP
      <4>1. l + 1 \in 1 .. f - 5 /\ 4 + (l + 1) = 4 + l + 1
        BY <1>2
      <4> QED
        BY <1>2, <2>2, <4>1
    <3>2. Find(part, SP) # 0
      BY <2>2, <3>1, FindFirst
    <3> QED
      BY <2>1, <3>2 DEF EndsInCR
  <2> QED
    BY <2>1, <2>8, <2>10, <2>11
<1>6. PacketType(t) = "request"
  <2> DEFINE reply == <<"H", "T", "T", "P", "/">>
             get == <<"G", "E", "T", " ">>
  <2>1. ~ Begins(t, reply)
    <3>1. Len(reply) = 5 /\ reply[1] = "H" /\ 1 \in 1 .. 5 /\ 1 <= Len(t)
      BY <1>2
    <3> QED
      BY <1>0, <1>2, <3>1 DEF Begins
  <2>2. Begins(t, get)
    <3>1. Len(get) = 4 /\ get[1] = "G" /\ get[2] = "E" /\ get[3] = "T" /\ get[4] = " "
      OBVIOUS
    <3>2. \A i \in 1 .. 4 : i = 1 \/ i = 2 \/ i = 3 \/ i = 4
      OBVIOUS
    <3> HIDE DEF get
    <3>3. t[1] = get[1] /\ t[2] = get[2] /\ t[3] = get[3] /\ t[4] = get[4]
      BY <1>2, <3>1 DEF SP
    <3>4. \A i \in 1 .. 4 : t[i] = get[i]
      BY <3>2, <3>3
    <3>5. \A i \in 1 .. Len(get) : i <= Len(t) => t[i] = get[i]
      BY <3>1, <3>4
    <3> QED
      BY <3>5, Zenon DEF Begins
  <2>3. get \in RequestWords
    BY DEF RequestWords
  <2>4. t # <<>>
    BY <1>2
  <2> HIDE DEF reply, get
  <2>5. PacketType(t) = IF Len(t) > 1 /\ Begins(t, reply) THEN "reply"
                        ELSE IF t # <<>> /\ \E w \in RequestWords : Begins(t, w) THEN "request"
                        ELSE "error"
    BY DEF PacketType, reply
  <2> QED
    BY <2>1, <2>2, <2>3, <2>4, <2>5
<1>7. ~ BadMethod(t)
  BY <1>0, <1>2 DEF BadMethod
<1> QED
  BY <1>4, <1>5, <1>6, <1>7 DEF x

\* Where its headers end
LEMMA GetEnds ==
  ASSUME NEW g, IsGet(g), NEW t \in Units, NEW l, NEW f, NEW n, GetParts(t, g, l, f, n)
  PROVE  /\ EmptyLines(t) = {Len(t)} /\ NoCrAlone(t)
         /\ SubSeq(t, f + 1, Len(t) - 2) = g.lines
         /\ ContentLength(SubSeq(t, f + 1, Len(t) - 1)) = -1
<1> DEFINE ls == g.lines
           m == f + n + 2
<1>0. CR # LF /\ CR # CL
  BY DEF CR, LF, CL
<1>1. /\ l \in Nat /\ f \in Nat /\ n \in Nat /\ n = Len(ls)
      /\ \A j \in 1 .. n : t[f + j] = ls[j]
      /\ 4 + l + 1 < f /\ t[f] = LF
      /\ t[f + n + 1] = CR /\ t[f + n + 2] = LF /\ Len(t) = m
  BY DEF GetParts, Holds
<1>2. ls \in Units /\ None(ls, {CL}) /\ (ls # <<>> => ls[n] = LF)
      /\ \A i \in 1 .. n : i = 1 \/ ls[i - 1] = LF => ls[i] \notin {CR, LF}
  BY <1>1 DEF IsGet
<1>3. f # 0 /\ \A i \in 1 .. f - 1 : t[i] # LF
  <2>1. Find(t, LF) = f
    BY GetLine
  <2>2. f # 0
    BY <1>1
  <2> QED
    BY <2>1, <2>2, FindFirst DEF Units
<1>4. t[f + n] = LF
  <2>1. CASE n = 0
    <3>1. f + n = f
      BY <1>1, <2>1
    <3> QED
      BY <1>1, <3>1
  <2>2. CASE n # 0
    <3>1. n \in 1 .. n /\ ls # <<>>
      BY <1>1, <2>2
    <3> QED
      BY <1>1, <1>2, <3>1
  <2> QED
    BY <2>1, <2>2
<1>5. SubSeq(t, f + 1, f + n) = ls
  <2>1. Holds(t, f, ls) /\ Len(t) \in Nat
    BY DEF GetParts, Units
  <2> QED
    BY <1>1, <1>2, <2>1, HeldIs DEF Units
<1> HIDE DEF ls
<1>6. ASSUME NEW i \in f + 1 .. f + n, t[i - 1] = LF PROVE t[i] \notin {CR, LF}
  <2> DEFINE j == i - f
  <2>1. j \in 1 .. n /\ f + j = i /\ (j = 1 \/ (j - 1 \in 1 .. n /\ f + (j - 1) = i - 1))
    BY <1>1
  <2> HIDE DEF j
  <2>2. t[i] = ls[j] /\ (j = 1 \/ ls[j - 1] = t[i - 1])
    BY <1>1, <2>1
  <2> QED
    BY <1>2, <1>6, <2>1, <2>2
<1>7. m \in EmptyLines(t)
  <2>1. m \in 2 .. Len(t) /\ m - 1 = f + n + 1 /\ m - 2 = f + n /\ m > 2
    BY <1>1
  <2> QED
    BY <1>1, <1>4, <2>1 DEF EmptyLines
<1>8. ASSUME NEW p \in EmptyLines(t) PROVE p = m
  <2>1. /\ p \in 2 .. m /\ t[p] = LF
        /\ t[p - 1] = LF \/ (p > 2 /\ t[p - 1] = CR /\ t[p - 2] = LF)
    BY <1>1 DEF EmptyLines
  <2>2. p >= f
    BY <1>1, <1>3, <2>1
  <2>3. p # f
    <3>1. p = f => p - 1 \in 1 .. f - 1 /\ (p > 2 => p - 2 \in 1 .. f - 1)
      BY <1>1
    <3> QED
      BY <1>3, <2>1, <3>1
  <2>4. p # m - 1
    <3>1. m - 1 = f + n + 1
      BY <1>1
    <3> QED
      BY <1>0, <1>1, <2>1, <3>1
  <2>5. p \notin f + 1 .. f + n
    <3> SUFFICES ASSUME p \in f + 1 .. f + n PROVE FALSE
      OBVIOUS
    <3>1. t[p - 1] # LF
      BY <1>6, <2>1
    <3>2. p > 2 /\ t[p - 1] = CR /\ t[p - 2] = LF
      BY <2>1, <3>1
    <3>3. p - 1 # f
      BY <1>0, <1>1, <3>2
    <3>4. p - 1 \in f + 1 .. f + n /\ (p - 1) - 1 = p - 2
      BY <1>1, <3>3
    <3> QED
      BY <1>6, <3>2, <3>4
  <2>6. p = f \/ p \in f + 1 .. f + n \/ p = m - 1 \/ p = m
    BY <1>1, <2>1, <2>2
  <2> QED
    BY <2>3, <2>4, <2>5, <2>6
<1>9. EmptyLines(t) = {m}
  BY <1>7, <1>8
<1>10. Min(EmptyLines(t)) = m
  <2>1. EmptyLines(t) \subseteq Nat /\ \A x \in EmptyLines(t) : m <= x
    BY <1>1, <1>9
  <2> QED
    BY <1>7, <2>1, MinIs
<1>11. NoCrAlone(t)
  <2> SUFFICES ASSUME NEW i \in 2 .. m, t[i - 1] = LF, t[i] = CR
               PROVE  i = Len(t) \/ t[i + 1] = LF
    BY <1>7, <1>10 DEF NoCrAlone
  <2>1. i - 1 >= f
    BY <1>1, <1>3
  <2>2. i \notin f + 1 .. f + n
    BY <1>6
  <2>3. i = m \/ i = f + n + 1
    BY <1>1, <2>1, <2>2
  <2>4. i = f + n + 1 => i + 1 = f + n + 2
    BY <1>1
  <2> QED
    BY <1>1, <2>3, <2>4
<1>12. ContentLength(SubSeq(t, f + 1, m - 1)) = -1
  <2> DEFINE s == SubSeq(t, f + 1, m - 1)
             at == {i \in 1 .. Len(s) - 1 : s[i] = CL /\ s[i + 1] = ":"}
  <2>1. Len(s) = n + 1 /\ \A i \in 1 .. n + 1 : s[i] = t[f + i]
    <3>1. \A i \in f + 1 .. m - 1 : t[i] \in STRING
      <4>1. \A i \in f + 1 .. m - 1 : i \in 1 .. Len(t)
        BY <1>1
      <4> QED
        BY <4>1, ElementOfSeq DEF Units
    <3>2. /\ Len(s) = (IF f + 1 <= m - 1 THEN (m - 1) - (f + 1) + 1 ELSE 0)
          /\ \A i \in 1 .. (m - 1) - (f + 1) + 1 : s[i] = t[(f + 1) + i - 1]
      <4>1. f + 1 \in Int /\ m - 1 \in Int
        BY <1>1
      <4> QED
        BY <3>1, <4>1, SubSeqProperties
    <3> HIDE DEF s
    <3>3. /\ f + 1 <= m - 1 /\ (m - 1) - (f + 1) + 1 = n + 1
          /\ \A i \in 1 .. n + 1 : (f + 1) + i - 1 = f + i
      BY <1>1
    <3> QED
      BY <3>2, <3>3
  <2> HIDE DEF s
  <2>2. ASSUME NEW i \in 1 .. Len(s) - 1 PROVE s[i] # CL
    <3>1. i \in 1 .. n /\ i \in 1 .. n + 1
      BY <1>1, <2>1
    <3>2. s[i] = ls[i]
      BY <1>1, <2>1, <3>1
    <3> QED
      BY <1>1, <1>2, <3>1, <3>2 DEF None
  <2>3. at = {}
    BY <2>2
  <2>4. ContentLength(s) =
          LET number == Unspaced(After(s, Min(at) + 1))
          IN  IF at = {} \/ number = <<>> THEN -1
              ELSE IF IsDigit(number[1]) THEN Number(number) ELSE -1
    BY Zenon DEF ContentLength
  <2> HIDE DEF at
  <2>5. ContentLength(s) = -1
    BY <2>3, <2>4
  <2> QED
    BY <2>5 DEF s
<1>13. f + n = Len(t) - 2 /\ m - 1 = Len(t) - 1
  BY <1>1
<1> QED
  BY <1>1, <1>5, <1>9, <1>11, <1>12, <1>13 DEF ls

\* A GET request is one packet to its end, and the module is given the directory, the object, the
\* params and the header that are written in it, and no form and no body
\* (gr_http.c:294, 606).
THEOREM GetIsUnderstood ==
  ASSUME NEW g, IsGet(g), NEW t \in Units, t = GetText(g)
  PROVE  /\ Packet(t) = Verdict("full", Find(t, LF), Len(t), 0)
         /\ Parsed(t, Packet(t)) = GetMeans(g) /\ ~ IsForm(t, Packet(t))
<1>1. PICK l, f, n : GetParts(t, g, l, f, n)
  BY GetHolds
<1> DEFINE m == Len(t)
           v == Verdict("full", f, m, 0)
<1>2. /\ f \in Nat /\ n \in Nat /\ f # 0 /\ t[m - 1] = CR /\ m = f + n + 2 /\ CR # LF
  <2>1. /\ l \in Nat /\ f \in Nat /\ n \in Nat /\ 4 + l + 1 < f
        /\ t[f + n + 1] = CR /\ m = f + n + 2
    BY <1>1 DEF GetParts
  <2>2. m - 1 = f + n + 1 /\ f # 0
    BY <2>1
  <2>3. CR # LF
    BY DEF CR, LF
  <2> QED
    BY <2>1, <2>2, <2>3
<1>3. /\ Find(t, LF) = f /\ Target(t) = TargetText(g) /\ ~ EndsInCR(t)
      /\ PacketType(t) = "request" /\ ~ BadMethod(t)
  BY <1>1, GetLine
<1>4. /\ EmptyLines(t) = {m} /\ NoCrAlone(t)
      /\ SubSeq(t, f + 1, m - 2) = g.lines
      /\ ContentLength(SubSeq(t, f + 1, m - 1)) = -1
  BY <1>1, GetEnds
<1> HIDE DEF m
<1>5. Min(EmptyLines(t)) = m
  <2>1. m \in EmptyLines(t) /\ EmptyLines(t) \subseteq Nat /\ \A x \in EmptyLines(t) : m <= x
    BY <1>2, <1>4
  <2> QED
    BY <2>1, MinIs
<1>6. Packet(t) = v
  <2>1. Packet(t) = PacketByLines(t)
    BY <1>4, PacketIsByLines
  <2>2. PacketByLines(t) =
          IF PacketType(t) = "error" THEN Verdict("error", 0, 0, 0)
          ELSE IF EmptyLines(t) = {} \/ Len(t) < m + 0 THEN NotFull
          ELSE Verdict("full", f, m, 0)
    BY <1>3, <1>4, <1>5 DEF PacketByLines
  <2>3. ~ (Len(t) < m + 0) /\ EmptyLines(t) # {}
    BY <1>2, <1>4 DEF m
  <2> QED
    BY <1>3, <2>1, <2>2, <2>3
<1>7. /\ v.header = f /\ v.body = m /\ v.content = 0
  BY DEF Verdict
<1> HIDE DEF v
<1>8. Lines(t, f + 1) = Pieces(g.lines, LF)
  <2>1. Lines(t, f + 1) =
          Pieces(SubSeq(t, f + 1, (IF t[m - 1] = LF THEN m ELSE m - 1) - 1), LF)
    BY <1>3, <1>4, <1>5, HeadersEndAtBody
  <2>2. (m - 1) - 1 = m - 2
    BY <1>2
  <2> QED
    BY <1>2, <1>4, <2>1, <2>2
<1>9. ~ IsForm(t, v)
  BY <1>7 DEF IsForm
<1>10. BodyText(t, v) = <<>>
  <2>1. BodyText(t, v) = SubSeq(t, m + 1, m + 0)
    BY <1>7 DEF BodyText
  <2>2. /\ SubSeq(t, m + 1, m + 0) \in Seq(STRING) /\ Len(SubSeq(t, m + 1, m + 0)) = 0
    <3>1. m + 1 \in Int /\ m + 0 \in Int /\ ~ (m + 1 <= m + 0)
          /\ \A i \in m + 1 .. m + 0 : t[i] \in STRING
      BY <1>2
    <3> QED
      BY <3>1, SubSeqProperties
  <2> QED
    BY <2>1, <2>2, EmptySeq
<1> DEFINE target == Target(t)
           ask == Find(target, "?")
           path == IF ask = 0 THEN target ELSE Before(target, ask)
           d == Len(g.dir) + 1
           query == IF ask = 0 THEN <<>> ELSE Pieces(After(target, ask), "&")
           lines == Pieces(g.lines, LF)
<1>11. /\ (IF ask = 0 THEN <<>> ELSE After(target, ask)) = g.query
       /\ FindLast(path, "/") = d /\ Before(path, d) = g.dir /\ After(path, d) = g.obj
  <2> DEFINE U == STRING \cup {"/", "?"}
  <2>1. STRING \subseteq U /\ {"/", "?"} \subseteq U
    OBVIOUS
  <2> HIDE DEF U
  <2> QED
    BY <1>3, <2>1, TargetParts
<1>12. query = Pieces(g.query, "&")
  <2>1. Pieces(<<>>, "&") = <<>>
    BY Zenon DEF Pieces
  <2> QED
    BY <1>11, <2>1
<1>13. d \in Nat /\ d # 0
       /\ Decoded(g.dir) = g.directory /\ Decoded(g.obj) = g.object
  <2>1. g.dir \in Seq(STRING) /\ Encodes(g.dir, g.directory) /\ Encodes(g.obj, g.object)
    BY DEF IsGet, Encodes, Units
  <2>2. Len(g.dir) \in Nat
    BY <2>1
  <2>3. Decoded(g.dir) = g.directory /\ Decoded(g.obj) = g.object
    BY <2>1, DecodedIs
  <2> QED
    BY <2>2, <2>3
<1>14. /\ Params(query, "=") = g.params
       /\ Stop(query, "=", -7, -8) = 0
  <2>1. g.query \in Units /\ IsWritten(g.query, "&", "=", g.params) /\ Len(g.params) <= ParamMax
    BY DEF IsGet
  <2>2. /\ Params(query, "=") = g.params
        /\ ~ Unpaired(query, "=") /\ Len(query) = Len(g.params)
    BY <1>12, <2>1, ParamsAsWritten
  <2>3. Len(g.params) \in Nat /\ ParamMax \in Nat
    BY <2>1, HttpParserAssumption DEF IsWritten
  <2> HIDE DEF query
  <2>4. ~ (Len(query) > ParamMax)
    BY <2>1, <2>2, <2>3
  <2> QED
    BY <2>2, <2>4 DEF Stop
<1>15. /\ Params(lines, ":") = g.header
       /\ Stop(lines, ":", -10, -11) = 0
  <2>1. g.lines \in Units /\ IsWritten(g.lines, LF, ":", g.header) /\ Len(g.header) <= ParamMax
    BY DEF IsGet
  <2>2. /\ Params(lines, ":") = g.header
        /\ ~ Unpaired(lines, ":") /\ Len(lines) = Len(g.header)
    BY <2>1, ParamsAsWritten
  <2>3. Len(g.header) \in Nat /\ ParamMax \in Nat
    BY <2>1, HttpParserAssumption DEF IsWritten
  <2> HIDE DEF lines
  <2>4. ~ (Len(lines) > ParamMax)
    BY <2>1, <2>2, <2>3
  <2> QED
    BY <2>2, <2>4 DEF Stop
<1>16. Stop(<<>>, "=", -12, -13) = 0 /\ Params(<<>>, "=") = <<>>
  <2>1. Len(<<>>) = 0 /\ ~ (0 > ParamMax) /\ DOMAIN <<>> = {}
    BY HttpParserAssumption
  <2>2. ~ Unpaired(<<>>, "=")
    BY <2>1 DEF Unpaired
  <2>3. Params(<<>>, "=") = <<>>
    BY DEF Params
  <2> QED
    BY <2>1, <2>2, <2>3 DEF Stop
<1> DEFINE stops == <<0, IF ask # 0 /\ d = 0 THEN -6 ELSE 0,
                      Stop(query, "=", -7, -8), Stop(lines, ":", -10, -11),
                      Stop(<<>>, "=", -12, -13)>>
           first == SelectInSeq(stops, LAMBDA code : code # 0)
<1>17. first = 0
  <2>1. stops = <<0, 0, 0, 0, 0>>
    BY <1>13, <1>14, <1>15, <1>16
  <2>2. \A i \in 1 .. Len(stops) : stops[i] = 0
    BY <2>1
  <2> HIDE DEF stops
  <2>3. {i \in 1 .. Len(stops) : stops[i] # 0} = {}
    BY <2>2
  <2> QED
    BY <2>3 DEF SelectInSeq
<1>18. Parsed(t, v) =
         IF first # 0 THEN Failed(stops[first])
         ELSE Result(0,
                     IF Decoded(Before(path, d)) = <<>> THEN <<"/">> ELSE Decoded(Before(path, d)),
                     Decoded(After(path, d)),
                     Params(query, "="), Params(lines, ":"), Params(<<>>, "="),
                     BodyText(t, v))
  <2>1. /\ \A s : LastDecoded(t, s) = Decoded(s)
        /\ \A s : QueryParams(t, s) = Params(s, "=")
    BY <1>3, Zenon DEF LastDecoded, QueryParams
  <2> HIDE DEF d
  <2> QED
    BY <1>3, <1>7, <1>8, <1>9, <1>11, <1>13, <2>1, SMTT(30) DEF Parsed
<1> HIDE DEF first, stops, query, lines, path, d
<1>19. Parsed(t, v) = GetMeans(g)
  BY <1>10, <1>11, <1>13, <1>14, <1>15, <1>16, <1>17, <1>18 DEF GetMeans
<1> QED
  BY <1>3, <1>6, <1>9, <1>19 DEF m, v

\* What RequestAssumption says of each request a client may send holds of every GET request: alone
\* it is one packet and understood (gr_http.c:294, 606).
THEOREM GetsAreUnderstood ==
  ASSUME NEW g, IsGet(g), NEW q, q.text \in Units, q.text = GetText(g),
         Means(GetMeans(g), q)
  PROVE  OnePacket(q) /\ Understood(q)
<1> DEFINE t == q.text
           p == Packet(t)
           f == Find(t, LF)
<1>1. p = Verdict("full", f, Len(t), 0) /\ Parsed(t, p) = GetMeans(g) /\ ~ IsForm(t, p)
  BY GetIsUnderstood
<1>2. /\ p.is = "full" /\ p.header = f /\ p.body = Len(t) /\ p.content = 0
      /\ p = [is |-> p.is, header |-> p.header, body |-> p.body, content |-> p.content]
  <2>1. p = [is |-> "full", header |-> f, body |-> Len(t), content |-> 0]
    BY <1>1, Zenon DEF Verdict
  <2> HIDE DEF p, f
  <2> QED
    BY <2>1
<1>3. f \in Nat /\ Len(t) \in Nat
  BY FindFirst DEF Units
<1>4. OnePacket(q)
  <2>1. Len(t) + 0 = Len(t)
    BY <1>3
  <2> QED
    BY <1>2, <2>1 DEF OnePacket
<1>5. Short(q) => HttpCheck(t) = p
  <2> HIDE DEF p, f
  <2> SUFFICES ASSUME Short(q) PROVE HttpCheck(t) = p
    OBVIOUS
  <2>1. f < HeaderWrap /\ Len(t) < BodyWrap
    BY DEF Short, f
  <2>2. f % HeaderWrap = f /\ Len(t) % BodyWrap = Len(t)
    BY <1>3, <2>1, Wrapped, HttpParserAssumption
  <2>3. HttpCheck(t) = [p EXCEPT !.header = @ % HeaderWrap, !.body = @ % BodyWrap]
    BY DEF HttpCheck, p
  <2> QED
    BY <1>2, <2>2, <2>3
<1> HIDE DEF t, p, f
<1>6. Understood(q)
  <2>1. Understood(q) <=>
          (Short(q) => /\ Means(Parsed(t, HttpCheck(t)), q)
                       /\ IsForm(t, HttpCheck(t)) => q.form)
    BY Zenon DEF Understood, t
  <2> QED
    BY <1>1, <1>5, <2>1
<1> QED
  BY <1>4, <1>6

-----------------------------------------------------------------------------
(* A connection: what it has received and not taken, and what has not      *)
(* arrived, is what is behind the first k requests of its stream.          *)

Remains(s, k, b, w) ==
  /\ k \in 0 .. Len(s)
  /\ Len(b) + Len(w) = Len(Text(s)) - Ends(s)[k]
  /\ \A j \in 1 .. Len(b) : b[j] = Text(s)[Ends(s)[k] + j]
  /\ \A j \in 1 .. Len(w) : w[j] = Text(s)[Ends(s)[k] + Len(b) + j]

\* The ends are in the text, each behind the one before.
LEMMA EndsGrow ==
  ASSUME NEW s, IsStream(s), NEW k \in 0 .. Len(s)
  PROVE  /\ Ends(s)[k] \in Nat /\ Ends(s)[k] <= Len(Text(s)) /\ Len(Text(s)) \in Nat
         /\ k = Len(s) => Ends(s)[k] = Len(Text(s))
         /\ k # Len(s) => /\ k + 1 \in 1 .. Len(s)
                          /\ Ends(s)[k + 1] = Ends(s)[k] + Len(s[k + 1].text)
                          /\ Ends(s)[k + 1] <= Len(Text(s))
<1> DEFINE n == Len(s)
           e == Ends(s)
           T == {i \in 0 .. n : e[n - i] <= e[n]}
<1>0. n \in Nat /\ \A i \in 1 .. n : s[i].text \in Units
  BY DEF IsStream
<1>1. EndsAt(s, e)
  BY EndsAre
<1> HIDE DEF e
<1>2. /\ e[n] = Len(Text(s)) /\ \A i \in 0 .. n : e[i] \in Nat
      /\ \A i \in 1 .. n : e[i] = e[i - 1] + Len(s[i].text)
  BY <1>1 DEF EndsAt
<1> HIDE DEF n
<1>3. 0 \in T
  <2>1. n - 0 = n /\ n \in 0 .. n /\ 0 \in 0 .. n
    BY <1>0
  <2> QED
    BY <1>2, <2>1
<1>4. ASSUME NEW i \in 1 .. n, i - 1 \in T PROVE i \in T
  <2>1. n - i + 1 \in 1 .. n /\ n - (i - 1) = n - i + 1 /\ (n - i + 1) - 1 = n - i
        /\ n - i \in 0 .. n /\ n \in 0 .. n /\ i \in 0 .. n /\ n - i + 1 \in 0 .. n
    BY <1>0
  <2>2. e[n - i + 1] = e[n - i] + Len(s[n - i + 1].text) /\ Len(s[n - i + 1].text) \in Nat
    BY <1>0, <1>2, <2>1 DEF Units
  <2>3. e[n - i + 1] <= e[n]
    BY <1>4, <2>1
  <2>4. e[n - i + 1] \in Nat /\ e[n - i] \in Nat /\ e[n] \in Nat
    BY <1>2, <2>1
  <2> DEFINE x == e[n - i + 1]
             y == e[n - i]
             z == Len(s[n - i + 1].text)
  <2>5. y <= e[n]
    <3>1. x \in Nat /\ y \in Nat /\ z \in Nat /\ e[n] \in Nat /\ x = y + z /\ x <= e[n]
      BY <2>2, <2>3, <2>4
    <3> HIDE DEF x, y, z
    <3> QED
      BY <3>1
  <2> QED
    BY <2>1, <2>5
<1>5. ASSUME NEW i \in 0 .. n PROVE e[i] <= e[n]
  <2>1. n - i \in 0 .. n /\ n - i \in Nat /\ n - (n - i) = i /\ \A j \in 1 .. n - i : j \in 1 .. n
    BY <1>0
  <2> HIDE DEF T
  <2>2. \A j \in 1 .. n - i : j - 1 \in T => j \in T
    BY <1>4, <2>1
  <2>3. n - i \in T
    BY <1>3, <2>1, <2>2, Induction
  <2> QED
    BY <2>1, <2>3 DEF T
<1>6. /\ n \in 0 .. n /\ k \in 0 .. n
      /\ k # n => k + 1 \in 1 .. n /\ k + 1 \in 0 .. n /\ (k + 1) - 1 = k
  BY <1>0 DEF n
<1>7. e[k] \in Nat /\ e[k] <= e[n] /\ e[n] \in Nat
  BY <1>2, <1>5, <1>6
<1>8. ASSUME k # n PROVE e[k + 1] = e[k] + Len(s[k + 1].text) /\ e[k + 1] <= e[n]
  <2>1. e[k + 1] = e[(k + 1) - 1] + Len(s[k + 1].text)
    BY <1>2, <1>6, <1>8
  <2>2. e[(k + 1) - 1] = e[k]
    BY <1>6, <1>8
  <2> QED
    BY <1>5, <1>6, <1>8, <2>1, <2>2
<1> QED
  BY <1>2, <1>6, <1>7, <1>8 DEF e, n

\* More of the stream arrives.
LEMMA Arrives ==
  ASSUME NEW s, IsStream(s), NEW k, NEW b \in Units, NEW w \in Units, Remains(s, k, b, w),
         NEW m \in 1 .. Len(w), NEW c, c = b \o SubSeq(w, 1, m)
  PROVE  /\ c # <<>> /\ After(w, m) \in Units
         /\ Remains(s, k, c, After(w, m))
<1> DEFINE x == SubSeq(w, 1, m)
           y == After(w, m)
           t == Text(s)
           o == Ends(s)[k]
<1>0. Len(b) \in Nat /\ Len(w) \in Nat /\ m \in Nat /\ 1 <= m /\ m <= Len(w)
  BY DEF Units
<1>1. \A i \in 1 .. Len(w) : w[i] \in STRING
  BY ElementOfSeq DEF Units
<1>2. /\ x \in Units /\ Len(x) = m /\ \A i \in 1 .. m : x[i] = w[i]
  <2>1. \A i \in 1 .. m : i \in 1 .. Len(w) /\ 1 + i - 1 = i /\ i \in 1 .. m - 1 + 1
    BY <1>0
  <2>2. /\ x \in Seq(STRING) /\ Len(x) = IF 1 <= m THEN m - 1 + 1 ELSE 0
        /\ \A i \in 1 .. m - 1 + 1 : x[i] = w[1 + i - 1]
    BY <1>0, <1>1, <2>1, SubSeqProperties
  <2> HIDE DEF x
  <2>3. \A i \in 1 .. m : x[i] = w[i]
    BY <2>1, <2>2
  <2> QED
    BY <1>0, <2>2, <2>3 DEF Units
<1>3. /\ y \in Units /\ Len(y) = Len(w) - m /\ \A i \in 1 .. Len(w) - m : y[i] = w[m + i]
  <2> DEFINE l == Len(w)
  <2>1. l \in Nat /\ m + 1 \in Int
    BY <1>0
  <2>2. \A i \in m + 1 .. l : w[i] \in STRING
    BY <1>0, <1>1
  <2>3. /\ y \in Seq(STRING) /\ Len(y) = IF m + 1 <= l THEN l - (m + 1) + 1 ELSE 0
        /\ \A i \in 1 .. l - (m + 1) + 1 : y[i] = w[m + 1 + i - 1]
    BY <2>1, <2>2, SubSeqProperties DEF After
  <2> HIDE DEF y
  <2>4. \A i \in 1 .. l - m : i \in 1 .. l - (m + 1) + 1 /\ m + 1 + i - 1 = m + i
    BY <1>0
  <2>5. \A i \in 1 .. l - m : y[i] = w[m + i]
    BY <2>3, <2>4
  <2>6. Len(y) = l - m
    <3>1. Len(y) = IF m + 1 <= l THEN l - (m + 1) + 1 ELSE 0
      BY <2>3
    <3>2. l \in Nat /\ m \in Nat /\ m <= l
      BY <1>0
    <3> HIDE DEF l
    <3> QED
      BY <3>1, <3>2
  <2> QED
    BY <2>3, <2>5, <2>6 DEF Units
<1> HIDE DEF x, y
<1>4. /\ c \in Units /\ Len(c) = Len(b) + m /\ Starts(c, b)
      /\ \A j \in 1 .. m : c[Len(b) + j] = x[j]
  <2>1. c = b \o x
    BY DEF x
  <2>2. /\ b \o x \in Units /\ Len(b \o x) = Len(b) + Len(x) /\ Starts(b \o x, b)
        /\ \A j \in 1 .. Len(x) : (b \o x)[Len(b) + j] = x[j]
    BY <1>2, Joined
  <2> QED
    BY <1>2, <2>1, <2>2
<1>5. c # <<>>
  <2>1. Len(c) # 0
    BY <1>0, <1>4
  <2> QED
    BY <1>4, <2>1, EmptySeq
<1>6. /\ k \in 0 .. Len(s) /\ Len(b) + Len(w) = Len(t) - o
      /\ \A j \in 1 .. Len(b) : b[j] = t[o + j]
      /\ \A j \in 1 .. Len(w) : w[j] = t[o + Len(b) + j]
      /\ o \in Nat /\ Len(t) \in Nat
  BY EndsGrow DEF Remains
<1> HIDE DEF o, t
<1>7. Len(c) + Len(y) = Len(t) - o
  BY <1>0, <1>3, <1>4, <1>6
<1>8. ASSUME NEW j \in 1 .. Len(c) PROVE c[j] = t[o + j]
  <2>1. CASE j <= Len(b)
    <3>1. j \in 1 .. Len(b)
      BY <1>0, <1>4, <2>1
    <3> QED
      BY <1>4, <1>6, <3>1 DEF Starts
  <2>2. CASE ~ (j <= Len(b))
    <3> DEFINE i == j - Len(b)
    <3>1. i \in 1 .. m /\ i \in 1 .. Len(w) /\ Len(b) + i = j /\ o + Len(b) + i = o + j
      BY <1>0, <1>4, <1>6, <2>2
    <3> HIDE DEF i
    <3>2. c[j] = x[i] /\ x[i] = w[i] /\ w[i] = t[o + Len(b) + i]
      BY <1>2, <1>4, <1>6, <3>1
    <3> QED
      BY <3>1, <3>2
  <2> QED
    BY <2>1, <2>2
<1>9. ASSUME NEW j \in 1 .. Len(y) PROVE y[j] = t[o + Len(c) + j]
  <2>1. /\ j \in 1 .. Len(w) - m /\ m + j \in 1 .. Len(w)
        /\ o + Len(b) + (m + j) = o + (Len(b) + m) + j
    BY <1>0, <1>3, <1>6
  <2>2. y[j] = w[m + j] /\ w[m + j] = t[o + Len(b) + (m + j)]
    BY <1>3, <1>6, <2>1
  <2> QED
    BY <1>4, <2>1, <2>2
<1>10. Remains(s, k, c, y)
  BY <1>6, <1>7, <1>8, <1>9 DEF Remains, o, t
<1> QED
  BY <1>3, <1>5, <1>10 DEF y

\* What was received and is not taken begins a request, or a request begins it.
LEMMA Begun ==
  ASSUME NEW s, IsStream(s), NEW k, NEW b \in Units, NEW w \in Units, Remains(s, k, b, w),
         b # <<>>
  PROVE  /\ k + 1 \in 1 .. Len(s)
         /\ \/ Starts(b, s[k + 1].text)
            \/ Starts(s[k + 1].text, b)
         /\ w = <<>> => Len(s[k + 1].text) <= Len(b)
<1> DEFINE q == s[k + 1].text
           t == Text(s)
           o == Ends(s)[k]
           p == Ends(s)[k + 1]
<1>0. Len(b) \in Nat /\ Len(w) \in Nat /\ Len(b) # 0
  BY EmptySeq DEF Units
<1>1. /\ k \in 0 .. Len(s) /\ Len(b) + Len(w) = Len(t) - o
      /\ \A j \in 1 .. Len(b) : b[j] = t[o + j]
  BY DEF Remains
<1>2. /\ o \in Nat /\ Len(t) \in Nat
      /\ k = Len(s) => o = Len(t)
      /\ k # Len(s) => k + 1 \in 1 .. Len(s) /\ p = o + Len(q) /\ p <= Len(t)
  BY <1>1, EndsGrow
<1>3. k # Len(s)
  <2> HIDE DEF o, t
  <2> QED
    BY <1>0, <1>1, <1>2
<1>4. q \in Units /\ Len(q) \in Nat
  BY <1>2, <1>3 DEF IsStream, Units
<1>5. \A j \in 1 .. Len(q) : q[j] = t[o + j]
  <2>1. EndsAt(s, Ends(s)) /\ (k + 1) - 1 = k
    BY <1>1, EndsAre DEF IsStream
  <2>2. \A j \in 1 .. Len(q) : t[Ends(s)[(k + 1) - 1] + j] = q[j]
    BY <1>2, <1>3, <2>1 DEF EndsAt
  <2> QED
    BY <2>1, <2>2
<1>6. Len(q) <= Len(t) - o
  <2> HIDE DEF o, p, t, q
  <2> QED
    BY <1>2, <1>3, <1>4
<1> HIDE DEF o, p, t, q
<1>7. CASE Len(q) <= Len(b)
  <2>1. Starts(b, q)
    BY <1>0, <1>1, <1>4, <1>5, <1>7 DEF Starts
  <2> QED
    BY <1>2, <1>3, <1>7, <2>1 DEF q
<1>8. CASE ~ (Len(q) <= Len(b))
  <2>1. Starts(q, b)
    BY <1>0, <1>1, <1>4, <1>5, <1>8 DEF Starts
  <2>2. w # <<>>
    <3>1. Len(w) # 0
      BY <1>0, <1>1, <1>2, <1>4, <1>6, <1>8
    <3> QED
      BY <3>1, EmptySeq
  <2> QED
    BY <1>2, <1>3, <2>1, <2>2 DEF q
<1> QED
  BY <1>4, <1>0, <1>7, <1>8

\* A request is taken to its end.
LEMMA Goes ==
  ASSUME NEW s, IsStream(s), NEW k, NEW b \in Units, NEW w \in Units, Remains(s, k, b, w),
         k + 1 \in 1 .. Len(s), Starts(b, s[k + 1].text)
  PROVE  Remains(s, k + 1, SubSeq(b, Len(s[k + 1].text) + 1, Len(b)), w)
<1> DEFINE l == Len(s[k + 1].text)
           n == Len(b)
           c == SubSeq(b, l + 1, n)
           t == Text(s)
           o == Ends(s)[k]
           p == Ends(s)[k + 1]
<1>0. n \in Nat /\ Len(w) \in Nat
  BY DEF Units
<1>1. l \in Nat /\ l <= n
  BY DEF IsStream, Units, Starts
<1>2. /\ k \in 0 .. Len(s) /\ n + Len(w) = Len(t) - o
      /\ \A j \in 1 .. n : b[j] = t[o + j]
      /\ \A j \in 1 .. Len(w) : w[j] = t[o + n + j]
  BY DEF Remains
<1>3. /\ o \in Nat /\ Len(t) \in Nat /\ p = o + l
  <2>1. k # Len(s)
    BY <1>2 DEF IsStream
  <2> QED
    BY <1>2, <2>1, EndsGrow
<1>4. /\ c \in Units /\ Len(c) = n - l /\ \A i \in 1 .. n - l : c[i] = b[l + i]
  <2> HIDE DEF l, n
  <2>1. l + 1 \in Int /\ n \in Int
    BY <1>0, <1>1
  <2>2. \A i \in l + 1 .. n : b[i] \in STRING
    <3>1. \A i \in l + 1 .. n : i \in 1 .. Len(b)
      BY <1>0, <1>1 DEF n
    <3> QED
      BY <3>1, ElementOfSeq DEF Units
  <2>3. /\ c \in Seq(STRING) /\ Len(c) = IF l + 1 <= n THEN n - (l + 1) + 1 ELSE 0
        /\ \A i \in 1 .. n - (l + 1) + 1 : c[i] = b[l + 1 + i - 1]
    BY <2>1, <2>2, SubSeqProperties
  <2> HIDE DEF c
  <2>4. \A i \in 1 .. n - l : i \in 1 .. n - (l + 1) + 1 /\ l + 1 + i - 1 = l + i
    BY <1>0, <1>1
  <2>5. \A i \in 1 .. n - l : c[i] = b[l + i]
    BY <2>3, <2>4
  <2>6. Len(c) = n - l
    <3>1. Len(c) = IF l + 1 <= n THEN n - (l + 1) + 1 ELSE 0
      BY <2>3
    <3> QED
      BY <1>0, <1>1, <3>1
  <2> QED
    BY <2>3, <2>5, <2>6 DEF Units
<1> HIDE DEF l, n, c, t, o, p
<1>5. Len(c) + Len(w) = Len(t) - p
  BY <1>0, <1>1, <1>2, <1>3, <1>4
<1>6. ASSUME NEW j \in 1 .. Len(c) PROVE c[j] = t[p + j]
  <2>1. j \in 1 .. n - l /\ l + j \in 1 .. n /\ o + (l + j) = p + j
    BY <1>0, <1>1, <1>3, <1>4
  <2>2. c[j] = b[l + j] /\ b[l + j] = t[o + (l + j)]
    BY <1>2, <1>4, <2>1
  <2> QED
    BY <2>1, <2>2
<1>7. ASSUME NEW j \in 1 .. Len(w) PROVE w[j] = t[p + Len(c) + j]
  <2>1. o + n + j = p + Len(c) + j
    BY <1>0, <1>1, <1>3, <1>4
  <2> QED
    BY <1>2, <2>1
<1>8. k + 1 \in 0 .. Len(s)
  OBVIOUS
<1>9. Remains(s, k + 1, c, w)
  BY <1>5, <1>6, <1>7, <1>8 DEF Remains, t, p
<1> QED
  BY <1>9 DEF c, l, n

-----------------------------------------------------------------------------
(* What a connection takes of its stream                                   *)

Taken == Len(done) + (IF Idle THEN 0 ELSE 1)
Sound(k) == \A j \in 1 .. k : j \in 1 .. Len(requests) => Short(requests[j])

ConnTypes ==
  /\ requests \in Streams
  /\ buf \in Units /\ wire \in Units
  /\ calls \in Int
  /\ \E S : done \in Seq(S)

\* Nothing got lost so far, unless offsets were cut off after more had come with a request.
Kept == Sound(Taken) \/ ~ together => Remains(requests, Taken, buf, wire)

\* Without data that went on behind a request what is left is the beginning of one.
Alone ==
  ~ together =>
    /\ ~ Idle \/ closing => buf = <<>>
    /\ buf # <<>> => /\ Taken + 1 \in 1 .. Len(requests)
                     /\ Len(buf) < Len(requests[Taken + 1].text)

\* The request in process
InProcess ==
  ~ Idle /\ Sound(Taken) =>
    /\ Len(req) = Len(requests[Taken].text)
    /\ buf = <<>> \/ ~ requests[Taken].form => Means(result, requests[Taken])

\* The i-th request is done with, as x.
DoneWell(i, x) ==
  Sound(i) =>
    /\ i \in 1 .. Len(requests)
    /\ ~ (x.behind /\ requests[i].form) =>
         Means(x.result, requests[i]) /\ x.length = Len(requests[i].text)

DoneWith == \A i \in 1 .. Len(done) : DoneWell(i, done[i])

ConnInv == ConnTypes /\ Kept /\ Alone /\ InProcess /\ DoneWith

\* What the assumptions say of the requests of a stream
LEMMA StreamsAre ==
  ASSUME NEW s \in Streams
  PROVE  IsStream(s) /\ \A i \in 1 .. Len(s) : OnePacket(s[i]) /\ Understood(s[i])
BY HttpServerAssumption, RequestAssumption DEF IsStream, Units

\* done grows by what Finished appends.
LEMMA AppendDone ==
  ASSUME ConnTypes, NEW x, done' = Append(done, x)
  PROVE  /\ \E S : done' \in Seq(S)
         /\ Len(done) \in Nat /\ Len(done') = Len(done) + 1
         /\ done'[Len(done) + 1] = x
         /\ \A i \in 1 .. Len(done) : done'[i] = done[i]
<1>1. PICK S : done \in Seq(S)
  BY DEF ConnTypes
<1>2. done \in Seq(S \cup {x}) /\ x \in S \cup {x}
  BY <1>1, SeqMonotonic
<1>3. /\ Append(done, x) \in Seq(S \cup {x}) /\ Len(Append(done, x)) = Len(done) + 1
      /\ \A i \in 1 .. Len(done) : Append(done, x)[i] = done[i]
      /\ Append(done, x)[Len(done) + 1] = x
  BY <1>2, AppendProperties
<1>4. Len(done) \in Nat
  BY <1>2, LenProperties
<1> QED
  BY <1>3, <1>4

\* One more request done with well
LEMMA OneMoreDone ==
  ASSUME ConnTypes, DoneWith, requests' = requests, NEW x, done' = Append(done, x),
         DoneWell(Len(done) + 1, x)
  PROVE  DoneWith'
<1> DEFINE n == Len(done) + 1
<1>1. /\ Len(done) \in Nat /\ Len(done') = n /\ done'[n] = x
      /\ \A i \in 1 .. Len(done) : done'[i] = done[i]
  BY AppendDone
<1>2. \A k : Sound(k)' <=> Sound(k)
  BY Zenon DEF Sound
<1> SUFFICES ASSUME NEW i \in 1 .. Len(done'), Sound(i)
             PROVE  /\ i \in 1 .. Len(requests)
                    /\ ~ (done'[i].behind /\ requests[i].form) =>
                         /\ Means(done'[i].result, requests[i])
                         /\ done'[i].length = Len(requests[i].text)
  BY <1>2, Zenon DEF DoneWith, DoneWell
<1>3. CASE i = n
  BY <1>1, <1>3 DEF DoneWell
<1>4. CASE i # n
  <2>1. i \in 1 .. Len(done)
    BY <1>1, <1>4
  <2> QED
    BY <1>1, <2>1 DEF DoneWith, DoneWell
<1> QED
  BY <1>3, <1>4

\* Before anything arrived nothing is taken.
LEMMA ConnInit == HttpInit => ConnInv
<1> SUFFICES ASSUME HttpInit PROVE ConnInv
  OBVIOUS
<1>1. /\ requests \in Streams /\ wire = Text(requests) /\ buf = <<>> /\ done = <<>>
      /\ calls = -1 /\ Idle
  BY DEF HttpInit, ReplyInit, Idle
<1>2. IsStream(requests) /\ EndsAt(requests, Ends(requests))
  BY <1>1, StreamsAre, EndsAre
<1>3. Text(requests) \in Units /\ Ends(requests)[0] = 0
  BY <1>2 DEF EndsAt
<1>4. Len(done) = 0 /\ Taken = 0 /\ Len(buf) = 0
  BY <1>1 DEF Taken
<1>5. ConnTypes
  <2>1. <<>> \in Units /\ <<>> \in Seq({})
    BY EmptySeq DEF Units
  <2> QED
    BY <1>1, <1>3, <2>1 DEF ConnTypes
<1>6. Remains(requests, 0, buf, wire)
  <2> DEFINE t == Text(requests)
  <2>1. Len(t) \in Nat /\ Len(requests) \in Nat
    BY <1>2, <1>3 DEF Units, IsStream
  <2> HIDE DEF t
  <2>2. wire = t /\ \A j \in 1 .. Len(t) : 0 + Len(buf) + j = j
    BY <1>1, <1>4 DEF t
  <2>3. Len(buf) + Len(wire) = Len(t) - 0
    BY <1>4, <2>1, <2>2
  <2>4. \A j \in 1 .. Len(wire) : wire[j] = t[0 + Len(buf) + j]
    BY <2>2
  <2>5. 0 \in 0 .. Len(requests) /\ \A j \in 1 .. Len(buf) : buf[j] = t[0 + j]
    BY <1>4, <2>1
  <2> QED
    BY <1>3, <2>3, <2>4, <2>5 DEF Remains, t
<1>7. Kept
  BY <1>4, <1>6 DEF Kept
<1>8. Alone /\ InProcess /\ DoneWith
  BY <1>1, <1>4 DEF Alone, InProcess, DoneWith
<1> QED
  BY <1>5, <1>7, <1>8 DEF ConnInv

\* The module changes nothing of this.
LEMMA ModuleLeaves ==
  ASSUME ConnInv, UNCHANGED connVars, calls' \in Int, Idle' = Idle
  PROVE  ConnInv'
<1>1. /\ requests' = requests /\ wire' = wire /\ buf' = buf /\ req' = req /\ result' = result
      /\ done' = done /\ closing' = closing /\ together' = together
  BY DEF connVars
<1>2. Taken' = Taken /\ \A k : Sound(k)' <=> Sound(k)
  BY <1>1, Zenon DEF Taken, Sound
<1>3. ConnTypes'
  BY <1>1, Zenon DEF ConnInv, ConnTypes
<1>4. Kept'
  BY <1>1, <1>2, Zenon DEF ConnInv, Kept
<1>5. Alone'
  BY <1>1, <1>2, Zenon DEF ConnInv, Alone
<1>6. InProcess'
  BY <1>1, <1>2, Zenon DEF ConnInv, InProcess
<1>7. DoneWith'
  BY <1>1, <1>2, Zenon DEF ConnInv, DoneWith, DoneWell
<1> QED
  BY <1>3, <1>4, <1>5, <1>6, <1>7 DEF ConnInv

\* http_proc returns, and what it was about is done with.
LEMMA FinishKeeps ==
  ASSUME ConnInv, Finish
  PROVE  ConnInv'
<1> DEFINE said == IF rsp.error THEN "nothing" ELSE rsp.said
           x == [result |-> result, length |-> Len(req), behind |-> buf # <<>>, said |-> said]
           n == Len(done) + 1
<1>1. /\ ~ Idle /\ Idle' /\ calls' = -1
      /\ requests' = requests /\ wire' = wire /\ buf' = buf /\ together' = together
      /\ done' = Append(done, x)
  BY DEF Finish, Finished, End, Idle
<1> HIDE DEF x
<1>2. ConnTypes
  BY DEF ConnInv
<1>3. /\ \E S : done' \in Seq(S)
      /\ Len(done) \in Nat /\ Len(done') = n /\ done'[n] = x
      /\ \A i \in 1 .. Len(done) : done'[i] = done[i]
  BY <1>1, <1>2, AppendDone
<1>4. Taken = n /\ Taken' = n
  <2>1. Taken = Len(done) + 1 /\ Taken' = Len(done')
    BY <1>1, <1>3 DEF Taken
  <2> QED
    BY <1>3, <2>1
<1>5. \A k : Sound(k)' <=> Sound(k)
  BY <1>1, Zenon DEF Sound
<1>6. ConnTypes'
  BY <1>1, <1>2, <1>3 DEF ConnTypes
<1>7. Kept'
  BY <1>1, <1>4, <1>5, Zenon DEF ConnInv, Kept
<1>8. Alone'
  BY <1>1, <1>4, <1>5, Zenon DEF ConnInv, Alone
<1>9. InProcess'
  BY <1>1 DEF InProcess
<1>10. DoneWell(n, x)
  <2> SUFFICES ASSUME Sound(n) PROVE DoneWell(n, x)
    BY DEF DoneWell
  <2>1. n \in 1 .. Len(requests)
    BY <1>3, <1>4 DEF ConnInv, Kept, Remains
  <2>2. /\ Len(req) = Len(requests[n].text)
        /\ buf = <<>> \/ ~ requests[n].form => Means(result, requests[n])
    BY <1>1, <1>4 DEF ConnInv, InProcess
  <2>3. x.result = result /\ x.length = Len(req) /\ (x.behind <=> buf # <<>>)
    BY DEF x
  <2> QED
    BY <2>1, <2>2, <2>3 DEF DoneWell
<1>11. DoneWith'
  BY <1>1, <1>2, <1>10, OneMoreDone DEF ConnInv
<1> QED
  BY <1>6, <1>7, <1>8, <1>9, <1>11 DEF ConnInv

\* on_tcp_recv, whatever it finds in what has arrived
LEMMA ReceiveKeeps ==
  ASSUME ConnInv, NEW n \in Arrivals \cup {Len(wire)}, Receive(n)
  PROVE  ConnInv'
<1> DEFINE b == buf \o SubSeq(wire, 1, n)
           rest == After(wire, n)
           v == HttpCheck(b)
           length == v.body + v.content
           k == Len(done)
           q == requests[k + 1]
           left == SubSeq(b, length + 1, Len(b))
           Error == /\ v.is = "error"
                    /\ closing' = TRUE
                    /\ buf' = <<>>
                    /\ UNCHANGED <<req, result, done, together, replyVars>>
           More == /\ v.is = "more"
                   /\ buf' = b
                   /\ UNCHANGED <<req, result, done, closing, together, replyVars>>
           Full == /\ v.is = "full"
                   /\ buf' = left
                   /\ together' = (together \/ length < Len(b))
                   /\ \E r \in Results(b, v) :
                        \/ /\ r.code = 0
                           /\ result' = r
                           /\ req' = SubSeq(b, 1, length)
                           /\ Begin
                           /\ UNCHANGED <<done, closing>>
                        \/ /\ r.code # 0
                           /\ closing' = TRUE
                           /\ Finished(r, length, length < Len(b), "nothing")
                           /\ UNCHANGED <<req, result, replyVars>>
<1>1. /\ Idle /\ ~ closing /\ n > 0 /\ n <= Len(wire) /\ wire' = rest /\ requests' = requests
      /\ Error \/ More \/ Full
  BY Zenon DEF Receive
<1> HIDE DEF Error, More, Full
<1>2. ConnTypes /\ Kept /\ Alone /\ InProcess /\ DoneWith
  BY DEF ConnInv
<1>3. /\ buf \in Units /\ wire \in Units /\ requests \in Streams
      /\ Len(wire) \in Nat /\ n \in 1 .. Len(wire)
  <2>1. buf \in Units /\ wire \in Units /\ requests \in Streams /\ Len(wire) \in Nat
    BY <1>2 DEF ConnTypes, Units
  <2>2. n \in Nat
    BY <2>1, HttpServerAssumption
  <2> QED
    BY <1>1, <2>1, <2>2
<1>4. IsStream(requests) /\ Len(requests) \in Nat
      /\ \A i \in 1 .. Len(requests) : OnePacket(requests[i]) /\ Understood(requests[i])
  BY <1>3, StreamsAre DEF IsStream
<1>5. k \in Nat /\ Taken = k
  <2>1. PICK S : done \in Seq(S)
    BY <1>2 DEF ConnTypes
  <2>2. k \in Nat
    BY <2>1, LenProperties
  <2> QED
    BY <1>1, <2>2 DEF Taken
<1>6. b \in Units /\ rest \in Units /\ Len(b) \in Nat
  <2>1. SubSeq(wire, 1, n) \in Units
    <3>1. 1 \in Nat \ {0} /\ n \in Int /\ n <= Len(wire)
      BY <1>3
    <3> QED
      BY <1>3, <3>1, Part
  <2>2. b \in Units
    BY <1>3, <2>1, Joined
  <2>3. rest \in Units
    <3>1. n + 1 \in Nat \ {0} /\ Len(wire) \in Int /\ Len(wire) <= Len(wire)
      BY <1>3
    <3> QED
      BY <1>3, <3>1, Part DEF After
  <2> HIDE DEF b
  <2> QED
    BY <2>2, <2>3 DEF Units
<1>7. ASSUME Sound(k) \/ ~ together
      PROVE  /\ Remains(requests, k, b, rest) /\ b # <<>>
             /\ k + 1 \in 1 .. Len(requests) /\ q.text \in Units /\ Len(q.text) \in Nat
             /\ v.is # "error"
             /\ v.is = "full" =>
                  /\ Starts(b, q.text) /\ length \in 0 .. Len(q.text)
                  /\ Short(q) =>
                       /\ length = Len(q.text)
                       /\ \A r \in Results(b, v) : Len(b) = length \/ ~ q.form => Means(r, q)
             /\ v.is # "full" => Len(b) < Len(q.text)
  <2>1. Remains(requests, k, buf, wire)
    BY <1>2, <1>5, <1>7 DEF Kept
  <2> HIDE DEF k
  <2>2. Remains(requests, k, b, rest) /\ b # <<>>
    BY <1>3, <1>4, <2>1, Arrives
  <2> HIDE DEF b, rest
  <2>3. /\ k + 1 \in 1 .. Len(requests)
        /\ Starts(b, q.text) \/ Starts(q.text, b)
    BY <1>4, <1>6, <2>2, Begun
  <2>4. q.text \in Units /\ Len(q.text) \in Nat /\ OnePacket(q) /\ Understood(q)
    BY <1>4, <2>3 DEF IsStream, Units
  <2> HIDE DEF q
  <2> QED
    BY <1>6, <2>2, <2>3, <2>4, RequestTaken
<1>8. /\ v.is \in {"error", "more", "full"}
      /\ v.is = "full" => length \in Nat
  <2> HIDE DEF b
  <2>1. v.is \in {"error", "more", "full"} /\ v.is = Packet(b).is
    BY <1>6, VerdictsAre
  <2>2. ASSUME v.is = "full" PROVE length \in Nat
    <3>1. Starts(b, b)
      BY <1>6 DEF Starts
    <3>2. Packet(b).body \in Nat /\ Packet(b).content \in Nat
      BY <1>6, <2>1, <2>2, <3>1, FullIsFinal
    <3>3. v.body = Packet(b).body % BodyWrap /\ v.content = Packet(b).content
      BY <1>6, VerdictsAre
    <3>4. Packet(b).body % BodyWrap \in 0 .. Packet(b).body
      BY <3>2, HttpParserAssumption, Wrapped
    <3> QED
      BY <3>2, <3>3, <3>4
  <2> QED
    BY <2>1, <2>2
<1>9. \A i : Sound(i)' <=> Sound(i)
  BY <1>1, Zenon DEF Sound
<1> HIDE DEF b, rest, v, length, q
<1>10. CASE Error
  <2>1. /\ v.is = "error" /\ buf' = <<>> /\ done' = done /\ together' = together /\ calls' = calls
    BY <1>10 DEF Error, replyVars
  <2>2. ~ Sound(k) /\ together
    BY <1>7, <2>1
  <2>3. Idle' /\ Taken' = k
    BY <1>1, <2>1 DEF Taken, Idle
  <2>4. ConnTypes'
    <3>1. <<>> \in Units
      BY EmptySeq DEF Units
    <3> QED
      BY <1>1, <1>2, <1>6, <2>1, <3>1 DEF ConnTypes
  <2>5. Kept' /\ Alone' /\ InProcess'
    <3>1. ~ Sound(k)' /\ together'
      BY <1>9, <2>1, <2>2
    <3>2. Kept'
      <4> HIDE DEF k
      <4> QED
        BY <1>9, <2>2, <2>3, <3>1, Zenon DEF Kept
    <3>3. Alone'
      BY <3>1 DEF Alone
    <3>4. InProcess'
      BY <2>3 DEF InProcess
    <3> QED
      BY <3>2, <3>3, <3>4
  <2>6. DoneWith'
    BY <1>1, <1>2, <1>9, <2>1, Zenon DEF DoneWith, DoneWell
  <2> QED
    BY <2>4, <2>5, <2>6 DEF ConnInv
<1>11. CASE More
  <2>1. /\ v.is = "more" /\ buf' = b /\ done' = done /\ together' = together /\ calls' = calls
        /\ closing' = closing
    BY <1>11 DEF More, replyVars
  <2>2. Idle' /\ Taken' = k
    BY <1>1, <2>1 DEF Taken, Idle
  <2>3. ConnTypes'
    BY <1>1, <1>2, <1>6, <2>1 DEF ConnTypes
  <2>4. Kept'
    <3> SUFFICES ASSUME Sound(k) \/ ~ together PROVE Remains(requests, k, b, rest)
      BY <1>1, <1>9, <2>1, <2>2, Zenon DEF Kept
    <3> QED
      BY <1>7
  <2>5. Alone'
    <3> SUFFICES ASSUME ~ together
                 PROVE  k + 1 \in 1 .. Len(requests) /\ Len(b) < Len(q.text)
      BY <1>1, <2>1, <2>2, Zenon DEF Alone, q
    <3> QED
      BY <1>7, <2>1
  <2>6. InProcess'
    BY <2>2 DEF InProcess
  <2>7. DoneWith'
    BY <1>1, <1>2, <1>9, <2>1, Zenon DEF DoneWith, DoneWell
  <2> QED
    BY <2>3, <2>4, <2>5, <2>6, <2>7 DEF ConnInv
<1>12. CASE Full
  <2>1. /\ v.is = "full" /\ buf' = left /\ (together' <=> together \/ length < Len(b))
        /\ length \in Nat
    BY <1>8, <1>12 DEF Full
  <2>2. PICK r \in Results(b, v) :
               \/ /\ r.code = 0
                  /\ result' = r
                  /\ req' = SubSeq(b, 1, length)
                  /\ Begin
                  /\ UNCHANGED <<done, closing>>
               \/ /\ r.code # 0
                  /\ closing' = TRUE
                  /\ Finished(r, length, length < Len(b), "nothing")
                  /\ UNCHANGED <<req, result, replyVars>>
    BY <1>12 DEF Full
  <2>3. left \in Units /\ (length <= Len(b) => Len(left) = Len(b) - length)
    <3>1. length + 1 \in Int /\ length + 1 \in Nat \ {0} /\ Len(b) \in Int /\ Len(b) <= Len(b)
      BY <1>6, <2>1
    <3>2. \A i \in length + 1 .. Len(b) : b[i] \in STRING
      <4>1. \A i \in length + 1 .. Len(b) : i \in 1 .. Len(b)
        BY <1>6, <2>1
      <4> QED
        BY <1>6, <4>1, ElementOfSeq DEF Units
    <3>3. /\ left \in Seq(STRING)
          /\ Len(left) = IF length + 1 <= Len(b) THEN Len(b) - (length + 1) + 1 ELSE 0
      BY <3>1, <3>2, SubSeqProperties
    <3> HIDE DEF left
    <3>4. left \in Units
      BY <3>3 DEF Units
    <3>5. length <= Len(b) => Len(left) = Len(b) - length
      BY <1>6, <2>1, <3>3
    <3> QED
      BY <3>4, <3>5
  <2> HIDE DEF left
  <2>4. ASSUME Sound(k + 1) PROVE Sound(k)
    BY <1>5, <2>4 DEF Sound
  <2>5. ASSUME Sound(k + 1) \/ ~ together'
        PROVE  /\ Remains(requests, k, b, rest) /\ k + 1 \in 1 .. Len(requests)
               /\ q.text \in Units /\ Starts(b, q.text)
               /\ length = Len(q.text) /\ length <= Len(b)
               /\ Len(left) = Len(b) - length
               /\ ~ together' => left = <<>>
    <3>1. Sound(k) \/ ~ together
      BY <2>1, <2>4, <2>5
    <3>2. /\ Remains(requests, k, b, rest) /\ k + 1 \in 1 .. Len(requests)
          /\ q.text \in Units /\ Len(q.text) \in Nat
          /\ Starts(b, q.text) /\ length \in 0 .. Len(q.text)
          /\ Short(q) => length = Len(q.text)
      BY <1>7, <2>1, <3>1
    <3>3. Len(q.text) <= Len(b)
      BY <3>2 DEF Starts
    <3>4. length = Len(q.text)
      <4>1. CASE Sound(k + 1)
        <5>1. Short(q)
          <6>1. k + 1 \in 1 .. k + 1
            BY <1>5
          <6> QED
            BY <3>2, <4>1, <6>1 DEF Sound, q
        <5> QED
          BY <3>2, <5>1
      <4>2. CASE ~ together'
        <5>1. ~ (length < Len(b))
          BY <2>1, <4>2
        <5> QED
          BY <1>6, <3>2, <3>3, <5>1
      <4> QED
        BY <2>5, <4>1, <4>2
    <3>5. ASSUME ~ together' PROVE left = <<>>
      <4>1. ~ (length < Len(b))
        BY <2>1, <3>5
      <4>2. Len(left) = 0
        BY <1>6, <2>1, <2>3, <3>3, <3>4, <4>1
      <4> QED
        BY <2>3, <4>2, EmptySeq DEF Units
    <3> QED
      BY <2>3, <3>2, <3>3, <3>4, <3>5
  <2>6. ASSUME Sound(k + 1), left = <<>> \/ ~ q.form PROVE Means(r, q)
    <3>1. Short(q)
      <4>1. k + 1 \in 1 .. k + 1 /\ k + 1 \in 1 .. Len(requests)
        BY <1>5, <2>5, <2>6
      <4> QED
        BY <2>6, <4>1 DEF Sound, q
    <3>2. Len(b) = length \/ ~ q.form
      <4>1. CASE left = <<>>
        <5>1. Len(left) = 0 /\ Len(left) = Len(b) - length
          BY <2>3, <2>5, <2>6, <4>1, EmptySeq DEF Units
        <5> QED
          BY <1>6, <2>1, <5>1
      <4> QED
        BY <2>6, <4>1
    <3> QED
      BY <1>7, <2>1, <2>2, <2>4, <2>6, <3>1, <3>2
  <2>7. ASSUME Taken' = k + 1
        PROVE  Kept' /\ Alone'
    <3>1. Kept'
      <4> SUFFICES ASSUME Sound(k + 1) \/ ~ together'
                   PROVE  Remains(requests, k + 1, left, rest)
        <5> HIDE DEF k
        <5> QED
          BY <1>1, <1>9, <2>1, <2>7, Zenon DEF Kept
      <4>1. Remains(requests, k + 1, SubSeq(b, Len(requests[k + 1].text) + 1, Len(b)), rest)
        <5> HIDE DEF k
        <5> QED
          BY <1>4, <1>6, <2>5, Goes DEF q
      <4> QED
        BY <2>5, <4>1 DEF left, q
    <3>2. Alone'
      BY <2>1, <2>5 DEF Alone
    <3> QED
      BY <3>1, <3>2
  <2>8. CASE /\ r.code = 0
             /\ result' = r
             /\ req' = SubSeq(b, 1, length)
             /\ Begin
             /\ UNCHANGED <<done, closing>>
    <3>1. ~ Idle' /\ calls' = 0 /\ done' = done
      BY <2>8 DEF Begin, Idle
    <3>2. Taken' = k + 1
      BY <3>1 DEF Taken
    <3>3. ConnTypes'
      BY <1>1, <1>2, <1>6, <2>1, <2>3, <3>1 DEF ConnTypes
    <3>4. DoneWith'
      BY <1>1, <1>2, <1>9, <3>1, Zenon DEF DoneWith, DoneWell
    <3>5. InProcess'
      <4> SUFFICES ASSUME Sound(k + 1)
                   PROVE  /\ Len(req') = Len(q.text)
                          /\ left = <<>> \/ ~ q.form => Means(r, q)
        <5> HIDE DEF k
        <5> QED
          BY <1>1, <1>9, <2>1, <2>8, <3>2, Zenon DEF InProcess, q
      <4>1. length = Len(q.text) /\ length <= Len(b)
        BY <2>5
      <4>2. Len(SubSeq(b, 1, length)) = length
        <5>1. \A i \in 1 .. length : b[i] \in STRING
          <6>1. \A i \in 1 .. length : i \in 1 .. Len(b)
            BY <1>6, <2>1, <4>1
          <6> QED
            BY <1>6, <6>1, ElementOfSeq DEF Units
        <5>2. 1 \in Int /\ length \in Int
          BY <2>1
        <5>3. Len(SubSeq(b, 1, length)) = IF 1 <= length THEN length - 1 + 1 ELSE 0
          BY <5>1, <5>2, SubSeqProperties
        <5> QED
          BY <2>1, <5>3
      <4> QED
        BY <2>6, <2>8, <4>1, <4>2
    <3> QED
      BY <2>7, <3>2, <3>3, <3>4, <3>5 DEF ConnInv
  <2>9. CASE /\ r.code # 0
             /\ closing' = TRUE
             /\ Finished(r, length, length < Len(b), "nothing")
             /\ UNCHANGED <<req, result, replyVars>>
    <3> DEFINE x == [result |-> r, length |-> length, behind |-> length < Len(b),
                     said |-> "nothing"]
    <3>1. done' = Append(done, x) /\ calls' = calls
      BY <2>9 DEF Finished, replyVars
    <3>2. Idle'
      BY <1>1, <3>1 DEF Idle
    <3>3. x.result = r /\ x.length = length /\ (x.behind <=> length < Len(b))
      OBVIOUS
    <3> HIDE DEF x
    <3>4. (\E S : done' \in Seq(S)) /\ Len(done') = k + 1
      BY <1>2, <3>1, AppendDone
    <3>5. Taken' = k + 1
      BY <1>5, <3>2, <3>4 DEF Taken
    <3>6. ConnTypes'
      BY <1>1, <1>2, <1>6, <2>1, <2>3, <3>1, <3>4 DEF ConnTypes
    <3>7. InProcess'
      BY <3>2 DEF InProcess
    <3>8. DoneWell(k + 1, x)
      <4> SUFFICES ASSUME Sound(k + 1) PROVE
                     /\ k + 1 \in 1 .. Len(requests)
                     /\ ~ (x.behind /\ q.form) => Means(x.result, q) /\ x.length = Len(q.text)
        BY DEF DoneWell, q
      <4>1. k + 1 \in 1 .. Len(requests) /\ length = Len(q.text) /\ length <= Len(b)
            /\ Len(left) = Len(b) - length
        BY <2>5
      <4>2. ASSUME ~ x.behind PROVE left = <<>>
        <5>1. Len(left) = 0
          BY <1>6, <2>1, <3>3, <4>1, <4>2
        <5> QED
          BY <2>3, <5>1, EmptySeq DEF Units
      <4> QED
        BY <2>6, <3>3, <4>1, <4>2
    <3>9. DoneWith'
      BY <1>1, <1>2, <3>1, <3>8, OneMoreDone
    <3> QED
      BY <2>7, <3>5, <3>6, <3>7, <3>9 DEF ConnInv
  <2> QED
    BY <2>2, <2>8, <2>9
<1> QED
  BY <1>1, <1>10, <1>11, <1>12

LEMMA ConnStep == ConnInv /\ [HttpNext]_httpVars => ConnInv'
<1> SUFFICES ASSUME ConnInv, [HttpNext]_httpVars PROVE ConnInv'
  OBVIOUS
<1>1. calls \in Int
  BY DEF ConnInv, ConnTypes
<1>2. CASE \E n \in Arrivals \cup {Len(wire)} : Receive(n)
  BY <1>2, ReceiveKeeps
<1>3. CASE Hello
  <2>1. \E u : Call(u)
    BY <1>3 DEF Hello
  <2>2. calls \in 0 .. MaxCalls - 1 /\ calls' = calls + 1
    BY <2>1 DEF Call
  <2>3. calls' \in Int /\ Idle' = Idle
    BY <2>2 DEF Idle
  <2> QED
    BY <1>3, <2>3, ModuleLeaves DEF Hello
<1>4. CASE Module
  <2>1. \E u : Call(u)
    BY <1>4 DEF Module, ModuleCalls, CallSetMax, CallSendHeader, CallSendHeader2, CallAppend,
       CallSend, CallKeepAlive
  <2>2. calls \in 0 .. MaxCalls - 1 /\ calls' = calls + 1
    BY <2>1 DEF Call
  <2>3. calls' \in Int /\ Idle' = Idle
    BY <2>2 DEF Idle
  <2> QED
    BY <1>4, <2>3, ModuleLeaves DEF Module
<1>5. CASE Finish
  BY <1>5, FinishKeeps
<1>6. CASE UNCHANGED httpVars
  <2>1. UNCHANGED connVars /\ calls' = calls
    BY <1>6 DEF httpVars, replyVars
  <2> QED
    BY <1>1, <2>1, ModuleLeaves DEF Idle
<1> QED
  BY <1>2, <1>3, <1>4, <1>5, <1>6 DEF HttpNext

LEMMA ConnInvariant == HttpSpec => []ConnInv
BY ConnInit, ConnStep, PTL DEF HttpSpec

\* However a stream of requests is cut, and whatever the module answers, each request is taken
\* where it begins and ends and means to the module what it means alone (gr_http.c:294, 606), as
\* long as offsets fit their bit fields and nothing is received behind a form.
THEOREM AlwaysAsMeant == HttpSpec => []AsMeant
<1>1. ConnInv => AsMeant
  <2> SUFFICES ASSUME ConnInv, NEW i \in DOMAIN done, \A j \in 1 .. i : Short(requests[j]),
                      ~ (done[i].behind /\ requests[i].form)
               PROVE  /\ Means(done[i].result, requests[i])
                      /\ done[i].length = Len(requests[i].text)
    BY DEF AsMeant
  <2>1. i \in 1 .. Len(done)
    <3>1. PICK S : done \in Seq(S)
      BY DEF ConnInv, ConnTypes
    <3> QED
      BY <3>1, LenProperties
  <2>2. Sound(i)
    BY DEF Sound
  <2> QED
    BY <2>1, <2>2 DEF ConnInv, DoneWith, DoneWell
<1> QED
  BY <1>1, ConnInvariant, PTL

\* However it is cut, of a stream in which no request goes on in the data that completes the one
\* before nothing is lost: what has not arrived when the connection closes, or when everything
\* has, is the requests that were not processed (tcp_io.h:264, gr_http.c:424).
THEOREM AlwaysTakenUnlessTogether == HttpSpec => []TakenUnlessTogether
<1>1. ConnInv => TakenUnlessTogether
  <2> SUFFICES ASSUME ConnInv, Idle, closing \/ wire = <<>>, ~ together
               PROVE  /\ Len(done) <= Len(requests)
                      /\ wire = Text(After(requests, Len(done)))
    BY DEF TakenUnlessTogether, Settled
  <2> DEFINE k == Len(done)
             t == Text(requests)
             o == Ends(requests)[k]
  <2>1. /\ requests \in Streams /\ buf \in Units /\ wire \in Units
        /\ IsStream(requests) /\ Len(requests) \in Nat
    BY StreamsAre DEF ConnInv, ConnTypes, IsStream
  <2>2. k \in Nat /\ Taken = k
    <3>1. PICK S : done \in Seq(S)
      BY DEF ConnInv, ConnTypes
    <3>2. k \in Nat
      BY <3>1, LenProperties
    <3> QED
      BY <3>2 DEF Taken
  <2>3. Remains(requests, k, buf, wire)
    BY <2>2 DEF ConnInv, Kept
  <2>4. buf = <<>>
    <3>1. CASE closing
      BY <3>1 DEF ConnInv, Alone
    <3>2. CASE wire = <<>> /\ buf # <<>>
      <4> HIDE DEF k
      <4>1. k + 1 \in 1 .. Len(requests) /\ Len(requests[k + 1].text) <= Len(buf)
        BY <2>1, <2>3, <3>2, Begun
      <4>2. Len(buf) < Len(requests[k + 1].text)
        BY <2>2, <3>2 DEF ConnInv, Alone
      <4>3. Len(requests[k + 1].text) \in Nat /\ Len(buf) \in Nat
        BY <2>1, <4>1 DEF IsStream, Units
      <4> QED
        BY <4>1, <4>2, <4>3
    <3> QED
      BY <3>1, <3>2
  <2>5. /\ k \in 0 .. Len(requests) /\ Len(wire) = Len(t) - o
        /\ \A j \in 1 .. Len(wire) : wire[j] = t[o + j]
    <3>1. /\ k \in 0 .. Len(requests) /\ Len(buf) + Len(wire) = Len(t) - o
          /\ \A j \in 1 .. Len(wire) : wire[j] = t[o + Len(buf) + j]
      BY <2>3 DEF Remains
    <3>2. Len(buf) = 0 /\ Len(wire) \in Nat /\ o \in Nat /\ Len(t) \in Nat
      BY <2>1, <2>4, <3>1, EmptySeq, EndsGrow DEF Units
    <3> HIDE DEF o, t, k
    <3>3. \A j \in 1 .. Len(wire) : o + Len(buf) + j = o + j
      BY <3>2
    <3> QED
      BY <3>1, <3>2, <3>3
  <2> HIDE DEF k
  <2>6. Text(After(requests, k)) = wire
    BY <2>1, <2>5, RestIsText
  <2> QED
    BY <2>1, <2>5, <2>6 DEF k
<1> QED
  BY <1>1, ConnInvariant, PTL

-----------------------------------------------------------------------------
(* The end of a connection: three threads and the flags they share         *)

\* No store undid another, and tcp.output cleared worker_open only of a worker that was idle.
Clean == slips \cap {"overtaken", "lost"} = {}

Working  == worker \notin {"wait", "notify"}
Answered == worker \in {"open", "set", "arm", "pop", "last", "done"}
Gone     == input \in {"notify", "gone"}
Quiet    == queue = 0 /\ ~ Working /\ Gone

\* Where the threads are, and the variables that have a few values
Places ==
  /\ input \in {"wait", "recv", "open1", "set1", "count", "open2", "set2", "queue",
                "del", "load", "busy", "store", "leave", "left", "notify", "gone"}
  /\ worker \in {"wait", "module", "send", "check", "add", "open", "set", "arm",
                 "pop", "last", "done", "notify"}
  /\ output \in {"wait", "send", "clear", "after", "error", "drop", "close", "del",
                 "load", "busy", "store", "leave", "left", "decide", "free"}
Names ==
  /\ closeType \in {"OPENING", "NEED_CLOSE"} /\ tells \in {"open", "no", "yes"}
  /\ outArmed \in {"absent", "nothing", "out"} /\ stream \in {"open", "fin", "reset"}
Truths ==
  /\ netError \in BOOLEAN /\ listed \in BOOLEAN /\ freed \in BOOLEAN /\ inArmed \in BOOLEAN
  /\ inEvent \in BOOLEAN /\ outEvent \in BOOLEAN /\ socketError \in BOOLEAN
Sets ==
  /\ flags \subseteq Flag /\ seen \in [Thread -> SUBSET Flag]
  /\ slips \subseteq {"overtaken", "lost", "untold", "unheard"}

\* A request is counted once it is received and until the worker is done with it; while it
\* is, it is with tcp.input, in the queue or with the worker, who holds the lock for it.
Received == unread + (pushCount - 1) + (IF input \in {"open1", "set1", "count"} THEN 1 ELSE 0)
              <= sent
Counted ==
  pushCount = procCount + queue + (IF Working THEN 1 ELSE 0)
                + (IF input \in {"open2", "set2", "queue"} THEN 1 ELSE 0)
Unsent == waiting <= procCount - 1 + (IF Answered THEN 1 ELSE 0)
StoreIsIdle == input = "store" => queue = 0 /\ ~ Working
Counts ==
  /\ pushCount \in Nat /\ procCount \in Nat \ {0} /\ queue \in Nat /\ waiting \in Nat
  /\ unread \in Nat /\ sent \in 0 .. MaxReq
  /\ locked = Working
  /\ Received /\ Counted /\ Unsent /\ StoreIsIdle

\* What the flags say of the threads, unless there was a slip
InputIsOpen  == "in" \in flags <=> ~ Gone
WorkerIsOpen == "worker" \notin flags => queue = 0 /\ ~ Working /\ input # "queue"
Deleting     == output = "free" \/ freed => Quiet
FlagsTell == Clean => InputIsOpen /\ WorkerIsOpen /\ Deleting

\* tcp.output does not come back to a connection it has deleted.
Never == freed => output = "wait" /\ ~ outEvent /\ outArmed = "absent"

CloseInv == Places /\ Names /\ Truths /\ Sets /\ Counts /\ FlagsTell /\ Never

-----------------------------------------------------------------------------
LEMMA CloseInitOK == Init => CloseInv
<1> SUFFICES ASSUME Init PROVE CloseInv
  OBVIOUS
<1> USE CloseAssumption DEF Init
<1>1. Places /\ Names /\ Sets
  BY DEF Places, Names, Sets, Flag, Thread
<1>2. Truths /\ Never
  BY Zenon DEF Truths, Never
<1>3. Counts
  <2>1. ~ Working /\ locked = Working
    BY DEF Working
  <2> QED
    BY <2>1 DEF Counts, Received, Counted, Unsent, StoreIsIdle, Answered
<1>4. FlagsTell
  BY DEF FlagsTell, InputIsOpen, WorkerIsOpen, Deleting, Gone, Working, Quiet
<1> QED
  BY <1>1, <1>2, <1>3, <1>4 DEF CloseInv

LEMMA PlacesKept == Places /\ [Next]_vars => Places'
<1> SUFFICES ASSUME Places, [Next]_vars PROVE Places'
  OBVIOUS
<1> USE DEF Places, OtherThanInput, OtherThanWorker, OtherThanOutput, inputVars, workerVars,
            outputVars, AtInput, AtWorker, AtOutput
<1>1. CASE Input
  BY <1>1 DEF Input, InputWakes, InputReceives, InputOpens, InputSetsOpen, InputCounts,
     InputQueues, InputStops, InputLoads, InputLooks, InputClearsWorker, InputLeaves,
     InputClearsIn, InputNotifies
<1>2. CASE Worker
  BY <1>2 DEF Worker, WorkerTakes, WorkerProcesses, WorkerSends, WorkerChecks, WorkerAdds,
     WorkerOpens, WorkerSetsOut, WorkerArms, WorkerPops, WorkerIsLast, WorkerFinishes,
     WorkerNotifies
<1>3. CASE Output
  BY <1>3 DEF Output, OutputWakes, OutputSends, OutputSendsSome, OutputClears,
     OutputLooks, OutputFails, OutputStops, OutputLoads, OutputChecks, OutputClearsWorker,
     OutputLeaves, OutputClearsOut, OutputDecides, OutputFrees
<1>4. CASE ClientSends \/ ClientEnds \/ UNCHANGED vars
  BY <1>4 DEF ClientSends, ClientEnds, vars
<1> QED
  BY <1>1, <1>2, <1>3, <1>4 DEF Next

LEMMA NamesKept == Names /\ [Next]_vars => Names'
<1> SUFFICES ASSUME Names, [Next]_vars PROVE Names'
  OBVIOUS
<1> USE DEF Names, shared, clientVars, workerVars, outputVars, OtherThanInput,
            OtherThanWorker, OtherThanOutput, Arm, Disarm
<1>1. CASE Input
  BY <1>1 DEF Input, InputWakes, InputReceives, InputOpens, InputSetsOpen, InputCounts,
     InputQueues, InputStops, InputLoads, InputLooks, InputClearsWorker, InputLeaves,
     InputClearsIn, InputNotifies
<1>2. CASE Worker
  BY <1>2 DEF Worker, WorkerTakes, WorkerProcesses, WorkerSends, WorkerChecks, WorkerAdds,
     WorkerOpens, WorkerSetsOut, WorkerArms, WorkerPops, WorkerIsLast, WorkerFinishes,
     WorkerNotifies
<1>3. CASE Output
  BY <1>3 DEF Output, OutputWakes, OutputSends, OutputSendsSome, OutputClears,
     OutputLooks, OutputFails, OutputStops, OutputLoads, OutputChecks, OutputClearsWorker,
     OutputLeaves, OutputClearsOut, OutputDecides, OutputFrees
<1>4. CASE ClientSends \/ ClientEnds \/ UNCHANGED vars
  BY <1>4 DEF ClientSends, ClientEnds, vars
<1> QED
  BY <1>1, <1>2, <1>3, <1>4 DEF Next

LEMMA TruthsKept == Truths /\ [Next]_vars => Truths'
<1> SUFFICES ASSUME Truths, [Next]_vars PROVE Truths'
  OBVIOUS
<1> USE DEF Truths, shared, listVars, inputVars, outputVars, OtherThanInput,
            OtherThanWorker, OtherThanOutput, Arm, Disarm
<1>1. CASE Input
  BY <1>1, ZenonT(40) DEF Input, InputWakes, InputReceives, InputOpens, InputSetsOpen, InputCounts,
     InputQueues, InputStops, InputLoads, InputLooks, InputClearsWorker, InputLeaves,
     InputClearsIn, InputNotifies
<1>2. CASE Worker
  BY <1>2, ZenonT(40) DEF Worker, WorkerTakes, WorkerProcesses, WorkerSends, WorkerChecks,
     WorkerAdds, WorkerOpens, WorkerSetsOut, WorkerArms, WorkerPops, WorkerIsLast, WorkerFinishes,
     WorkerNotifies
<1>3. CASE Output
  BY <1>3, ZenonT(40) DEF Output, OutputWakes, OutputSends, OutputSendsSome, OutputClears,
     OutputLooks, OutputFails, OutputStops, OutputLoads, OutputChecks, OutputClearsWorker,
     OutputLeaves, OutputClearsOut, OutputDecides, OutputFrees
<1>4. CASE ClientSends \/ ClientEnds \/ UNCHANGED vars
  BY <1>4, ZenonT(40) DEF ClientSends, ClientEnds, vars
<1> QED
  BY <1>1, <1>2, <1>3, <1>4 DEF Next

\* The thread stores flags, and what it had loaded is forgotten.
LEMMA StoreKeeps ==
  ASSUME Sets, NEW t \in Thread, NEW new \in SUBSET Flag, Store(t, new)
  PROVE  Sets'
<1>1. seen' \in [Thread -> SUBSET Flag]
  BY Zenon DEF Sets, Store
<1>2. flags' \subseteq Flag
  BY DEF Store
<1>3. slips' \subseteq {"overtaken", "lost", "untold", "unheard"}
  BY DEF Sets, Store
<1> QED
  BY <1>1, <1>2, <1>3 DEF Sets

LEMMA LoadedIsFlags ==
  ASSUME Sets, NEW t \in Thread
  PROVE  Loaded(t) \in SUBSET Flag
BY DEF Sets, Loaded

LEMMA LoadKeeps ==
  ASSUME Sets, NEW t \in Thread, NEW byte \in SUBSET Flag, seen' = [seen EXCEPT ![t] = byte]
  PROVE  seen' \in [Thread -> SUBSET Flag]
BY Zenon DEF Sets

LEMMA SetsKept == Sets /\ [Next]_vars => Sets'
<1> SUFFICES ASSUME Sets, [Next]_vars PROVE Sets'
  OBVIOUS
<1> USE DEF Thread, shared, OtherThanInput, OtherThanWorker, OtherThanOutput
<1>1. CASE InputOpens \/ InputLoads \/ InputLeaves
  <2>0. PICK byte \in SUBSET Flag : seen' = [seen EXCEPT !["input"] = byte]
    BY <1>1 DEF InputOpens, InputLoads, InputLeaves, Load, Sets
  <2>1. seen' \in [Thread -> SUBSET Flag]
    BY <2>0, LoadKeeps
  <2>2. UNCHANGED <<flags, slips>>
    BY <1>1 DEF InputOpens, InputLoads, InputLeaves
  <2> QED
    BY <2>1, <2>2 DEF Sets
<1>2. CASE InputSetsOpen \/ InputClearsWorker \/ InputClearsIn
  <2>1. PICK new \in SUBSET Flag : Store("input", new)
    BY <1>2, LoadedIsFlags DEF InputSetsOpen, InputClearsWorker, InputClearsIn, Flag
  <2> QED
    BY <2>1, StoreKeeps
<1>3. CASE WorkerOpens \/ OutputLoads \/ OutputLeaves
  <2>0. PICK t \in Thread, byte \in SUBSET Flag : seen' = [seen EXCEPT ![t] = byte]
    BY <1>3 DEF WorkerOpens, OutputLoads, OutputLeaves, Load, Sets
  <2>1. seen' \in [Thread -> SUBSET Flag]
    BY <2>0, LoadKeeps
  <2>2. UNCHANGED <<flags, slips>>
    BY <1>3 DEF WorkerOpens, OutputLoads, OutputLeaves
  <2> QED
    BY <2>1, <2>2 DEF Sets
<1>4. CASE WorkerSetsOut
  <2>1. Loaded("worker") \cup {"out"} \in SUBSET Flag
    BY LoadedIsFlags DEF Flag
  <2> QED
    BY <1>4, <2>1, StoreKeeps DEF WorkerSetsOut
<1>5. CASE OutputClearsOut
  <2>1. Loaded("output") \ {"out"} \in SUBSET Flag
    BY LoadedIsFlags
  <2> QED
    BY <1>5, <2>1, StoreKeeps DEF OutputClearsOut
<1>6. CASE OutputClearsWorker
  <2>1. flags' \subseteq Flag
    BY <1>6, LoadedIsFlags DEF OutputClearsWorker
  <2>2. seen' \in [Thread -> SUBSET Flag]
    BY <1>6, Zenon DEF OutputClearsWorker, Sets
  <2>3. slips' \subseteq {"overtaken", "lost", "untold", "unheard"}
    BY <1>6 DEF OutputClearsWorker, Sets
  <2> QED
    BY <2>1, <2>2, <2>3 DEF Sets
<1>7. CASE WorkerFinishes \/ OutputSends
  <2>1. UNCHANGED <<flags, seen>>
    BY <1>7 DEF WorkerFinishes, OutputSends
  <2>2. slips' \subseteq slips \cup {"untold", "unheard"}
    BY <1>7 DEF WorkerFinishes, OutputSends
  <2> QED
    BY <2>1, <2>2 DEF Sets
<1>8. CASE UNCHANGED <<flags, seen, slips>>
  BY <1>8 DEF Sets
<1>9. Input => \/ InputOpens \/ InputLoads \/ InputLeaves
               \/ InputSetsOpen \/ InputClearsWorker \/ InputClearsIn
               \/ UNCHANGED <<flags, seen, slips>>
  BY DEF Input, InputWakes, InputReceives, InputCounts, InputQueues, InputStops, InputLooks,
     InputNotifies
<1>10. Worker => \/ WorkerOpens \/ WorkerSetsOut \/ WorkerFinishes
                 \/ UNCHANGED <<flags, seen, slips>>
  BY DEF Worker, WorkerTakes, WorkerProcesses, WorkerSends, WorkerChecks, WorkerAdds,
     WorkerArms, WorkerPops, WorkerIsLast, WorkerNotifies
<1>11. Output => \/ OutputLoads \/ OutputLeaves \/ OutputClearsOut \/ OutputClearsWorker
                 \/ OutputSends \/ UNCHANGED <<flags, seen, slips>>
  BY DEF Output, OutputWakes, OutputSendsSome, OutputClears, OutputLooks, OutputFails,
     OutputStops, OutputChecks, OutputDecides, OutputFrees
<1>12. ClientSends \/ ClientEnds \/ UNCHANGED vars => UNCHANGED <<flags, seen, slips>>
  BY DEF ClientSends, ClientEnds, vars
<1> QED
  BY <1>1, <1>2, <1>3, <1>4, <1>5, <1>6, <1>7, <1>8, <1>9, <1>10, <1>11, <1>12 DEF Next

-----------------------------------------------------------------------------
LEMMA CountsKept == Counts /\ Places /\ [Next]_vars => Counts'
<1> SUFFICES ASSUME Counts, Places, [Next]_vars PROVE Counts'
  OBVIOUS
<1> USE CloseAssumption DEF Counts, Places, Working, Answered, Received, Counted, Unsent,
    StoreIsIdle, shared, listVars, inputVars, workerVars, outputVars, clientVars,
    OtherThanInput, OtherThanWorker, OtherThanOutput, AtInput, AtWorker, AtOutput, IsWorkerBusy
<1>1. CASE InputWakes
  BY <1>1 DEF InputWakes
<1>2. CASE InputReceives
  BY <1>2 DEF InputReceives
<1>3. CASE InputOpens
  BY <1>3 DEF InputOpens
<1>4. CASE InputSetsOpen
  BY <1>4 DEF InputSetsOpen
<1>5. CASE InputCounts
  BY <1>5 DEF InputCounts
<1>6. CASE InputQueues
  BY <1>6 DEF InputQueues
<1>7. CASE InputStops \/ InputLoads
  BY <1>7 DEF InputStops, InputLoads
<1>8. CASE InputLooks
  BY <1>8 DEF InputLooks
<1>9. CASE InputClearsWorker \/ InputLeaves \/ InputClearsIn \/ InputNotifies
  BY <1>9 DEF InputClearsWorker, InputLeaves, InputClearsIn, InputNotifies
<1>10. CASE WorkerTakes
  <2>1. ~ Working /\ Working' /\ locked' = Working'
    BY <1>10 DEF WorkerTakes
  <2>2. /\ queue' = queue - 1 /\ queue > 0
        /\ UNCHANGED <<pushCount, procCount, waiting, unread, sent, input>>
    BY <1>10 DEF WorkerTakes
  <2>3. ~ Answered /\ ~ Answered'
    BY <1>10 DEF WorkerTakes
  <2> HIDE DEF Working, Answered
  <2> QED
    BY <2>1, <2>2, <2>3
<1>11. CASE WorkerProcesses
  BY <1>11 DEF WorkerProcesses
<1>12. CASE WorkerSends
  BY <1>12 DEF WorkerSends
<1>13. CASE WorkerChecks
  BY <1>13 DEF WorkerChecks
<1>14. CASE WorkerAdds
  BY <1>14 DEF WorkerAdds
<1>15. CASE WorkerOpens \/ WorkerSetsOut \/ WorkerArms
  BY <1>15 DEF WorkerOpens, WorkerSetsOut, WorkerArms
<1>16. CASE WorkerPops \/ WorkerIsLast
  BY <1>16 DEF WorkerPops, WorkerIsLast
<1>17. CASE WorkerFinishes
  <2>1. Working /\ ~ Working' /\ locked' = Working'
    BY <1>17 DEF WorkerFinishes
  <2>2. /\ procCount' = procCount + 1
        /\ UNCHANGED <<pushCount, queue, waiting, unread, sent, input>>
    BY <1>17 DEF WorkerFinishes
  <2>3. Answered /\ ~ Answered'
    BY <1>17 DEF WorkerFinishes
  <2> HIDE DEF Working, Answered
  <2> QED
    BY <2>1, <2>2, <2>3
<1>18. CASE WorkerNotifies
  BY <1>18 DEF WorkerNotifies
<1>19. CASE OutputSends \/ OutputClears \/ OutputFrees
  <2>1. waiting' \in {0, waiting}
    BY <1>19 DEF OutputSends, OutputClears, OutputFrees
  <2>2. UNCHANGED <<pushCount, procCount, queue, unread, sent, input, worker, locked>>
    BY <1>19 DEF OutputSends, OutputClears, OutputFrees
  <2> QED
    BY <2>1, <2>2
<1>20. CASE \/ OutputWakes \/ OutputLooks \/ OutputFails \/ OutputStops \/ OutputLoads
            \/ OutputChecks \/ OutputClearsWorker \/ OutputLeaves \/ OutputClearsOut
            \/ OutputDecides
  <2>1. UNCHANGED <<pushCount, procCount, queue, unread, sent, input, worker, locked, waiting>>
    BY <1>20 DEF OutputWakes, OutputLooks, OutputFails, OutputStops, OutputLoads,
       OutputChecks, OutputClearsWorker, OutputLeaves, OutputClearsOut, OutputDecides
  <2> QED
    BY <2>1
<1>21. CASE OutputSendsSome
  <2>1. waiting' \in 1 .. waiting
    BY <1>21 DEF OutputSendsSome
  <2>2. UNCHANGED <<pushCount, procCount, queue, unread, sent, input, worker, locked>>
    BY <1>21 DEF OutputSendsSome
  <2> QED
    BY <2>1, <2>2
<1>22. CASE ClientSends \/ ClientEnds \/ UNCHANGED vars
  BY <1>22 DEF ClientSends, ClientEnds, vars
<1> QED
  BY <1>1, <1>2, <1>3, <1>4, <1>5, <1>6, <1>7, <1>8, <1>9, <1>10, <1>11, <1>12, <1>13, <1>14,
     <1>15, <1>16, <1>17, <1>18, <1>19, <1>20, <1>21, <1>22 DEF Next, Input, Worker, Output

-----------------------------------------------------------------------------
\* Slips are not forgotten, so that a run that is clean has been.
LEMMA CleanBefore == [Next]_vars /\ Clean' => Clean
<1>1. Input => slips \subseteq slips'
  BY DEF Input, InputWakes, InputReceives, InputOpens, InputSetsOpen, InputCounts,
     InputQueues, InputStops, InputLoads, InputLooks, InputClearsWorker, InputLeaves,
     InputClearsIn, InputNotifies, Store
<1>2. Worker => slips \subseteq slips'
  BY DEF Worker, WorkerTakes, WorkerProcesses, WorkerSends, WorkerChecks, WorkerAdds,
     WorkerOpens, WorkerSetsOut, WorkerArms, WorkerPops, WorkerIsLast, WorkerFinishes,
     WorkerNotifies, Store
<1>3. Output => slips \subseteq slips'
  BY DEF Output, OutputWakes, OutputSends, OutputSendsSome, OutputClears,
     OutputLooks, OutputFails, OutputStops, OutputLoads, OutputChecks, OutputClearsWorker,
     OutputLeaves, OutputClearsOut, OutputDecides, OutputFrees, Store
<1>4. ClientSends \/ ClientEnds \/ UNCHANGED vars => slips \subseteq slips'
  BY DEF ClientSends, ClientEnds, vars
<1> QED
  BY <1>1, <1>2, <1>3, <1>4 DEF Next, Clean

\* Without a slip the store writes what the flags are, but for the one it is about.
LEMMA CleanStore ==
  ASSUME NEW t \in Thread, NEW new, Store(t, new), Clean'
  PROVE  Loaded(t) = flags /\ flags' = new
BY DEF Store, Clean

LEMMA FlagsTellKept == FlagsTell /\ Counts /\ Places /\ [Next]_vars => FlagsTell'
<1> SUFFICES ASSUME FlagsTell, Counts, Places, [Next]_vars, Clean'
             PROVE  InputIsOpen' /\ WorkerIsOpen' /\ Deleting'
  BY DEF FlagsTell
<1>0. InputIsOpen /\ WorkerIsOpen /\ Deleting
  BY CleanBefore DEF FlagsTell
<1> USE <1>0 DEF InputIsOpen, WorkerIsOpen, Deleting, Quiet, Gone, Working, Thread, shared,
    listVars, inputVars, workerVars, outputVars, OtherThanInput, OtherThanWorker,
    OtherThanOutput, AtInput, AtWorker, AtOutput
<1>1. CASE InputWakes \/ InputReceives \/ InputCounts
  BY <1>1 DEF InputWakes, InputReceives, InputCounts
<1>2. CASE InputOpens
  <2>1. \/ "worker" \in flags /\ input' \in {"count", "queue"}
        \/ input' \in {"set1", "set2"}
    BY <1>2 DEF InputOpens
  <2>2. /\ input \in {"open1", "open2"}
        /\ UNCHANGED <<flags, queue, worker, output, freed>>
    BY <1>2 DEF InputOpens
  <2> QED
    BY <2>1, <2>2
<1>3. CASE InputLeaves
  BY <1>3 DEF InputLeaves
<1>4. CASE InputLoads \/ InputLooks
  BY <1>4 DEF InputLoads, InputLooks
<1>5. CASE InputStops \/ InputNotifies
  BY <1>5 DEF InputStops, InputNotifies
<1>6. CASE InputQueues
  BY <1>6 DEF InputQueues
<1>7. CASE InputSetsOpen
  <2>1. flags' = flags \cup {"worker"}
    BY <1>7, CleanStore DEF InputSetsOpen
  <2> QED
    BY <1>7, <2>1 DEF InputSetsOpen
<1>8. CASE InputClearsWorker
  <2>1. flags' = flags \ {"worker"}
    BY <1>8, CleanStore DEF InputClearsWorker
  <2> QED
    BY <1>8, <2>1 DEF InputClearsWorker, Counts, StoreIsIdle
<1>9. CASE InputClearsIn
  <2>1. flags' = flags \ {"in"}
    BY <1>9, CleanStore DEF InputClearsIn
  <2> QED
    BY <1>9, <2>1 DEF InputClearsIn
<1>10. CASE WorkerSetsOut
  <2>1. flags' = flags \cup {"out"}
    BY <1>10, CleanStore DEF WorkerSetsOut
  <2> QED
    BY <1>10, <2>1 DEF WorkerSetsOut
<1>11. CASE WorkerTakes
  BY <1>11 DEF WorkerTakes, Counts
<1>12. CASE \/ WorkerProcesses \/ WorkerSends \/ WorkerChecks \/ WorkerAdds \/ WorkerOpens
           \/ WorkerArms \/ WorkerPops \/ WorkerIsLast \/ WorkerFinishes \/ WorkerNotifies
  BY <1>12 DEF WorkerProcesses, WorkerSends, WorkerChecks, WorkerAdds, WorkerOpens,
     WorkerArms, WorkerPops, WorkerIsLast, WorkerFinishes, WorkerNotifies
<1>13. CASE OutputClearsWorker
  <2>1. ~ IsWorkerBusy /\ flags' = flags \ {"worker"}
    BY <1>13 DEF OutputClearsWorker, Clean
  <2>2. queue = 0 /\ ~ Working /\ input # "queue"
    BY <2>1 DEF IsWorkerBusy, Counts, Counted
  <2> QED
    BY <1>13, <2>1, <2>2 DEF OutputClearsWorker
<1>14. CASE OutputClearsOut
  <2>1. flags' = flags \ {"out"}
    BY <1>14, CleanStore DEF OutputClearsOut
  <2> QED
    BY <1>14, <2>1 DEF OutputClearsOut
<1>15. CASE OutputDecides
  BY <1>15 DEF OutputDecides
<1>16. CASE OutputFrees
  BY <1>16 DEF OutputFrees
<1>17. CASE \/ OutputWakes \/ OutputSends \/ OutputSendsSome \/ OutputClears \/ OutputLooks
            \/ OutputFails \/ OutputStops \/ OutputLoads \/ OutputChecks \/ OutputLeaves
  BY <1>17 DEF OutputWakes, OutputSends, OutputSendsSome, OutputClears, OutputLooks,
     OutputFails, OutputStops, OutputLoads, OutputChecks, OutputLeaves
<1>18. CASE ClientSends \/ ClientEnds \/ UNCHANGED vars
  BY <1>18 DEF ClientSends, ClientEnds, vars
<1> QED
  BY <1>1, <1>2, <1>3, <1>4, <1>5, <1>6, <1>7, <1>8, <1>9,
     <1>10, <1>11, <1>12, <1>13, <1>14, <1>15, <1>16, <1>17, <1>18
     DEF Next, Input, Worker, Output

LEMMA NeverKept == Never /\ [Next]_vars => Never'
<1> SUFFICES ASSUME Never, [Next]_vars PROVE Never'
  OBVIOUS
<1> USE DEF Never, shared, listVars, inputVars, workerVars, outputVars, OtherThanInput,
            OtherThanWorker, OtherThanOutput, Arm, Disarm, AtOutput
<1>1. CASE Input
  BY <1>1 DEF Input, InputWakes, InputReceives, InputOpens, InputSetsOpen, InputCounts,
     InputQueues, InputStops, InputLoads, InputLooks, InputClearsWorker, InputLeaves,
     InputClearsIn, InputNotifies
<1>2. CASE Worker
  BY <1>2 DEF Worker, WorkerTakes, WorkerProcesses, WorkerSends, WorkerChecks, WorkerAdds,
     WorkerOpens, WorkerSetsOut, WorkerArms, WorkerPops, WorkerIsLast, WorkerFinishes,
     WorkerNotifies
<1>3. CASE Output
  BY <1>3 DEF Output, OutputWakes, OutputSends, OutputSendsSome, OutputClears,
     OutputLooks, OutputFails, OutputStops, OutputLoads, OutputChecks, OutputClearsWorker,
     OutputLeaves, OutputClearsOut, OutputDecides, OutputFrees
<1>4. CASE ClientSends \/ ClientEnds \/ UNCHANGED vars
  BY <1>4 DEF ClientSends, ClientEnds, vars
<1> QED
  BY <1>1, <1>2, <1>3, <1>4 DEF Next

LEMMA FreedStays == freed /\ [Next]_vars => freed'
<1> USE DEF OtherThanInput, OtherThanWorker
<1>1. Input => UNCHANGED freed
  BY DEF Input, InputWakes, InputReceives, InputOpens, InputSetsOpen, InputCounts,
     InputQueues, InputStops, InputLoads, InputLooks, InputClearsWorker, InputLeaves,
     InputClearsIn, InputNotifies
<1>2. Worker => UNCHANGED freed
  BY DEF Worker, WorkerTakes, WorkerProcesses, WorkerSends, WorkerChecks, WorkerAdds,
     WorkerOpens, WorkerSetsOut, WorkerArms, WorkerPops, WorkerIsLast, WorkerFinishes,
     WorkerNotifies
<1>3. Output => freed' = TRUE \/ UNCHANGED freed
  BY Zenon DEF Output, OutputWakes, OutputSends, OutputSendsSome, OutputClears,
     OutputLooks, OutputFails, OutputStops, OutputLoads, OutputChecks, OutputClearsWorker,
     OutputLeaves, OutputClearsOut, OutputDecides, OutputFrees
<1>4. ClientSends \/ ClientEnds \/ UNCHANGED vars => UNCHANGED freed
  BY DEF ClientSends, ClientEnds, vars
<1> QED
  BY <1>1, <1>2, <1>3, <1>4 DEF Next

LEMMA CloseStep == CloseInv /\ [Next]_vars => CloseInv'
BY PlacesKept, NamesKept, TruthsKept, SetsKept, CountsKept, FlagsTellKept, NeverKept
   DEF CloseInv

LEMMA CloseInvariant == Spec => []CloseInv
BY CloseInitOK, CloseStep, PTL DEF Spec

-----------------------------------------------------------------------------
\* The variables keep their types: no count runs past the requests the client sent,
\* whatever the threads miss of each other.
THEOREM CloseTypes == Spec => []TypeOK
<1>1. CloseInv => TypeOK
  <2> SUFFICES ASSUME CloseInv PROVE TypeOK
    OBVIOUS
  <2>1. /\ pushCount \in 1 .. MaxReq + 1 /\ procCount \in 1 .. MaxReq + 1
        /\ queue \in 0 .. MaxReq /\ waiting \in 0 .. MaxReq
        /\ sent \in 0 .. MaxReq /\ unread \in 0 .. MaxReq
    BY CloseAssumption DEF CloseInv, Counts, Received, Counted, Unsent, Working, Answered
  <2>2. locked \in BOOLEAN
    BY DEF CloseInv, Counts, Working
  <2> QED
    BY <2>1, <2>2, Zenon DEF CloseInv, Places, Names, Truths, Sets, TypeOK
<1> QED
  BY <1>1, CloseInvariant, PTL

\* gr_tcp_close.c:94: tcp.output deletes the connection when the other two threads have no
\* more to do with it than to tell, unless it took worker_open away from a request that
\* was being pushed or two stores to the byte of flags undid each other.
THEOREM DeletedLastAlways == Spec => []DeletedLastUnlessOvertaken
<1>1. CloseInv => DeletedLastUnlessOvertaken
  BY DEF CloseInv, FlagsTell, Deleting, Quiet, Gone, Working, Clean,
     DeletedLastUnlessOvertaken, DeletedLast
<1> QED
  BY <1>1, CloseInvariant, PTL

\* gr_tcp_conn_free runs once at most, slips or no slips: tcp.output is the only one to
\* call it, and its epoll has nothing more of the connection (gr_tcp_out.c).
FreedOnce == [][freed => output' = "wait" /\ freed']_vars

THEOREM FreedOnceOnly == Spec => FreedOnce
<1>1. CloseInv /\ CloseInv' /\ [Next]_vars => [freed => output' = "wait" /\ freed']_vars
  <2> SUFFICES ASSUME CloseInv, CloseInv', Next, freed PROVE output' = "wait" /\ freed'
    BY DEF vars
  <2>1. freed'
    BY FreedStays
  <2> QED
    BY <2>1 DEF CloseInv, Never
<1> QED
  BY <1>1, CloseInvariant, PTL DEF Spec, FreedOnce

\* After the connection was deleted nothing of it is written, by no thread, unless there was
\* a slip: what tcp.input and the worker still do moves only themselves.
Untouched ==
  [][freed /\ Clean => UNCHANGED <<shared, listVars, inArmed, inEvent, tells, outputVars,
                                   clientVars, socketError, freed, seen, slips>>]_vars

THEOREM UntouchedAfterwards == Spec => Untouched
<1>1. CloseInv /\ [Next]_vars =>
        [freed /\ Clean => UNCHANGED <<shared, listVars, inArmed, inEvent, tells, outputVars,
                                   clientVars, socketError, freed, seen, slips>>]_vars
  <2> SUFFICES ASSUME CloseInv, Next, freed, Clean
               PROVE  UNCHANGED <<shared, listVars, inArmed, inEvent, tells, outputVars,
                                  clientVars, socketError, freed, seen, slips>>
    OBVIOUS
  <2>0. queue = 0 /\ worker \in {"wait", "notify"} /\ input \in {"notify", "gone"}
        /\ output = "wait" /\ ~ outEvent
    BY DEF CloseInv, FlagsTell, Deleting, Quiet, Gone, Working, Never
  <2>1. CASE Input
    <3>1. InputNotifies
      BY <2>0, <2>1 DEF Input, InputWakes, InputReceives, InputOpens, InputSetsOpen, InputCounts,
         InputQueues, InputStops, InputLoads, InputLooks, InputClearsWorker, InputLeaves,
         InputClearsIn, AtInput
    <3> QED
      BY <3>1 DEF InputNotifies, Arm, workerVars, outputVars, clientVars
  <2>2. CASE Worker
    <3>1. WorkerNotifies
      BY <2>0, <2>2 DEF Worker, WorkerTakes, WorkerProcesses, WorkerSends, WorkerChecks,
         WorkerAdds, WorkerOpens, WorkerSetsOut, WorkerArms, WorkerPops, WorkerIsLast,
         WorkerFinishes, AtWorker
    <3> QED
      BY <3>1 DEF WorkerNotifies, Arm, OtherThanWorker, inputVars, outputVars, clientVars
  <2>3. CASE Output
    BY <2>0, <2>3 DEF Output, OutputWakes, OutputSends, OutputSendsSome, OutputClears,
       OutputLooks, OutputFails, OutputStops, OutputLoads, OutputChecks, OutputClearsWorker,
       OutputLeaves, OutputClearsOut, OutputDecides, OutputFrees, AtOutput
  <2>4. CASE ClientSends \/ ClientEnds
    BY <2>4 DEF ClientSends, ClientEnds
  <2> QED
    BY <2>1, <2>2, <2>3, <2>4 DEF Next
<1> QED
  BY <1>1, CloseInvariant, PTL DEF Spec, Untouched
=============================================================================
