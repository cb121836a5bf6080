--------------------------- MODULE ReplyList_proofs ---------------------------
(***************************************************************************)
(* Proofs about ReplyList for any number and size of replies, any send     *)
(* buffer and, but for type correctness, a build that loads                *)
(* conn->rsp_list_curr once.                                               *)
(***************************************************************************)
EXTENDS ReplyList, FiniteSetTheorems, TLAPS

-----------------------------------------------------------------------------
(* Type correctness, with the assertion of gr_tcp_conn_pop_top_rsp, however *)
(* the build loads rsp_list_curr.                                          *)

TypeInv ==
  /\ TypeOK
  /\ PopFindsItsReply
  /\ out \in {"send", "pop", "store"} => item # NULL
  /\ worker # "idle" => rsp # NULL

\* A send appends what it takes of a reply to what the socket took, within its room.
LEMMA WriteType ==
  ASSUME TypeOK, NEW r \in Reply, Write(r)
  PROVE  /\ bufSent' \in [Reply -> 0 .. Size]
         /\ room' \in 0 .. Room
         /\ got' \in Seq(Reply)
<1> USE ReplyListAssumption DEF TypeOK
<1>1. Fits(r) \in 0 .. Size - bufSent[r] /\ Fits(r) <= room
  BY DEF Fits
<1>2. bufSent' \in [Reply -> 0 .. Size] /\ room' \in 0 .. Room
  BY <1>1 DEF Write
<1>3. [k \in 1 .. Fits(r) |-> r] \in Seq(Reply)
  <2>1. Fits(r) \in Nat
    BY <1>1
  <2>2. \A n \in Nat : [k \in 1 .. n |-> r] \in Seq(Reply)
    OBVIOUS
  <2> QED
    BY <2>1, <2>2
<1>4. got' \in Seq(Reply)
  BY <1>3 DEF Write
<1> QED
  BY <1>2, <1>4

\* Where tcp.output dereferences the cursor it is a reply, so every variable keeps its
\* type: the next step of ReplyList preserves TypeInv.
LEMMA TypeInvStep == TypeInv /\ [Next]_vars => TypeInv'
<1> SUFFICES ASSUME TypeInv, [Next]_vars PROVE TypeInv'
  OBVIOUS
<1> USE ReplyListAssumption
    DEF TypeInv, TypeOK, PopFindsItsReply, Reply, Link, NULL, ALL_DONE, listVars, workerVars,
        outVars, socketVars
<1>1. CASE WorkerReplies
  BY <1>1 DEF WorkerReplies
<1>2. CASE WorkerLooks
  BY <1>2 DEF WorkerLooks
<1>3. CASE WorkerSends
  <2>1. rsp \in Reply /\ Write(rsp)
    BY <1>3 DEF WorkerSends
  <2>2. bufSent' \in [Reply -> 0 .. Size] /\ room' \in 0 .. Room /\ got' \in Seq(Reply)
    BY <2>1, WriteType
  <2>3. armed' \in BOOLEAN /\ event' \in BOOLEAN
    BY <1>3, Zenon DEF WorkerSends
  <2>4. worker' \in {"idle", "add"} /\ direct' \subseteq Reply
    BY <1>3 DEF WorkerSends
  <2>5. UNCHANGED <<listVars, rsp, oldCurr, willDel, outVars>> /\ worker = "direct"
    BY <1>3 DEF WorkerSends
  <2>6. TypeOK'
    <3>1. /\ head' \in Link /\ tail' \in Link /\ curr' \in Link \cup {ALL_DONE}
          /\ next' \in [Reply -> Link] /\ freed' \subseteq Reply
      BY <2>5
    <3>2. /\ rsp' \in Link /\ oldCurr' \in Link \cup {ALL_DONE} /\ willDel' \in Link
          /\ direct' \subseteq Reply
      BY <2>4, <2>5
    <3>3. item' \in Link /\ follow' \in Link /\ pos' \in Link
      BY <2>4, <2>5
    <3> HIDE DEF Reply, Link
    <3> QED
      BY <2>2, <2>3, <2>4, <2>5, <3>1, <3>2, <3>3
  <2>7. PopFindsItsReply'
    BY <2>1, <2>4, <2>5
  <2> QED
    BY <2>1, <2>4, <2>5, <2>6, <2>7
<1>4. CASE AddBegin
  BY <1>4 DEF AddBegin
<1>5. CASE AddTest
  BY <1>5 DEF AddTest
<1>6. CASE AddUnlink
  <2>1. head' \in Link /\ willDel' \in Link
    BY <1>6 DEF AddUnlink
  <2>2. next' \in [Reply -> Link]
    BY <1>6 DEF AddUnlink
  <2>3. worker' \in {"unlink", "insert"}
    BY <1>6 DEF AddUnlink
  <2> QED
    BY <1>6, <2>1, <2>2, <2>3 DEF AddUnlink
<1>7. CASE AddInsert
  <2>1. rsp \in Reply
    BY <1>7 DEF AddInsert
  <2>2. next' \in [Reply -> Link]
    BY <1>7, <2>1 DEF AddInsert
  <2>3. head' \in Link /\ tail' \in Link
    BY <1>7, <2>1 DEF AddInsert
  <2> QED
    BY <1>7, <2>2, <2>3 DEF AddInsert
<1>8. CASE AddCheck
  BY <1>8 DEF AddCheck
<1>9. CASE AddFree
  <2>1. freed' \subseteq Reply /\ willDel' \in Link
    BY <1>9 DEF AddFree
  <2>2. worker' \in {"free", "arm"}
    BY <1>9 DEF AddFree
  <2> QED
    BY <1>9, <2>1, <2>2 DEF AddFree
<1>10. CASE WorkerArms
  BY <1>10 DEF WorkerArms
<1>11. CASE OutWakes
  <2>1. armed' \in BOOLEAN /\ event' \in BOOLEAN
    BY <1>11, Zenon DEF OutWakes
  <2> QED
    BY <1>11, <2>1 DEF OutWakes
<1>12. CASE OutTop
  BY <1>12, SMTT(30) DEF OutTop, Cursor
<1>13. CASE OutSend
  <2>1. item \in Reply /\ Write(item)
    BY <1>13 DEF OutSend
  <2>2. bufSent' \in [Reply -> 0 .. Size] /\ room' \in 0 .. Room /\ got' \in Seq(Reply)
    BY <2>1, WriteType
  <2>3. armed' \in BOOLEAN /\ event' \in BOOLEAN
    BY <1>13, Zenon DEF OutSend
  <2>4. /\ out' \in {"pop", "wait"}
        /\ item' = IF out' = "pop" THEN item ELSE NULL
    BY <1>13 DEF OutSend
  <2>5. UNCHANGED <<listVars, workerVars, follow, pos>> /\ out = "send"
    BY <1>13 DEF OutSend
  <2>6. TypeOK'
    <3>1. /\ head' \in Link /\ tail' \in Link /\ curr' \in Link \cup {ALL_DONE}
          /\ next' \in [Reply -> Link] /\ freed' \subseteq Reply
      BY <2>5
    <3>2. /\ rsp' \in Link /\ oldCurr' \in Link \cup {ALL_DONE} /\ willDel' \in Link
          /\ direct' \subseteq Reply
      BY <2>4, <2>5
    <3>3. item' \in Link /\ follow' \in Link /\ pos' \in Link
      BY <2>4, <2>5
    <3> HIDE DEF Reply, Link
    <3> QED
      BY <2>2, <2>3, <2>4, <2>5, <3>1, <3>2, <3>3
  <2>7. PopFindsItsReply'
    BY <2>1, <2>4, <2>5
  <2> QED
    BY <2>1, <2>4, <2>5, <2>6, <2>7
<1>14. CASE OutPop
  BY <1>14 DEF OutPop
<1>15. CASE OutStore
  BY <1>15 DEF OutStore
<1>16. CASE OutDisarms
  <2>1. armed' \in BOOLEAN /\ event' \in BOOLEAN
    BY <1>16, Zenon DEF OutDisarms
  <2> QED
    BY <1>16, <2>1 DEF OutDisarms
<1>17. CASE OutLooksAgain
  BY <1>17 DEF OutLooksAgain, Cursor
<1>18. CASE ClientReads
  BY <1>18 DEF ClientReads
<1>19. CASE UNCHANGED vars
  BY <1>19 DEF vars
<1> QED
  BY <1>1, <1>2, <1>3, <1>4, <1>5, <1>6, <1>7, <1>8, <1>9, <1>10, <1>11, <1>12, <1>13, <1>14, <1>15, <1>16, <1>17, <1>18, <1>19 DEF Next, WorkerContinues, Out

LEMMA TypeInvHolds == Spec => []TypeInv
<1>1. Init => TypeInv
  <2> SUFFICES ASSUME Init PROVE TypeInv
    OBVIOUS
  <2>1. armed \in BOOLEAN /\ event \in BOOLEAN
    BY Zenon DEF Init
  <2> QED
    BY <2>1, ReplyListAssumption
       DEF Init, TypeInv, TypeOK, PopFindsItsReply, Reply, Link, NULL, ALL_DONE
<1> QED
  BY <1>1, TypeInvStep, PTL DEF Spec

\* For any number and size of replies every variable of the two threads stays in its
\* type: neither follows a link out of the list, and no reply is sent past its end.
THEOREM TypeCorrect == Spec => []TypeOK
<1>1. TypeInv => TypeOK
  BY DEF TypeInv
<1> QED
  BY <1>1, TypeInvHolds, PTL

\* assert( conn->rsp_list_curr == confirm_rsp ) of gr_conn.c:398 never fails, however the
\* build loads rsp_list_curr in gr_tcp_conn_add_rsp.
THEOREM PopAssertion == Spec => []PopFindsItsReply
<1>1. TypeInv => PopFindsItsReply
  BY DEF TypeInv
<1> QED
  BY <1>1, TypeInvHolds, PTL

-----------------------------------------------------------------------------
(* The list, the cursor and what the worker remembers of it, for a build   *)
(* that loads rsp_list_curr once.                                          *)

\* The newest reply that is sent or linked, the first one that may still be listed, and
\* the last one that is listed no more.
Latest == IF worker \in {"idle", "check", "free", "arm"} THEN rsp ELSE rsp - 1
First == IF head = NULL THEN rsp ELSE head
End == First - 1

\* The list is the run head, head + 1, ..., tail; what came later was sent at once.
ListShape ==
  /\ direct \subseteq 1 .. Latest
  /\ head # NULL =>
       /\ tail # NULL /\ head <= tail /\ tail <= Latest
       /\ \A r \in head .. tail :
            r \notin direct /\ next[r] = IF r < tail THEN r + 1 ELSE NULL
       /\ \A r \in Reply : tail < r /\ r <= Latest => r \in direct
  /\ head = NULL /\ worker \notin {"unlink", "insert"} =>
       \A r \in Reply : r <= Latest => r \in direct
  /\ \A r \in Reply : r > Latest => next[r] = NULL
  /\ \A r \in direct : next[r] = NULL

\* A reply is appended right behind the one before it unless all of the list goes: replies
\* are sent past the list only when everything in it was sent.
AppendShape ==
  /\ worker = "direct" => head = NULL \/ curr = ALL_DONE
  /\ head # NULL =>
       \/ tail = Latest
       \/ curr = ALL_DONE /\ worker \notin {"insert", "check", "free", "arm"}
                          /\ (worker \in {"test", "unlink"} => oldCurr = ALL_DONE)
  /\ worker \in {"check", "free"} => head # NULL /\ tail = rsp

\* The cursor is in the list, and tcp.output holds what the cursor names.
CursorShape ==
  /\ curr \in Reply => head # NULL /\ head <= curr /\ curr <= tail
  /\ out \in {"send", "pop", "store"} => item = curr /\ item \in Reply
  /\ out \notin {"send", "pop", "store"} => item = NULL
  /\ out # "store" => follow = NULL
  /\ follow # NULL => follow = curr + 1 /\ follow <= tail

\* What the worker remembers of the cursor is behind it.
WorkerShape ==
  /\ worker = "unlink" => oldCurr # NULL
  /\ worker = "insert" /\ head # NULL => oldCurr # ALL_DONE
  /\ worker \in {"test", "unlink"} =>
       /\ oldCurr = ALL_DONE => curr = ALL_DONE
       /\ oldCurr \in Reply => /\ head # NULL /\ head <= oldCurr /\ oldCurr <= tail
                               /\ curr = ALL_DONE \/ oldCurr <= curr

\* The replies to be freed are a chain that ends before the list, and those freed are
\* before the chain.
FreeShape ==
  /\ \A r \in freed : r <= End /\ (willDel # NULL => r < willDel)
  /\ worker \notin {"unlink", "insert", "check", "free"} => willDel = NULL
  /\ willDel # NULL =>
       /\ willDel <= End
       /\ \A r \in willDel .. End :
            \/ next[r] = NULL
            \/ next[r] = r + 1 /\ (r = End => worker = "unlink" /\ head \notin {NULL, Keep})

\* No reply between the one taken last and the cursor is still in the list.
PosShape ==
  /\ item # NULL => pos = item
  /\ item = NULL /\ curr \in Reply => curr <= pos + 1 \/ curr <= First

Shape == ListShape /\ AppendShape /\ CursorShape /\ WorkerShape /\ FreeShape /\ PosShape
\* Every step of the two threads keeps the list in shape.
LEMMA ShapeStep ==
  ASSUME MayReload = FALSE, TypeInv, Shape, [Next]_vars
  PROVE  Shape'
<1> USE ReplyListAssumption
    DEF TypeInv, TypeOK, Reply, Link, NULL, ALL_DONE, Shape, ListShape, AppendShape, CursorShape,
        WorkerShape, FreeShape, PosShape, Latest, First, End, Keep, listVars, workerVars, outVars,
        socketVars
<1>1. CASE WorkerReplies
  <2>1. ListShape'
    BY <1>1 DEF WorkerReplies
  <2>2. AppendShape'
    BY <1>1 DEF WorkerReplies
  <2>3. CursorShape'
    BY <1>1 DEF WorkerReplies
  <2>4. WorkerShape'
    BY <1>1 DEF WorkerReplies
  <2>5. FreeShape'
    BY <1>1 DEF WorkerReplies
  <2>6. PosShape'
    BY <1>1 DEF WorkerReplies
  <2> QED
    BY <2>1, <2>2, <2>3, <2>4, <2>5, <2>6 DEF Shape
<1>2. CASE WorkerLooks
  <2>1. ListShape'
    BY <1>2 DEF WorkerLooks, HasPending
  <2>2. AppendShape'
    BY <1>2 DEF WorkerLooks, HasPending
  <2>3. CursorShape'
    BY <1>2 DEF WorkerLooks, HasPending
  <2>4. WorkerShape'
    BY <1>2 DEF WorkerLooks, HasPending
  <2>5. FreeShape'
    BY <1>2 DEF WorkerLooks, HasPending
  <2>6. PosShape'
    BY <1>2 DEF WorkerLooks, HasPending
  <2> QED
    BY <2>1, <2>2, <2>3, <2>4, <2>5, <2>6 DEF Shape
<1>3. CASE WorkerSends
  <2>1. ListShape'
    <3>1. /\ worker = "direct" /\ Latest = rsp - 1 /\ rsp \in Reply
          /\ UNCHANGED <<head, tail, next, rsp>>
      BY <1>3 DEF WorkerSends
    <3>2. CASE direct' = direct \cup {rsp} /\ worker' = "idle"
      <4>1. Latest' = rsp
        BY <3>1, <3>2
      <4> QED
        BY <3>1, <3>2, <4>1
    <3>3. CASE direct' = direct /\ worker' = "add"
      BY <3>1, <3>3
    <3> QED
      BY <1>3, <3>2, <3>3 DEF WorkerSends
  <2>2. AppendShape'
    BY <1>3 DEF WorkerSends
  <2>3. CursorShape'
    BY <1>3 DEF WorkerSends
  <2>4. WorkerShape'
    BY <1>3 DEF WorkerSends
  <2>5. FreeShape'
    BY <1>3 DEF WorkerSends
  <2>6. PosShape'
    BY <1>3 DEF WorkerSends
  <2> QED
    BY <2>1, <2>2, <2>3, <2>4, <2>5, <2>6 DEF Shape
<1>4. CASE AddBegin
  <2>1. ListShape'
    BY <1>4 DEF AddBegin
  <2>2. AppendShape'
    BY <1>4 DEF AddBegin
  <2>3. CursorShape'
    BY <1>4 DEF AddBegin
  <2>4. WorkerShape'
    BY <1>4 DEF AddBegin
  <2>5. FreeShape'
    BY <1>4 DEF AddBegin
  <2>6. PosShape'
    BY <1>4 DEF AddBegin
  <2> QED
    BY <2>1, <2>2, <2>3, <2>4, <2>5, <2>6 DEF Shape
<1>5. CASE AddTest
  <2>1. ListShape'
    BY <1>5 DEF AddTest
  <2>2. AppendShape'
    BY <1>5 DEF AddTest
  <2>3. CursorShape'
    BY <1>5 DEF AddTest
  <2>4. WorkerShape'
    BY <1>5 DEF AddTest
  <2>5. FreeShape'
    BY <1>5 DEF AddTest
  <2>6. PosShape'
    BY <1>5 DEF AddTest
  <2> QED
    BY <2>1, <2>2, <2>3, <2>4, <2>5, <2>6 DEF Shape
<1>6. CASE AddUnlink
  <2>1. CASE head \in {NULL, Keep}
    <3>1. /\ worker = "unlink" /\ worker' = "insert"
          /\ UNCHANGED <<listVars, rsp, oldCurr, willDel, direct, outVars>>
      BY <1>6, <2>1 DEF AddUnlink
    <3> QED
      BY <2>1, <3>1
  <2>2. CASE head \notin {NULL, Keep}
    <3>1. /\ worker = "unlink" /\ worker' = "unlink"
          /\ willDel' = IF willDel = NULL THEN head ELSE willDel
          /\ head' = next[head]
          /\ next' = IF next[head] \in {NULL, Keep} THEN [next EXCEPT ![head] = NULL] ELSE next
          /\ UNCHANGED <<tail, curr, freed, rsp, oldCurr, direct, outVars>>
      BY <1>6, <2>2 DEF AddUnlink
    <3>2. /\ head \in Reply /\ tail \in Reply /\ head <= tail /\ tail <= rsp - 1
          /\ head' = IF head < tail THEN head + 1 ELSE NULL
          /\ Latest = rsp - 1 /\ Latest' = rsp - 1 /\ rsp \in Reply /\ head \notin direct
      BY <2>2, <3>1
    <3>3. /\ \A r \in Reply : r # head => next'[r] = next[r]
          /\ next'[head] = IF head' \in {NULL, Keep} THEN NULL ELSE head + 1
          /\ next' \in [Reply -> Link]
      BY <3>1, <3>2
    <3>4. /\ oldCurr = ALL_DONE => curr = ALL_DONE
          /\ oldCurr \in Reply => head < oldCurr /\ oldCurr <= tail /\ head' = head + 1
          /\ oldCurr \in Reply \cup {ALL_DONE}
          /\ curr = ALL_DONE \/ (oldCurr \in Reply /\ oldCurr <= curr)
      BY <2>2, <3>1, <3>2
    <3>5. ListShape'
      <4>1. direct' \subseteq 1 .. Latest'
        BY <3>1, <3>2
      <4>2. head' # NULL => \A r \in head' .. tail' :
              r \notin direct' /\ next'[r] = IF r < tail' THEN r + 1 ELSE NULL
        BY <3>1, <3>2, <3>3
      <4>3. head' # NULL => \A r \in Reply : tail' < r /\ r <= Latest' => r \in direct'
        BY <3>1, <3>2
      <4>4. \A r \in Reply : r > Latest' => next'[r] = NULL
        BY <3>1, <3>2, <3>3
      <4>5. \A r \in direct' : next'[r] = NULL
        BY <3>1, <3>2, <3>3
      <4> QED
        BY <3>1, <3>2, <4>1, <4>2, <4>3, <4>4, <4>5
    <3>6. AppendShape'
      BY <3>1, <3>2, <3>4
    <3>7. CursorShape'
      BY <3>1, <3>2, <3>4
    <3>8. WorkerShape'
      BY <3>1, <3>2, <3>4
    <3>9. FreeShape'
      <4>1. \A r \in freed' : r <= End' /\ r < willDel'
        BY <3>1, <3>2
      <4>2. willDel' # NULL /\ willDel' <= End'
        BY <3>1, <3>2
      <4>3. \A r \in willDel' .. End' :
              \/ next'[r] = NULL
              \/ next'[r] = r + 1 /\ (r = End' => head' \notin {NULL, Keep'})
        BY <3>1, <3>2, <3>3
      <4> QED
        BY <3>1, <4>1, <4>2, <4>3
    <3>10. PosShape'
      BY <3>1, <3>2, <3>4
    <3> QED
      BY <3>5, <3>6, <3>7, <3>8, <3>9, <3>10 DEF Shape
  <2> QED
    BY <2>1, <2>2
<1>7. CASE AddInsert
  <2>1. /\ worker = "insert" /\ worker' = "check" /\ rsp \in Reply /\ tail' = rsp
        /\ Latest = rsp - 1 /\ Latest' = rsp /\ head' = First
        /\ UNCHANGED <<curr, freed, rsp, oldCurr, willDel, direct, outVars>>
    BY <1>7 DEF AddInsert
  <2>2. AppendShape' /\ CursorShape'
    BY <2>1
  <2>3. WorkerShape' /\ PosShape'
    BY <2>1
  <2>4. CASE head = NULL
    <3>1. /\ head' = rsp /\ \A r \in Reply : r # rsp => next'[r] = next[r]
          /\ next'[rsp] = NULL
      BY <1>7, <2>1, <2>4 DEF AddInsert
    <3>2. ListShape'
      BY <2>1, <2>4, <3>1
    <3>3. FreeShape'
      BY <2>1, <2>4, <3>1
    <3> QED
      BY <2>2, <2>3, <3>2, <3>3 DEF Shape
  <2>5. CASE head # NULL
    <3>1. /\ tail = rsp - 1 /\ tail \in Reply /\ head <= tail /\ head' = head
          /\ tail \notin direct /\ rsp \notin direct
      BY <2>1, <2>5
    <3>2. /\ \A r \in Reply : r \notin {tail, rsp} => next'[r] = next[r]
          /\ next'[rsp] = NULL /\ next'[tail] = rsp
      BY <1>7, <2>5, <3>1 DEF AddInsert
    <3>3. ListShape'
      <4>1. \A r \in head' .. tail' :
              r \notin direct' /\ next'[r] = IF r < tail' THEN r + 1 ELSE NULL
        <5> SUFFICES ASSUME NEW r \in head' .. tail'
                     PROVE  r \notin direct' /\ next'[r] = IF r < tail' THEN r + 1 ELSE NULL
          OBVIOUS
        <5>1. CASE r = tail
          BY <2>1, <3>1, <3>2, <5>1
        <5>3. CASE r = rsp
          BY <2>1, <3>1, <3>2, <5>3
        <5>2. CASE r \notin {tail, rsp}
          <6>1. r \in head .. tail /\ r < tail /\ r \in Reply
            BY <2>1, <3>1, <5>2
          <6>2. next'[r] = next[r]
            BY <3>2, <5>2, <6>1
          <6> QED
            BY <2>1, <2>5, <3>1, <6>1, <6>2
        <5> QED
          BY <5>1, <5>2, <5>3
      <4>2. \A r \in direct' : next'[r] = NULL
        BY <2>1, <3>1, <3>2
      <4>3. \A r \in Reply : r > Latest' => next'[r] = NULL
        BY <2>1, <3>1, <3>2
      <4> QED
        BY <2>1, <2>5, <3>1, <4>1, <4>2, <4>3
    <3>4. FreeShape'
      BY <2>1, <2>5, <3>1, <3>2
    <3> QED
      BY <2>2, <2>3, <3>3, <3>4 DEF Shape
  <2> QED
    BY <2>4, <2>5
<1>8. CASE AddCheck
  <2>1. ListShape'
    BY <1>8 DEF AddCheck
  <2>2. AppendShape'
    BY <1>8 DEF AddCheck
  <2>3. CursorShape'
    BY <1>8 DEF AddCheck
  <2>4. WorkerShape'
    BY <1>8 DEF AddCheck
  <2>5. FreeShape'
    BY <1>8 DEF AddCheck
  <2>6. PosShape'
    BY <1>8 DEF AddCheck
  <2> QED
    BY <2>1, <2>2, <2>3, <2>4, <2>5, <2>6 DEF Shape
<1>9. CASE AddFree
  <2>1. ListShape'
    BY <1>9 DEF AddFree
  <2>2. AppendShape'
    BY <1>9 DEF AddFree
  <2>3. CursorShape'
    BY <1>9 DEF AddFree
  <2>4. WorkerShape'
    BY <1>9 DEF AddFree
  <2>5. FreeShape'
    <3>1. CASE willDel \in {NULL, Keep}
      BY <1>9, <3>1 DEF AddFree
    <3>2. CASE willDel \notin {NULL, Keep}
      <4>1. /\ worker = "free" /\ worker' = "free"
            /\ freed' = freed \cup {willDel} /\ willDel' = next[willDel]
            /\ UNCHANGED <<head, tail, next, rsp>>
        BY <1>9, <3>2 DEF AddFree
      <4>2. /\ willDel \in Reply /\ willDel <= End
            /\ next[willDel] = NULL \/ (next[willDel] = willDel + 1 /\ willDel < End)
        BY <3>2, <4>1
      <4> QED
        BY <4>1, <4>2
    <3> QED
      BY <3>1, <3>2
  <2>6. PosShape'
    BY <1>9 DEF AddFree
  <2> QED
    BY <2>1, <2>2, <2>3, <2>4, <2>5, <2>6 DEF Shape
<1>10. CASE WorkerArms
  <2>1. ListShape'
    BY <1>10 DEF WorkerArms
  <2>2. AppendShape'
    BY <1>10 DEF WorkerArms
  <2>3. CursorShape'
    BY <1>10 DEF WorkerArms
  <2>4. WorkerShape'
    BY <1>10 DEF WorkerArms
  <2>5. FreeShape'
    BY <1>10 DEF WorkerArms
  <2>6. PosShape'
    BY <1>10 DEF WorkerArms
  <2> QED
    BY <2>1, <2>2, <2>3, <2>4, <2>5, <2>6 DEF Shape
<1>11. CASE OutWakes
  <2>1. ListShape'
    BY <1>11 DEF OutWakes
  <2>2. AppendShape'
    BY <1>11 DEF OutWakes
  <2>3. CursorShape'
    BY <1>11 DEF OutWakes
  <2>4. WorkerShape'
    BY <1>11 DEF OutWakes
  <2>5. FreeShape'
    BY <1>11 DEF OutWakes
  <2>6. PosShape'
    BY <1>11 DEF OutWakes
  <2> QED
    BY <2>1, <2>2, <2>3, <2>4, <2>5, <2>6 DEF Shape
<1>12. CASE OutTop
  <2>1. ListShape'
    BY <1>12 DEF OutTop, Cursor
  <2>2. AppendShape'
    BY <1>12 DEF OutTop, Cursor
  <2>3. CursorShape'
    BY <1>12 DEF OutTop, Cursor
  <2>4. WorkerShape'
    BY <1>12 DEF OutTop, Cursor
  <2>5. FreeShape'
    BY <1>12 DEF OutTop, Cursor
  <2>6. PosShape'
    BY <1>12 DEF OutTop, Cursor
  <2> QED
    BY <2>1, <2>2, <2>3, <2>4, <2>5, <2>6 DEF Shape
<1>13. CASE OutSend
  <2>1. ListShape'
    BY <1>13 DEF OutSend
  <2>2. AppendShape'
    BY <1>13 DEF OutSend
  <2>3. CursorShape'
    BY <1>13 DEF OutSend
  <2>4. WorkerShape'
    BY <1>13 DEF OutSend
  <2>5. FreeShape'
    BY <1>13 DEF OutSend
  <2>6. PosShape'
    BY <1>13 DEF OutSend
  <2> QED
    BY <2>1, <2>2, <2>3, <2>4, <2>5, <2>6 DEF Shape
<1>14. CASE OutPop
  <2>1. ListShape'
    BY <1>14 DEF OutPop
  <2>2. AppendShape'
    BY <1>14 DEF OutPop
  <2>3. CursorShape'
    BY <1>14 DEF OutPop
  <2>4. WorkerShape'
    BY <1>14 DEF OutPop
  <2>5. FreeShape'
    BY <1>14 DEF OutPop
  <2>6. PosShape'
    BY <1>14 DEF OutPop
  <2> QED
    BY <2>1, <2>2, <2>3, <2>4, <2>5, <2>6 DEF Shape
<1>15. CASE OutStore
  <2>1. ListShape'
    BY <1>15 DEF OutStore
  <2>2. AppendShape'
    BY <1>15 DEF OutStore
  <2>3. CursorShape'
    BY <1>15 DEF OutStore
  <2>4. WorkerShape'
    BY <1>15 DEF OutStore
  <2>5. FreeShape'
    BY <1>15 DEF OutStore
  <2>6. PosShape'
    BY <1>15 DEF OutStore
  <2> QED
    BY <2>1, <2>2, <2>3, <2>4, <2>5, <2>6 DEF Shape
<1>16. CASE OutDisarms
  <2>1. ListShape'
    BY <1>16 DEF OutDisarms
  <2>2. AppendShape'
    BY <1>16 DEF OutDisarms
  <2>3. CursorShape'
    BY <1>16 DEF OutDisarms
  <2>4. WorkerShape'
    BY <1>16 DEF OutDisarms
  <2>5. FreeShape'
    BY <1>16 DEF OutDisarms
  <2>6. PosShape'
    BY <1>16 DEF OutDisarms
  <2> QED
    BY <2>1, <2>2, <2>3, <2>4, <2>5, <2>6 DEF Shape
<1>17. CASE OutLooksAgain
  <2>1. ListShape'
    BY <1>17 DEF OutLooksAgain, Cursor
  <2>2. AppendShape'
    BY <1>17 DEF OutLooksAgain, Cursor
  <2>3. CursorShape'
    BY <1>17 DEF OutLooksAgain, Cursor
  <2>4. WorkerShape'
    BY <1>17 DEF OutLooksAgain, Cursor
  <2>5. FreeShape'
    BY <1>17 DEF OutLooksAgain, Cursor
  <2>6. PosShape'
    BY <1>17 DEF OutLooksAgain, Cursor
  <2> QED
    BY <2>1, <2>2, <2>3, <2>4, <2>5, <2>6 DEF Shape
<1>18. CASE ClientReads
  <2>1. ListShape'
    BY <1>18 DEF ClientReads
  <2>2. AppendShape'
    BY <1>18 DEF ClientReads
  <2>3. CursorShape'
    BY <1>18 DEF ClientReads
  <2>4. WorkerShape'
    BY <1>18 DEF ClientReads
  <2>5. FreeShape'
    BY <1>18 DEF ClientReads
  <2>6. PosShape'
    BY <1>18 DEF ClientReads
  <2> QED
    BY <2>1, <2>2, <2>3, <2>4, <2>5, <2>6 DEF Shape
<1>19. CASE UNCHANGED vars
  BY <1>19 DEF vars
<1> QED
  BY <1>1, <1>2, <1>3, <1>4, <1>5, <1>6, <1>7, <1>8, <1>9, <1>10, <1>11, <1>12, <1>13, <1>14, <1>15, <1>16, <1>17, <1>18, <1>19 DEF Next, WorkerContinues, Out
\* The inductive invariant holds of every behaviour of such a build.
LEMMA Invariant ==
  ASSUME MayReload = FALSE
  PROVE  Spec => [](TypeInv /\ Shape)
<1>1. Init => Shape
  BY ReplyListAssumption
     DEF Init, Shape, ListShape, AppendShape, CursorShape, WorkerShape, FreeShape, PosShape,
         Latest, First, End, Reply, NULL, ALL_DONE
<1>2. TypeInv /\ Shape /\ [Next]_vars => Shape'
  BY ShapeStep
<1> QED
  BY <1>1, <1>2, TypeInvHolds, PTL DEF Spec

\* Neither thread reaches a reply that was freed, nor frees one twice, for any number of
\* replies, although gr_tcp_conn_add_rsp frees beside gr_poll_send without a lock.
THEOREM NoUseAfterFree ==
  ASSUME MayReload = FALSE
  PROVE  Spec => []MemorySafe
<1>1. TypeInv /\ Shape => MemorySafe
  BY ReplyListAssumption
     DEF TypeInv, TypeOK, Shape, ListShape, CursorShape, WorkerShape, FreeShape, First, End,
         MemorySafe, PopFindsItsReply, Reply, Link, NULL, ALL_DONE
<1> QED
  BY <1>1, Invariant, PTL

-----------------------------------------------------------------------------
(* The reply list implements the stream: WorkerReplies hands in, OutTop    *)
(* takes, AddUnlink and a direct send reclaim, OutStore and a partial send *)
(* finish, and every other step is invisible.                              *)

\* What is listed no more changes only by the reply that is unlinked or sent directly.
LEMMA StreamStep ==
  ASSUME TypeInv, Shape, [Next]_vars
  PROVE  [Stream!Next]_Stream!vars
<1> USE ReplyListAssumption
    DEF TypeInv, TypeOK, Reply, Link, NULL, ALL_DONE, Shape, ListShape, AppendShape, CursorShape,
        WorkerShape, FreeShape, PosShape, Latest, First, End, Keep, Gone, listVars, workerVars,
        outVars, socketVars
<1>1. CASE WorkerReplies
  <2>1. Gone' = Gone
    BY <1>1 DEF WorkerReplies
  <2>2. Stream!HandIn
    BY <1>1, <2>1 DEF WorkerReplies, Stream!HandIn
  <2> QED
    BY <2>2 DEF Stream!Next
<1>2. CASE WorkerSends
  <2>1. worker = "direct" /\ rsp \in Reply /\ item = NULL
    BY <1>2 DEF WorkerSends
  <2>2. UNCHANGED <<head, rsp, item, pos>>
    BY <1>2 DEF WorkerSends
  <2>3. CASE direct' = direct \cup {rsp}
    <3>1. rsp \notin Gone
      BY <2>1
    <3>2. Gone' = Gone \cup {rsp}
      BY <2>2, <2>3
    <3>3. Stream!Reclaim(rsp)
      BY <2>1, <2>2, <3>1, <3>2 DEF Stream!Reclaim
    <3> QED
      BY <2>1, <3>3 DEF Stream!Next
  <2>4. CASE direct' = direct
    BY <2>2, <2>4 DEF Stream!vars
  <2> QED
    BY <1>2, <2>3, <2>4 DEF WorkerSends
<1>3. CASE AddUnlink
  <2>1. CASE head \in {NULL, Keep}
    BY <1>3, <2>1 DEF AddUnlink, Stream!vars
  <2>2. CASE head \notin {NULL, Keep}
    <3>1. /\ worker = "unlink" /\ head' = next[head]
          /\ UNCHANGED <<rsp, direct, item, pos, tail>>
      BY <1>3, <2>2 DEF AddUnlink
    <3>2. /\ head \in Reply /\ head <= tail /\ tail <= rsp - 1 /\ head \notin direct
          /\ head' = IF head < tail THEN head + 1 ELSE NULL
          /\ \A r \in Reply : tail < r /\ r <= rsp - 1 => r \in direct
      BY <2>2, <3>1
    <3>3. head \notin Gone
      BY <3>2
    <3>4. Gone' = Gone \cup {head}
      BY <3>1, <3>2
    <3>5. item # 0 => head < item
      BY <2>2, <3>1, <3>2
    <3>6. Stream!Reclaim(head)
      BY <3>1, <3>3, <3>4, <3>5 DEF Stream!Reclaim
    <3> QED
      BY <3>2, <3>6 DEF Stream!Next
  <2> QED
    BY <2>1, <2>2
<1>4. CASE AddInsert
  <2>1. First' = First /\ head' # NULL
    BY <1>4 DEF AddInsert
  <2> QED
    BY <1>4, <2>1 DEF AddInsert, Stream!vars
<1>5. CASE OutTop
  <2>1. CASE Cursor \in Reply
    <3>1. Cursor \in 1 .. rsp /\ Cursor \notin Gone
      BY <1>5, <2>1 DEF OutTop, Cursor
    <3>2. (pos + 1) .. (Cursor - 1) \subseteq Gone
      BY <1>5, <2>1 DEF OutTop, Cursor
    <3>3. item = 0 /\ item' = Cursor /\ pos' = Cursor /\ UNCHANGED <<rsp, Gone>>
      BY <1>5, <2>1 DEF OutTop
    <3>4. Stream!Take(Cursor)
      BY <3>1, <3>2, <3>3 DEF Stream!Take
    <3> QED
      BY <3>1, <3>4 DEF Stream!Next
  <2>2. CASE Cursor \notin Reply
    BY <1>5, <2>2 DEF OutTop, Stream!vars
  <2> QED
    BY <2>1, <2>2
<1>6. ASSUME OutSend \/ OutStore
      PROVE  [Stream!Next]_Stream!vars
  <2>1. item # 0 /\ UNCHANGED <<rsp, pos, head, direct>> /\ item' \in {0, item}
    BY <1>6 DEF OutSend, OutStore
  <2>2. CASE item' = 0
    BY <2>1, <2>2 DEF Stream!Finish, Stream!Next
  <2>3. CASE item' = item
    BY <2>1, <2>3 DEF Stream!vars
  <2> QED
    BY <2>1, <2>2, <2>3
<1>7. ASSUME \/ WorkerLooks \/ AddBegin \/ AddTest \/ AddCheck \/ AddFree \/ WorkerArms
             \/ OutWakes \/ OutPop \/ OutDisarms \/ OutLooksAgain \/ ClientReads
             \/ UNCHANGED vars
      PROVE  UNCHANGED <<rsp, pos, item, head, direct>>
  BY <1>7 DEF WorkerLooks, AddBegin, AddTest, AddCheck, AddFree, WorkerArms, OutWakes, OutPop,
     OutDisarms, OutLooksAgain, ClientReads, vars
<1>8. ASSUME UNCHANGED <<rsp, pos, item, head, direct>>
      PROVE  UNCHANGED Stream!vars
  BY <1>8 DEF Stream!vars
<1> QED
  BY <1>1, <1>2, <1>3, <1>4, <1>5, <1>6, <1>7, <1>8 DEF Next, WorkerContinues, Out

\* tcp.output never jumps over a reply that is still listed and no reply leaves the list
\* while it is being sent: the pointers of gr_conn.c implement the stream of replies,
\* however many there are and wherever the worker sends around the list.
THEOREM Refinement ==
  ASSUME MayReload = FALSE
  PROVE  Spec => StreamSpec
<1>1. Init => Stream!Init
  BY DEF Init, Stream!Init, Gone, NULL
<1>2. TypeInv /\ Shape /\ [Next]_vars => [Stream!Next]_Stream!vars
  BY StreamStep
<1> QED
  BY <1>1, <1>2, Invariant, PTL DEF Spec, StreamSpec, Stream!Spec
-----------------------------------------------------------------------------
(* What was sent of which reply.                                           *)

\* The reply in hand was sent in part, and goes to the front of the list.
Fresh ==
  /\ worker \in {"add", "test", "unlink", "insert", "check"}
  /\ curr = ALL_DONE \/ (curr = NULL /\ head = NULL)
  /\ worker # "add" => oldCurr = curr

\* tcp.output will come to the replies of the list, or come back to them.
Alive ==
  /\ head # NULL
  /\ \/ curr # ALL_DONE
     \/ worker = "check"
     \/ (worker \in {"test", "unlink", "insert"} /\ oldCurr # ALL_DONE)

\* Nothing was sent of a reply that was not given yet, or that nobody has looked at.
NothingAhead ==
  /\ \A r \in Reply : r > rsp => bufSent[r] = 0
  /\ worker \in {"pending", "direct"} => bufSent[rsp] = 0

\* What tcp.output has passed, or is about to pop, was sent to its end.
PassedIsSent ==
  /\ out \in {"pop", "store"} => bufSent[item] = Size
  /\ curr \in Reply => \A r \in head .. (curr - 1) : bufSent[r] = Size

\* Nothing was sent of a reply that follows a listed one with something missing.
MissingIsLast ==
  Alive => \A x \in head .. tail :
             bufSent[x] < Size => \A r \in Reply : r > x => bufSent[r] = 0

\* A part was sent of no reply but the next one.
PartialIsNext ==
  /\ \A r \in Reply : 0 < bufSent[r] /\ bufSent[r] < Size =>
        curr = r \/ (curr = NULL /\ head = r) \/ (r = rsp /\ Fresh)
  /\ worker = "check" /\ oldCurr = ALL_DONE => head = rsp

SentShape == NothingAhead /\ PassedIsSent /\ MissingIsLast /\ PartialIsNext

\* The socket took of each reply what its counter says, and the replies in their order.
GotShape ==
  /\ \A r \in Reply : Units(r) = bufSent[r]
  /\ \A j, k \in DOMAIN got : j < k => got[j] <= got[k]
\* A send changes the counter of its reply only, by what fits.
LEMMA WriteCounts ==
  ASSUME TypeOK, NEW r \in Reply, Write(r)
  PROVE  /\ Fits(r) \in 0 .. (Size - bufSent[r])
         /\ bufSent'[r] = bufSent[r] + Fits(r)
         /\ \A q \in Reply : q # r => bufSent'[q] = bufSent[q]
<1>1. Fits(r) \in 0 .. (Size - bufSent[r])
  BY ReplyListAssumption DEF TypeOK, Fits
<1> QED
  BY <1>1 DEF Write, TypeOK

\* Every step of the two threads keeps what was sent in shape.
LEMMA SentStep ==
  ASSUME MayReload = FALSE, TypeInv, Shape, SentShape, [Next]_vars
  PROVE  SentShape'
<1> USE ReplyListAssumption
    DEF TypeInv, TypeOK, Reply, Link, NULL, ALL_DONE, Shape, ListShape, AppendShape, CursorShape,
        WorkerShape, Latest, Keep, SentShape, NothingAhead, PassedIsSent, MissingIsLast,
        PartialIsNext, Alive, Fresh, listVars, workerVars, outVars, socketVars
<1>1. CASE WorkerReplies
  <2>1. NothingAhead'
    BY <1>1 DEF WorkerReplies
  <2>2. PassedIsSent'
    BY <1>1 DEF WorkerReplies
  <2>3. MissingIsLast'
    BY <1>1 DEF WorkerReplies
  <2>4. PartialIsNext'
    BY <1>1 DEF WorkerReplies
  <2> QED
    BY <2>1, <2>2, <2>3, <2>4 DEF SentShape
<1>2. CASE WorkerLooks
  <2>1. NothingAhead'
    BY <1>2 DEF WorkerLooks, HasPending
  <2>2. PassedIsSent'
    BY <1>2 DEF WorkerLooks, HasPending
  <2>3. MissingIsLast'
    BY <1>2 DEF WorkerLooks, HasPending
  <2>4. PartialIsNext'
    BY <1>2 DEF WorkerLooks, HasPending
  <2> QED
    BY <2>1, <2>2, <2>3, <2>4 DEF SentShape
<1>3. CASE WorkerSends
  <2>1. /\ rsp \in Reply /\ Fits(rsp) \in 0 .. (Size - bufSent[rsp])
        /\ bufSent'[rsp] = bufSent[rsp] + Fits(rsp)
        /\ \A q \in Reply : q # rsp => bufSent'[q] = bufSent[q]
    BY <1>3, WriteCounts DEF WorkerSends
  <2>2. NothingAhead'
    BY <1>3, <2>1 DEF WorkerSends
  <2>3. PassedIsSent'
    BY <1>3, <2>1 DEF WorkerSends
  <2>4. MissingIsLast'
    BY <1>3, <2>1 DEF WorkerSends
  <2>5. PartialIsNext'
    BY <1>3, <2>1 DEF WorkerSends
  <2> QED
    BY <2>2, <2>3, <2>4, <2>5 DEF SentShape
<1>4. CASE AddBegin
  <2>1. NothingAhead'
    BY <1>4 DEF AddBegin
  <2>2. PassedIsSent'
    BY <1>4 DEF AddBegin
  <2>3. MissingIsLast'
    BY <1>4 DEF AddBegin
  <2>4. PartialIsNext'
    BY <1>4 DEF AddBegin
  <2> QED
    BY <2>1, <2>2, <2>3, <2>4 DEF SentShape
<1>5. CASE AddTest
  <2>1. NothingAhead'
    BY <1>5 DEF AddTest
  <2>2. PassedIsSent'
    BY <1>5 DEF AddTest
  <2>3. MissingIsLast'
    BY <1>5 DEF AddTest
  <2>4. PartialIsNext'
    BY <1>5 DEF AddTest
  <2> QED
    BY <2>1, <2>2, <2>3, <2>4 DEF SentShape
<1>6. CASE AddUnlink
  <2>1. /\ worker = "unlink" /\ worker' \in {"unlink", "insert"}
        /\ UNCHANGED <<tail, curr, freed, rsp, oldCurr, direct, outVars, socketVars>>
    BY <1>6 DEF AddUnlink
  <2>2. CASE head \in {NULL, Keep}
    <3>1. worker' = "insert" /\ head' = head
      BY <1>6, <2>2 DEF AddUnlink
    <3> QED
      BY <2>1, <3>1
  <2>3. CASE head \notin {NULL, Keep}
    <3>1. /\ worker' = "unlink" /\ head' = next[head]
          /\ head \in Reply /\ tail \in Reply /\ head <= tail
      BY <1>6, <2>3 DEF AddUnlink
    <3>2. head' = NULL \/ head' = head + 1
      BY <2>1, <3>1
    <3>3. /\ curr # NULL /\ oldCurr # NULL
          /\ curr \in Reply => head < oldCurr /\ oldCurr <= tail
      BY <2>1, <2>3, <3>1
    <3>8. curr \in Reply => head' = head + 1
      BY <3>1, <3>3
    <3>4. NothingAhead'
      BY <2>1, <3>1
    <3>5. PassedIsSent'
      BY <2>1, <3>1, <3>8
    <3>6. MissingIsLast'
      BY <2>1, <3>1, <3>2
    <3>7. PartialIsNext'
      BY <2>1, <3>1, <3>3
    <3> QED
      BY <3>4, <3>5, <3>6, <3>7 DEF SentShape
  <2> QED
    BY <2>2, <2>3
<1>7. CASE AddInsert
  <2>1. /\ worker = "insert" /\ worker' = "check" /\ rsp \in Reply
        /\ tail' = rsp /\ head' = IF head = NULL THEN rsp ELSE head
        /\ UNCHANGED <<curr, freed, rsp, oldCurr, direct, outVars, socketVars>>
    BY <1>7 DEF AddInsert
  <2>2. NothingAhead'
    BY <2>1
  <2>3. PassedIsSent'
    BY <2>1
  <2>4. MissingIsLast'
    <3>1. CASE head = NULL
      BY <2>1, <3>1
    <3>2. CASE head # NULL
      <4>1. Alive /\ tail = rsp - 1 /\ tail \in Reply /\ head' = head
        BY <2>1, <3>2
      <4>2. ASSUME NEW x \in head .. rsp, bufSent[x] < Size, NEW r \in Reply, r > x
            PROVE  bufSent[r] = 0
        BY <2>1, <3>2, <4>1, <4>2
      <4> QED
        BY <2>1, <4>1, <4>2
    <3> QED
      BY <3>1, <3>2
  <2>5. PartialIsNext'
    BY <2>1
  <2> QED
    BY <2>2, <2>3, <2>4, <2>5 DEF SentShape
<1>8. CASE AddCheck
  <2>1. NothingAhead'
    BY <1>8 DEF AddCheck
  <2>2. PassedIsSent'
    BY <1>8 DEF AddCheck
  <2>3. MissingIsLast'
    BY <1>8 DEF AddCheck
  <2>4. PartialIsNext'
    BY <1>8 DEF AddCheck
  <2> QED
    BY <2>1, <2>2, <2>3, <2>4 DEF SentShape
<1>9. CASE AddFree
  <2>1. NothingAhead'
    BY <1>9 DEF AddFree
  <2>2. PassedIsSent'
    BY <1>9 DEF AddFree
  <2>3. MissingIsLast'
    BY <1>9 DEF AddFree
  <2>4. PartialIsNext'
    BY <1>9 DEF AddFree
  <2> QED
    BY <2>1, <2>2, <2>3, <2>4 DEF SentShape
<1>10. CASE WorkerArms
  <2>1. NothingAhead'
    BY <1>10 DEF WorkerArms
  <2>2. PassedIsSent'
    BY <1>10 DEF WorkerArms
  <2>3. MissingIsLast'
    BY <1>10 DEF WorkerArms
  <2>4. PartialIsNext'
    BY <1>10 DEF WorkerArms
  <2> QED
    BY <2>1, <2>2, <2>3, <2>4 DEF SentShape
<1>11. CASE OutWakes
  <2>1. NothingAhead'
    BY <1>11 DEF OutWakes
  <2>2. PassedIsSent'
    BY <1>11 DEF OutWakes
  <2>3. MissingIsLast'
    BY <1>11 DEF OutWakes
  <2>4. PartialIsNext'
    BY <1>11 DEF OutWakes
  <2> QED
    BY <2>1, <2>2, <2>3, <2>4 DEF SentShape
<1>12. CASE OutTop
  <2>1. NothingAhead'
    BY <1>12 DEF OutTop, Cursor
  <2>2. PassedIsSent'
    BY <1>12 DEF OutTop, Cursor
  <2>3. MissingIsLast'
    BY <1>12 DEF OutTop, Cursor
  <2>4. PartialIsNext'
    BY <1>12 DEF OutTop, Cursor
  <2> QED
    BY <2>1, <2>2, <2>3, <2>4 DEF SentShape
<1>13. CASE OutSend
  <2>1. /\ item \in Reply /\ Fits(item) \in 0 .. (Size - bufSent[item])
        /\ bufSent'[item] = bufSent[item] + Fits(item)
        /\ \A q \in Reply : q # item => bufSent'[q] = bufSent[q]
    BY <1>13, WriteCounts DEF OutSend
  <2>2. NothingAhead'
    <3>1. UNCHANGED <<rsp, worker>> /\ item = curr /\ item <= tail /\ tail <= Latest
      BY <1>13 DEF OutSend
    <3>2. item <= rsp /\ (worker \in {"pending", "direct"} => item < rsp)
      <4>1. Latest <= rsp /\ (worker \in {"pending", "direct"} => Latest < rsp)
        OBVIOUS
      <4>2. item \in Int /\ tail \in Int /\ Latest \in Int
        OBVIOUS
      <4> HIDE DEF Latest
      <4> QED
        BY <3>1, <4>1, <4>2
    <3>3. \A r \in Reply : r > rsp => r # item
      BY <2>1, <3>2
    <3>4. worker \in {"pending", "direct"} => item # rsp
      BY <2>1, <3>2
    <3> QED
      BY <2>1, <3>1, <3>3, <3>4
  <2>3. PassedIsSent'
    <3>1. out' \in {"pop", "store"} => bufSent'[item'] = Size
      BY <1>13, <2>1 DEF OutSend
    <3>2. UNCHANGED <<head, curr>> /\ item = curr /\ head \in Reply
      BY <1>13 DEF OutSend
    <3>3. \A r \in head .. (curr - 1) : bufSent'[r] = Size
      BY <2>1, <3>2
    <3> QED
      BY <3>1, <3>2, <3>3
  <2>4. MissingIsLast'
    <3>1. /\ UNCHANGED <<head, tail, curr, worker, oldCurr>>
          /\ item = curr /\ head \in Reply /\ tail \in Reply /\ head <= curr /\ curr <= tail
      BY <1>13 DEF OutSend
    <3>2. \A x \in head .. tail : bufSent[x] < Size => \A r \in Reply : r > x => bufSent[r] = 0
      BY <3>1
    <3>3. ASSUME NEW x \in head .. tail, bufSent'[x] < Size, NEW r \in Reply, r > x
          PROVE  bufSent'[r] = 0
      <4> x \in Reply
        BY <3>1
      <4>1. bufSent[x] < Size
        <5>1. CASE x = item
          BY <2>1, <3>3, <5>1
        <5>2. CASE x # item
          BY <2>1, <3>3, <5>2
        <5> QED
          BY <5>1, <5>2
      <4>2. x >= curr
        BY <2>1, <3>1, <3>3
      <4>3. bufSent[r] = 0
        BY <3>2, <3>3, <4>1
      <4>4. r # item
        BY <3>1, <3>3, <4>2
      <4> QED
        BY <2>1, <4>3, <4>4
    <3> QED
      BY <3>1, <3>3
  <2>5. PartialIsNext'
    BY <1>13, <2>1 DEF OutSend
  <2> QED
    BY <2>2, <2>3, <2>4, <2>5 DEF SentShape
<1>14. CASE OutPop
  <2>1. NothingAhead'
    BY <1>14 DEF OutPop
  <2>2. PassedIsSent'
    BY <1>14 DEF OutPop
  <2>3. MissingIsLast'
    BY <1>14 DEF OutPop
  <2>4. PartialIsNext'
    BY <1>14 DEF OutPop
  <2> QED
    BY <2>1, <2>2, <2>3, <2>4 DEF SentShape
<1>15. CASE OutStore
  <2>1. NothingAhead'
    BY <1>15 DEF OutStore
  <2>2. PassedIsSent'
    BY <1>15 DEF OutStore
  <2>3. MissingIsLast'
    BY <1>15 DEF OutStore
  <2>4. PartialIsNext'
    BY <1>15 DEF OutStore
  <2> QED
    BY <2>1, <2>2, <2>3, <2>4 DEF SentShape
<1>16. CASE OutDisarms
  <2>1. NothingAhead'
    BY <1>16 DEF OutDisarms
  <2>2. PassedIsSent'
    BY <1>16 DEF OutDisarms
  <2>3. MissingIsLast'
    BY <1>16 DEF OutDisarms
  <2>4. PartialIsNext'
    BY <1>16 DEF OutDisarms
  <2> QED
    BY <2>1, <2>2, <2>3, <2>4 DEF SentShape
<1>17. CASE OutLooksAgain
  <2>1. NothingAhead'
    BY <1>17 DEF OutLooksAgain, Cursor
  <2>2. PassedIsSent'
    BY <1>17 DEF OutLooksAgain, Cursor
  <2>3. MissingIsLast'
    BY <1>17 DEF OutLooksAgain, Cursor
  <2>4. PartialIsNext'
    BY <1>17 DEF OutLooksAgain, Cursor
  <2> QED
    BY <2>1, <2>2, <2>3, <2>4 DEF SentShape
<1>18. CASE ClientReads
  <2>1. NothingAhead'
    BY <1>18 DEF ClientReads
  <2>2. PassedIsSent'
    BY <1>18 DEF ClientReads
  <2>3. MissingIsLast'
    BY <1>18 DEF ClientReads
  <2>4. PartialIsNext'
    BY <1>18 DEF ClientReads
  <2> QED
    BY <2>1, <2>2, <2>3, <2>4 DEF SentShape
<1>19. CASE UNCHANGED vars
  BY <1>19 DEF vars
<1> QED
  BY <1>1, <1>2, <1>3, <1>4, <1>5, <1>6, <1>7, <1>8, <1>9, <1>10, <1>11, <1>12, <1>13, <1>14, <1>15, <1>16, <1>17, <1>18, <1>19 DEF Next, WorkerContinues, Out
\* How often a reply stands in a sequence.
Count(s, r) == Cardinality({k \in DOMAIN s : s[k] = r})

\* Appending n times reply x adds n to its units and nothing to those of others.
LEMMA UnitsAppend ==
  ASSUME NEW s \in Seq(Reply), NEW n \in Nat, NEW x \in Reply, NEW r \in Reply
  PROVE  Count(s \o [k \in 1 .. n |-> x], r) = Count(s, r) + (IF r = x THEN n ELSE 0)
<1> DEFINE u == s \o [k \in 1 .. n |-> x]
           Old == {k \in DOMAIN s : s[k] = r}
           All == {k \in DOMAIN u : u[k] = r}
           New == (Len(s) + 1) .. (Len(s) + n)
<1> SUFFICES Cardinality(All) = Cardinality(Old) + (IF r = x THEN n ELSE 0)
  BY DEF Count
<1>1. [k \in 1 .. n |-> x] \in Seq(Reply) /\ Len([k \in 1 .. n |-> x]) = n
  OBVIOUS
<1>2. /\ Len(s) \in Nat /\ DOMAIN s = 1 .. Len(s) /\ DOMAIN u = 1 .. (Len(s) + n)
      /\ \A k \in 1 .. Len(s) : u[k] = s[k]
      /\ \A k \in New : u[k] = x
  BY <1>1
<1> HIDE DEF u
<1>3. IsFiniteSet(1 .. Len(s)) /\ IsFiniteSet(New) /\ Cardinality(New) = n
  BY <1>2, FS_Interval
<1>4. Old \subseteq 1 .. Len(s)
  BY <1>2
<1>5. IsFiniteSet(Old)
  BY <1>3, <1>4, FS_Subset
<1>6. CASE r = x
  <2>1. All = Old \cup New
    BY <1>2, <1>6
  <2>2. Old \cap New = {}
    BY <1>2, <1>4
  <2> HIDE DEF All, Old, New
  <2>3. Cardinality(Old \cup New) = Cardinality(Old) + Cardinality(New) - Cardinality({})
    BY <1>3, <1>5, <2>2, FS_Union
  <2>4. Cardinality({}) = 0 /\ Cardinality(Old) \in Nat
    BY <1>5, FS_EmptySet, FS_CardinalityType
  <2> QED
    BY <1>3, <1>6, <2>1, <2>3, <2>4
<1>7. CASE r # x
  <2>1. All = Old
    BY <1>2, <1>7
  <2>2. Cardinality(Old) \in Nat
    BY <1>5, FS_CardinalityType
  <2> HIDE DEF All, Old
  <2> QED
    BY <1>7, <2>1, <2>2
<1> QED
  BY <1>6, <1>7

\* What of a reply the socket took is counted as sent, so a reply with nothing sent of it
\* is nowhere in what the socket took.
LEMMA NoUnits ==
  ASSUME TypeOK, GotShape, NEW r \in Reply, bufSent[r] = 0
  PROVE  \A k \in DOMAIN got : got[k] # r
<1> DEFINE S == {k \in DOMAIN got : got[k] = r}
<1>1. DOMAIN got = 1 .. Len(got) /\ Len(got) \in Nat
  BY DEF TypeOK
<1>2. IsFiniteSet(S)
  <2>1. S \in SUBSET (1 .. Len(got)) /\ IsFiniteSet(1 .. Len(got))
    BY <1>1, FS_Interval
  <2> QED
    BY <2>1, FS_Subset
<1>3. Cardinality(S) = 0
  BY DEF GotShape, Units
<1>4. S = {}
  BY <1>2, <1>3, FS_EmptySet
<1> QED
  BY <1>4

\* A send after which nothing was sent of a later reply keeps the replies in order.
LEMMA WriteGot ==
  ASSUME TypeOK, GotShape, NEW x \in Reply, Write(x),
         Fits(x) > 0 => \A r \in Reply : r > x => bufSent[r] = 0
  PROVE  GotShape'
<1>1. /\ Fits(x) \in Nat
      /\ bufSent'[x] = bufSent[x] + Fits(x)
      /\ \A q \in Reply : q # x => bufSent'[q] = bufSent[q]
  BY WriteCounts, ReplyListAssumption DEF TypeOK
<1>2. got' = got \o [k \in 1 .. Fits(x) |-> x] /\ got \in Seq(Reply)
  BY DEF Write, TypeOK
<1>3. \A r \in Reply : Units(r)' = bufSent'[r]
  <2> SUFFICES ASSUME NEW r \in Reply PROVE Units(r)' = bufSent'[r]
    OBVIOUS
  <2>1. Units(r)' = Units(r) + (IF r = x THEN Fits(x) ELSE 0)
    <3> DEFINE n == Fits(x)
    <3> HIDE DEF n
    <3>1. Count(got \o [k \in 1 .. n |-> x], r) = Count(got, r) + (IF r = x THEN n ELSE 0)
      <4>1. n \in Nat /\ got \in Seq(Reply)
        BY <1>1, <1>2 DEF n
      <4> QED
        BY <4>1, UnitsAppend, ZenonT(30)
    <3>2. Units(r) = Count(got, r) /\ Units(r)' = Count(got', r)
      BY DEF Units, Count
    <3> QED
      BY <1>2, <3>1, <3>2 DEF n
  <2>2. Units(r) = bufSent[r] /\ bufSent[r] \in 0 .. Size
    BY DEF GotShape, TypeOK
  <2> QED
    BY <1>1, <2>1, <2>2, ReplyListAssumption
<1>4. \A j, k \in DOMAIN got' : j < k => got'[j] <= got'[k]
  <2>1. /\ Len(got) \in Nat /\ DOMAIN got = 1 .. Len(got)
        /\ DOMAIN got' = 1 .. (Len(got) + Fits(x))
        /\ \A k \in 1 .. Len(got) : got'[k] = got[k] /\ got[k] \in Reply
        /\ \A k \in (Len(got) + 1) .. (Len(got) + Fits(x)) : got'[k] = x
    BY <1>1, <1>2
  <2>2. Fits(x) > 0 => \A k \in DOMAIN got : got[k] <= x
    <3> SUFFICES ASSUME Fits(x) > 0, NEW k \in DOMAIN got, got[k] > x PROVE FALSE
      BY <2>1 DEF Reply
    <3>1. got[k] \in Reply /\ bufSent[got[k]] = 0
      BY <2>1
    <3> QED
      BY <3>1, NoUnits
  <2>3. \A j, k \in DOMAIN got : j < k => got[j] <= got[k]
    BY DEF GotShape
  <2> SUFFICES ASSUME NEW j \in DOMAIN got', NEW k \in DOMAIN got', j < k
               PROVE  got'[j] <= got'[k]
    OBVIOUS
  <2>4. CASE k <= Len(got)
    BY <2>1, <2>3, <2>4
  <2>5. CASE k > Len(got)
    <3>1. got'[k] = x /\ Fits(x) > 0
      BY <1>1, <2>1, <2>5
    <3>2. CASE j <= Len(got)
      BY <2>1, <2>2, <3>1, <3>2
    <3>3. CASE j > Len(got)
      <4>1. got'[j] = x
        BY <2>1, <3>3
      <4> QED
        BY <3>1, <4>1 DEF Reply
    <3> QED
      BY <2>1, <3>2, <3>3
  <2> QED
    BY <2>1, <2>4, <2>5
<1> QED
  BY <1>3, <1>4 DEF GotShape
\* With what was sent in shape, every step keeps what the socket took in order.
LEMMA GotStep ==
  ASSUME TypeInv, Shape, SentShape, GotShape, [Next]_vars
  PROVE  GotShape'
<1>1. CASE WorkerSends
  <2>1. rsp \in Reply /\ Write(rsp) /\ \A r \in Reply : r > rsp => bufSent[r] = 0
    BY <1>1 DEF WorkerSends, TypeInv, TypeOK, Link, SentShape, NothingAhead
  <2> QED
    BY <2>1, WriteGot DEF TypeInv
<1>2. CASE OutSend
  <2>1. item \in Reply /\ Write(item) /\ item = curr /\ item \in head .. tail /\ Alive
    BY <1>2, ReplyListAssumption
       DEF OutSend, TypeInv, TypeOK, Shape, CursorShape, Alive, Reply, Link, NULL, ALL_DONE
  <2>2. Fits(item) > 0 => bufSent[item] < Size
    BY <2>1, ReplyListAssumption DEF Fits, TypeInv, TypeOK
  <2>3. Fits(item) > 0 => \A r \in Reply : r > item => bufSent[r] = 0
    BY <2>1, <2>2 DEF SentShape, MissingIsLast
  <2> QED
    BY <2>1, <2>3, WriteGot DEF TypeInv
<1>3. ASSUME UNCHANGED <<got, bufSent>>
      PROVE  GotShape'
  BY <1>3 DEF GotShape, Units
<1>4. ASSUME ~ WorkerSends, ~ OutSend
      PROVE  UNCHANGED <<got, bufSent>>
  BY <1>4 DEF Next, WorkerContinues, Out, WorkerReplies, WorkerLooks, AddBegin, AddTest,
     AddUnlink, AddInsert, AddCheck, AddFree, WorkerArms, OutWakes, OutTop, OutPop, OutStore,
     OutDisarms, OutLooksAgain, ClientReads, vars, socketVars
<1> QED
  BY <1>1, <1>2, <1>3, <1>4

\* What was sent and taken is in shape in every behaviour of a build that loads the cursor
\* once.
LEMMA SentInvariant ==
  ASSUME MayReload = FALSE
  PROVE  Spec => [](TypeInv /\ Shape /\ SentShape /\ GotShape)
<1>1. Init => SentShape
  BY ReplyListAssumption
     DEF Init, SentShape, NothingAhead, PassedIsSent, MissingIsLast, PartialIsNext, Alive,
         Reply, NULL, ALL_DONE
<1>2. Init => GotShape
  <2> SUFFICES ASSUME Init PROVE GotShape
    OBVIOUS
  <2>1. \A r \in Reply : {k \in DOMAIN got : got[k] = r} = {} /\ bufSent[r] = 0
    BY DEF Init
  <2>2. \A r \in Reply : Units(r) = bufSent[r]
    BY <2>1, FS_EmptySet DEF Units
  <2> QED
    BY <2>2 DEF Init, GotShape
<1>3. TypeInv /\ Shape /\ SentShape /\ [Next]_vars => SentShape'
  BY SentStep
<1>4. TypeInv /\ Shape /\ SentShape /\ GotShape /\ [Next]_vars => GotShape'
  BY GotStep
<1> QED
  BY <1>1, <1>2, <1>3, <1>4, Invariant, PTL DEF Spec

\* The worker and tcp.output send on one socket without a lock, and what the client gets
\* is whole replies in the order of its requests: for any number and size of replies, any
\* send buffer, and whatever the two threads see of each other's cursor.
THEOREM RepliesAreWhole ==
  ASSUME MayReload = FALSE
  PROVE  Spec => []WholeAndInOrder
<1>1. ASSUME TypeInv, Shape, SentShape, GotShape
      PROVE  WholeAndInOrder
  <2>1. /\ Len(got) \in Nat /\ DOMAIN got = 1 .. Len(got)
        /\ \A k \in DOMAIN got : got[k] \in Reply
    BY <1>1 DEF TypeInv, TypeOK
  <2>2. \A r \in Reply : bufSent[r] \in 0 .. Size /\ Units(r) = bufSent[r]
    BY <1>1 DEF TypeInv, TypeOK, GotShape
  <2>3. ASSUME NEW r \in Reply, 0 < bufSent[r], bufSent[r] < Size, NEW q \in Reply, q > r
        PROVE  bufSent[q] = 0
    <3>1. CASE r = rsp
      BY <1>1, <2>3, <3>1 DEF SentShape, NothingAhead
    <3>2. CASE r # rsp
      <4>1. Alive /\ r \in head .. tail
        BY <1>1, <2>3, <3>2, ReplyListAssumption
           DEF SentShape, PartialIsNext, Shape, ListShape, CursorShape, Alive, TypeInv, TypeOK,
               Reply, Link, NULL, ALL_DONE
      <4> QED
        BY <1>1, <2>3, <4>1 DEF SentShape, MissingIsLast
    <3> QED
      BY <3>1, <3>2
  <2>4. ASSUME NEW k \in DOMAIN got, got[k] # got[Len(got)]
        PROVE  Units(got[k]) = Size
    <3>1. got[k] \in Reply /\ got[Len(got)] \in Reply /\ got[k] < got[Len(got)]
      BY <1>1, <2>1, <2>4 DEF GotShape, Reply
    <3>2. bufSent[got[k]] # 0 /\ bufSent[got[Len(got)]] # 0
      BY <1>1, <2>1, <3>1, NoUnits DEF TypeInv
    <3> QED
      BY <2>2, <2>3, <3>1, <3>2, ReplyListAssumption
  <2>5. ASSUME NEW k \in DOMAIN got
        PROVE  Units(got[k]) <= Size
    BY <2>1, <2>2, ReplyListAssumption
  <2> QED
    BY <1>1, <2>4, <2>5 DEF WholeAndInOrder, GotShape
<1> QED
  BY <1>1, SentInvariant, PTL
=============================================================================
