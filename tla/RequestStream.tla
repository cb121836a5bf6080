--------------------------- MODULE RequestStream ---------------------------
(***************************************************************************)
(* What a single-writer / single-reader request list promises its two      *)
(* users, without its pointers: requests are numbered in the order they    *)
(* are handed in, the reader holds at most one of them at a time, and the  *)
(* memory of a request is given back by the writer.                        *)
(*                                                                         *)
(* With Exact = TRUE this is the contract the comments of gr_worker.c and  *)
(* gr_conn.h describe: every request is taken once, in order, and only     *)
(* requests that were taken are given back.  With Exact = FALSE it is the  *)
(* weaker contract the code keeps when its two sides run in two threads:   *)
(* the reader never holds memory that was given back and never jumps over  *)
(* a request that is still there, but it may be sent back to requests it   *)
(* took before, and a request may be given back before it was taken.       *)
(***************************************************************************)
EXTENDS Integers

CONSTANT Exact   \* a BOOLEAN: the contract of the comments, or the weaker one

VARIABLES
  last,       \* how many requests were handed in
  pos,        \* the request taken last, 0 before the first
  held,       \* the request the reader is working on, 0 when it has none
  reclaimed   \* the requests whose memory was given back

vars == <<last, pos, held, reclaimed>>

Init ==
  /\ last = 0
  /\ pos = 0
  /\ held = 0
  /\ reclaimed = {}

HandIn ==
  /\ last' = last + 1
  /\ UNCHANGED <<pos, held, reclaimed>>

Take(n) ==
  /\ held = 0
  /\ n \notin reclaimed
  /\ IF Exact THEN n = pos + 1 ELSE (pos + 1)..(n - 1) \subseteq reclaimed
  /\ held' = n
  /\ pos' = n
  /\ UNCHANGED <<last, reclaimed>>

Finish ==
  /\ held # 0
  /\ held' = 0
  /\ UNCHANGED <<last, pos, reclaimed>>

Reclaim(n) ==
  /\ n \notin reclaimed
  /\ held # 0 => n < held
  /\ Exact => n <= pos
  /\ reclaimed' = reclaimed \cup {n}
  /\ UNCHANGED <<last, pos, held>>

Next ==
  \/ HandIn
  \/ \E n \in 1..last : Take(n) \/ Reclaim(n)
  \/ Finish

Spec == Init /\ [][Next]_vars
=============================================================================
