--------------------------- MODULE MCInlineServer ---------------------------
(* InlineServer with what the modules behind its connections may answer.   *)
EXTENDS InlineServer

CONSTANTS c1, c2

\* Everything for c1, while the module of c2 never asks to disconnect.
OneIsHealthy ==
  [c \in Conns |-> IF c = c1 THEN Answers ELSE {"reply", "silent"}]

FourAndThree == [c \in Conns |-> IF c = c1 THEN 4 ELSE 3]

\* Every request of c1 is answered, anything may come of that of c2.
ThreeAndOne == [c \in Conns |-> IF c = c1 THEN 3 ELSE 1]
OneIsAnswered == [c \in Conns |-> IF c = c1 THEN {"reply"} ELSE Answers]
=============================================================================
