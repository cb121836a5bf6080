---------------------------- MODULE MCLifecycle ----------------------------
(* Instances of Lifecycle for TLC. *)
EXTENDS Lifecycle

\* Two workers: one may fail while the other runs, and they are joined one by one.
MCNum == [c \in Threaded |-> IF c = "worker" THEN 2 ELSE 1]

Ini(ports, disabled) == [ports |-> ports, disabled |-> disabled]

\* The disabled parts of the shipped grocketd.ini, all threads, and UDP, whose output
\* thread exits at once.
MCConfigs ==
  {Ini({"tcp"}, {"out", "worker"}), Ini({"tcp"}, {}), Ini({"udp"}, {"worker"})}
=============================================================================
