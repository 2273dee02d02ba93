---------------------------- MODULE MCScheduler ----------------------------
(* Three of the five slots: one that is also run on demand, one that backs  *)
(* off, and one (status, in a variant where it may) that does both.         *)
EXTENDS Scheduler

MCInitialDelay == [t \in Tasks |-> 3]
=============================================================================
