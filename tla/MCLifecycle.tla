---------------------------- MODULE MCLifecycle ----------------------------
(* Three starts and two stops: a leaving daemon, its successor, and one more *)
(* that meets the lock; stops that overlap with both.                        *)
EXTENDS Lifecycle
=============================================================================
