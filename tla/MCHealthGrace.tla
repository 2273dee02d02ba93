--------------------------- MODULE MCHealthGrace ---------------------------
(* The README's grace period against the one the code grants. *)
EXTENDS HealthGrace

MCConfigs == {[max_restarts |-> 1, backoff_init |-> 1, backoff_cap |-> 2, grace_period |-> 2]}
=============================================================================
