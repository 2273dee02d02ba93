-------------------------- MODULE MCHealthMonitor --------------------------
(* The monitor under three configurations that differ only in what the slot *)
(* reads, so the limits of the breaker stay the same through every reload.  *)
EXTENDS HealthMonitor

Limits(on, secs) ==
    [max_restarts |-> 1, backoff_init |-> 1, backoff_cap |-> 2, grace_period |-> 1,
     enabled |-> on, interval |-> secs]
MCConfigs == {Limits(TRUE, 3), Limits(TRUE, 4), Limits(FALSE, 3)}
MCEnabled == {Limits(TRUE, 3)}
=============================================================================
