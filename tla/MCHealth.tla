------------------------------ MODULE MCHealth ------------------------------
(* Health with two configurations: the second allows fewer restarts, waits   *)
(* longer after boot, and has backoff_cap below backoff_init, which          *)
(* Config::validate accepts.                                                 *)
EXTENDS Health

Patient == [max_restarts |-> 2, backoff_init |-> 1, backoff_cap |-> 2, grace_period |-> 1]
Hasty   == [max_restarts |-> 1, backoff_init |-> 2, backoff_cap |-> 1, grace_period |-> 2]
MCConfigs == {Patient, Hasty}
=============================================================================
