---------------------------- MODULE HealthGrace ----------------------------
(***************************************************************************)
(* Health with a history variable: for how long the engine's process has   *)
(* been missing.  It measures the grace period the README promises, which  *)
(* within_grace_period counts from boot.                                   *)
(***************************************************************************)
EXTENDS Health

VARIABLE deadFor    \* seconds without the process, capped at UptimeCap

graceVars == <<vars, deadFor>>

GraceInit == Init /\ deadFor = 0

Passing == Tick /\ deadFor' = IF alive THEN 0 ELSE Capped(deadFor + 1, UptimeCap)
Instant ==
    /\ Check \/ EngineDies \/ EngineStarts
    /\ deadFor' = IF alive' THEN 0 ELSE deadFor

GraceSpec == GraceInit /\ [][Passing \/ Instant]_graceVars

\* README.md:83, "5s window for the engine's internal restart loop before
\* intervening": the daemon restarts only an engine that has been gone for the
\* grace period.
GraceBeforeRestart == [][restarts' > restarts => deadFor >= cfg.grace_period]_graceVars
=============================================================================
