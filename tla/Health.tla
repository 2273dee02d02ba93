------------------------------- MODULE Health -------------------------------
(***************************************************************************)
(* The attestation-engine health check (rust/src/health/mod.rs): one call  *)
(* of check_once looks for the engine's process, restarts it when it is    *)
(* gone, and gives up behind a circuit breaker after max_restarts tries.   *)
(*                                                                         *)
(* Time appears as the two differences the code computes.  `elapsed' is    *)
(* now.saturating_sub(last_restart) and `uptime' is now - btime.  Both are *)
(* capped, at AgeCap and UptimeCap: they are only ever compared with a     *)
(* backoff or a grace period, and those never exceed the caps.             *)
(***************************************************************************)
EXTENDS Naturals

CONSTANTS
    Configs,    \* the [health] sections Config::load can return
    AgeCap,     \* cap of elapsed, at least every backoff
    UptimeCap,  \* cap of uptime, at least every grace period
    MaxJumps,   \* bound: corrections of the wall clock in a behaviour
    NoState     \* .health_state does not exist

\* Config::validate raises every one of these fields to a minimum above 0.
ASSUME ConfigsAssumption ==
    \A c \in Configs :
        /\ c.max_restarts \in Nat \ {0}
        /\ c.backoff_init \in 1 .. AgeCap
        /\ c.backoff_cap \in 1 .. AgeCap
        /\ c.grace_period \in 1 .. UptimeCap

ASSUME BoundsAssumption == AgeCap \in Nat /\ UptimeCap \in Nat /\ MaxJumps \in Nat

VARIABLES
    module,     \* what is installed under /data/adb/modules
    alive,      \* pidof finds the engine's process
    elapsed,    \* seconds since last_restart, saturating, capped
    uptime,     \* seconds since boot, capped
    jumps,      \* wall-clock corrections so far
    cfg,        \* the daemon's [health] section
    status,     \* HealthState.status ...
    pid,        \* ... whether pid is Some
    restarts,
    circuit,
    backoff,    \* HealthState.backoff_secs
    disk,       \* the HealthState in .health_state
    result      \* what the last check_once returned

environment == <<module, alive, uptime, jumps, cfg>>
memory      == <<status, pid, restarts, circuit, backoff>>
vars        == <<environment, elapsed, memory, disk, result>>

\* "named": service.sh passes --nice-name.  "on" and "off": it does not, and
\* the module's disable file is absent or present.
ModuleKinds    == {"absent", "on", "off", "named"}
EngineStatus   == {"Running", "Restarting", "Restarted", "Failed", "Unknown"}
CircuitState   == {"Closed", "Open", "HalfOpen"}
Results        == {"none", "healthy", "unhealthy", "error"}
HealthStates   == [status : EngineStatus, pid : BOOLEAN, restarts : Nat,
                   circuit : CircuitState, backoff : 0 .. AgeCap]

ASSUME NoStateAssumption == NoState \notin HealthStates

HealthState == [status |-> status, pid |-> pid, restarts |-> restarts,
                circuit |-> circuit, backoff |-> backoff]

Capped(n, cap) == IF n > cap THEN cap ELSE n

TypeOK ==
    /\ module \in ModuleKinds
    /\ alive \in BOOLEAN
    /\ elapsed \in 0 .. AgeCap
    /\ uptime \in 0 .. UptimeCap
    /\ jumps \in 0 .. MaxJumps
    /\ cfg \in Configs
    /\ status \in EngineStatus
    /\ pid \in BOOLEAN
    /\ restarts \in Nat
    /\ circuit \in CircuitState
    /\ backoff \in 0 .. AgeCap
    /\ disk \in HealthStates \cup {NoState}
    /\ result \in Results

-----------------------------------------------------------------------------
Init ==
    /\ module \in ModuleKinds
    /\ alive \in BOOLEAN
    /\ uptime = 0
    /\ jumps = 0
    /\ cfg \in Configs
    \* HealthState::default: last_restart is 0, decades before now
    /\ status = "Unknown"
    /\ pid = FALSE
    /\ restarts = 0
    /\ circuit = "Closed"
    /\ backoff = 0
    /\ elapsed = AgeCap
    /\ disk = NoState
    /\ result = "none"

-----------------------------------------------------------------------------
(***************************************************************************)
(* check_once, one definition per way through it.                          *)
(***************************************************************************)

\* write_state(state)?; Ok(healthy).  When the write fails check_once returns
\* Err, after the change in memory.
Report(healthy) ==
    \/ /\ disk' = HealthState'
       /\ result' = IF healthy THEN "healthy" ELSE "unhealthy"
    \/ /\ UNCHANGED disk
       /\ result' = "error"

\* Mutant: the doubled backoff is not capped.
UncappedBackoff == IF backoff = 0 THEN cfg.backoff_init ELSE backoff * 2
next_backoff ==
    IF backoff = 0 THEN cfg.backoff_init ELSE Capped(backoff * 2, cfg.backoff_cap)

\* Mutant: measured from last_check, which check_once has just set to now.
ElapsedSinceCheck == 0 >= backoff
BackoffElapsed == elapsed >= backoff

CheckAbsent ==
    /\ module = "absent"
    /\ result' = "healthy"
    /\ UNCHANGED <<environment, elapsed, memory, disk>>

CheckUnnamed ==
    /\ module \in {"on", "off"}
    /\ status' = IF module = "on" THEN "Running" ELSE "Unknown"
    /\ pid' = FALSE
    /\ UNCHANGED <<environment, elapsed, restarts, circuit, backoff>>
    /\ Report(module = "on")

\* Mutant: the early return does not write.
StayOpenUnwritten ==
    /\ module = "named"
    /\ circuit = "Open" /\ ~BackoffElapsed
    /\ result' = "unhealthy"
    /\ UNCHANGED <<environment, elapsed, memory, disk>>

StayOpen ==
    /\ module = "named"
    /\ circuit = "Open" /\ ~BackoffElapsed
    /\ UNCHANGED <<environment, elapsed, memory>>
    /\ Report(FALSE)

\* Mutant: closing the breaker leaves the backoff behind.
ProbeAliveKeepsBackoff ==
    /\ module = "named"
    /\ circuit = "HalfOpen" /\ alive
    /\ circuit' = "Closed"
    /\ restarts' = 0
    /\ status' = "Running"
    /\ pid' = TRUE
    /\ UNCHANGED <<environment, elapsed, backoff>>
    /\ Report(TRUE)

\* Mutant: closing the breaker is reported as a restart that worked.
ProbeAliveAsRestart ==
    /\ module = "named"
    /\ circuit = "HalfOpen" /\ alive
    /\ circuit' = "Closed"
    /\ restarts' = 0
    /\ backoff' = 0
    /\ status' = "Restarted"
    /\ pid' = TRUE
    /\ UNCHANGED <<environment, elapsed>>
    /\ Report(TRUE)

ProbeAlive ==
    /\ module = "named"
    /\ circuit = "HalfOpen" /\ alive
    /\ circuit' = "Closed"
    /\ restarts' = 0
    /\ backoff' = 0
    /\ status' = "Running"
    /\ pid' = TRUE
    /\ UNCHANGED <<environment, elapsed>>
    /\ Report(TRUE)

ProbeDead ==
    /\ module = "named"
    /\ circuit = "HalfOpen" /\ ~alive
    /\ circuit' = "Open"
    /\ backoff' = next_backoff
    /\ elapsed' = 0
    /\ status' = "Failed"
    /\ UNCHANGED <<environment, pid, restarts>>
    /\ Report(FALSE)

\* The code below the match on state.circuit: reached with the breaker closed,
\* or open and just turned half-open.
PastBreaker ==
    /\ module = "named"
    /\ circuit = "Closed" \/ (circuit = "Open" /\ BackoffElapsed)
CircuitPast == IF circuit = "Closed" THEN "Closed" ELSE "HalfOpen"

WithinGracePeriod == uptime < cfg.grace_period

\* Mutant: one restart too many.
PastMaximum == restarts > cfg.max_restarts
MaxRestartsReached == restarts >= cfg.max_restarts

SeenAlive ==
    /\ PastBreaker /\ alive
    /\ circuit' = CircuitPast
    /\ status' = IF status = "Restarting" THEN "Restarted" ELSE "Running"
    /\ pid' = TRUE
    /\ UNCHANGED <<environment, elapsed, restarts, backoff>>
    /\ Report(TRUE)

InGrace ==
    /\ PastBreaker /\ ~alive /\ WithinGracePeriod
    /\ circuit' = CircuitPast
    /\ status' = "Unknown"
    /\ UNCHANGED <<environment, elapsed, pid, restarts, backoff>>
    /\ Report(TRUE)

\* Mutant: opening the breaker starts the count afresh.
TripForgets ==
    /\ PastBreaker /\ ~alive /\ ~WithinGracePeriod
    /\ MaxRestartsReached
    /\ circuit' = "Open"
    /\ restarts' = 0
    /\ backoff' = cfg.backoff_init
    /\ elapsed' = 0
    /\ status' = "Failed"
    /\ UNCHANGED <<environment, pid>>
    /\ Report(FALSE)

Trip ==
    /\ PastBreaker /\ ~alive /\ ~WithinGracePeriod
    /\ MaxRestartsReached
    /\ circuit' = "Open"
    /\ backoff' = cfg.backoff_init
    /\ elapsed' = 0
    /\ status' = "Failed"
    /\ UNCHANGED <<environment, pid, restarts>>
    /\ Report(FALSE)

\* restart_engine: killall, then service.sh, whose exit code decides ok.  The
\* process may or may not be up when it returns.
Restart ==
    /\ PastBreaker /\ ~alive /\ ~WithinGracePeriod
    /\ ~MaxRestartsReached
    /\ circuit' = CircuitPast
    /\ restarts' = restarts + 1
    /\ elapsed' = 0
    /\ \E ok \in BOOLEAN : status' = IF ok THEN "Restarting" ELSE "Failed"
    /\ alive' \in BOOLEAN
    /\ UNCHANGED <<module, uptime, jumps, cfg, pid, backoff>>
    /\ Report(FALSE)

Check ==
    \/ CheckAbsent \/ CheckUnnamed \/ StayOpen \/ ProbeAlive \/ ProbeDead
    \/ SeenAlive \/ InGrace \/ Trip \/ Restart

-----------------------------------------------------------------------------
(***************************************************************************)
(* What happens around the check.                                          *)
(***************************************************************************)

EngineDies ==
    /\ alive
    /\ alive' = FALSE
    /\ UNCHANGED <<module, uptime, jumps, cfg, elapsed, memory, disk, result>>

\* The engine's own restart loop, its module's service.sh, or the user.
EngineStarts ==
    /\ ~alive
    /\ alive' = TRUE
    /\ UNCHANGED <<module, uptime, jumps, cfg, elapsed, memory, disk, result>>

ModuleChanges ==
    /\ module' \in ModuleKinds \ {module}
    /\ UNCHANGED <<alive, uptime, jumps, cfg, elapsed, memory, disk, result>>

Tick ==
    /\ elapsed < AgeCap \/ uptime < UptimeCap
    /\ elapsed' = Capped(elapsed + 1, AgeCap)
    /\ uptime' = Capped(uptime + 1, UptimeCap)
    /\ UNCHANGED <<module, alive, jumps, cfg, memory, disk, result>>

\* The wall clock is set.  /proc/stat's btime moves with it, so uptime does
\* not change; last_restart stays, so elapsed becomes anything (0 when the
\* subtraction saturates).
ClockJump ==
    /\ jumps < MaxJumps
    /\ jumps' = jumps + 1
    /\ elapsed' \in 0 .. AgeCap
    /\ UNCHANGED <<module, alive, uptime, cfg, memory, disk, result>>

Reload ==
    /\ cfg' \in Configs \ {cfg}
    /\ UNCHANGED <<module, alive, uptime, jumps, elapsed, memory, disk, result>>

\* The daemon dies and is started again: HealthTask::new takes the default
\* state and never reads .health_state.
DaemonRestart ==
    /\ status' = "Unknown"
    /\ pid' = FALSE
    /\ restarts' = 0
    /\ circuit' = "Closed"
    /\ backoff' = 0
    /\ elapsed' = AgeCap
    /\ result' = "none"
    /\ UNCHANGED <<environment, disk>>

Environment ==
    \/ EngineDies \/ EngineStarts \/ ModuleChanges
    \/ Tick \/ ClockJump \/ Reload \/ DaemonRestart

Next == Check \/ Environment

Spec == Init /\ [][Next]_vars

\* The scheduler keeps calling check_once, and time passes.
FairSpec == Spec /\ WF_vars(Check) /\ WF_vars(Tick)

\* No edit of max_restarts.
FixedSpec == Init /\ [][Next /\ cfg'.max_restarts = cfg.max_restarts]_vars

-----------------------------------------------------------------------------
(***************************************************************************)
(* Properties.                                                             *)
(***************************************************************************)

\* A backoff is set exactly while the breaker is not closed, and then at least
\* one restart is counted: HealthTask::run asks for a delay only when
\* restarts > 0, so this is what makes it wait at an open breaker.
BreakerMemory ==
    /\ circuit = "Closed" <=> backoff = 0
    /\ circuit # "Closed" => restarts > 0

\* A restart that .health_state (the WebUI's source) or the daemon's memory
\* reports as under way or successful is also counted there.
Counted(s) == s.status \in {"Restarting", "Restarted"} => s.restarts > 0
ReportedRestartIsCounted ==
    /\ Counted(HealthState)
    /\ disk # NoState => Counted(disk)

\* Every way out of check_once that returns Ok for an installed engine has
\* written the state it leaves in memory, so the file is never older than it.
OkMeansWritten ==
    [][Check /\ module # "absent" /\ result' # "error" => disk' = HealthState']_vars

\* An engine that stays up is believed again in the end, whatever the breaker
\* did before, even across clock corrections, failed writes and reloads, as
\* long as check_once keeps being called.
BreakerRecovers ==
    <>[](module = "named" /\ alive) =>
        /\ <>[](circuit = "Closed")
        /\ []<>(status \in {"Running", "Restarted"})

\* As long as max_restarts is not edited, no more than max_restarts restarts are made
\* until a half-open probe has seen the engine alive, ...
RestartBudget ==
    /\ restarts <= cfg.max_restarts
    /\ circuit # "Closed" => restarts = cfg.max_restarts

\* ... and none at all while the breaker is not closed: half-open only looks.
NoRestartBehindBreaker ==
    [][restarts' > restarts => circuit = "Closed"]_vars
=============================================================================
