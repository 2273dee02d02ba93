--------------------------- MODULE HealthMonitor ---------------------------
(***************************************************************************)
(* The health check on its scheduler slot, in one life of the daemon:      *)
(* HealthTask::run (rust/src/daemon/tasks.rs) turns what check_once        *)
(* returned into a delay, and Scheduler::handle_timer re-arms the slot's   *)
(* timer with it.  The configuration of Health gets the two fields the     *)
(* slot reads, enabled and interval.                                       *)
(*                                                                         *)
(* A one-shot timer counts its seconds down, beside the seconds that the   *)
(* breaker counts; when a periodic one fires next is left open.            *)
(***************************************************************************)
EXTENDS Health

CONSTANTS
    InitialDelay,  \* staggered start of the health slot
    MaxReloads     \* bound: configuration reloads in a behaviour

ASSUME MonitorAssumption ==
    /\ \A c \in Configs : c.enabled \in BOOLEAN /\ c.interval \in Nat \ {0}
    /\ InitialDelay \in Nat \ {0}
    /\ MaxReloads \in Nat

VARIABLES
    stagger_done, current_interval, timer, expired, reloads,
    left,          \* seconds an armed one-shot has still to run
    early          \* history: the last backoff asked for is not what the slot waits for

slot        == <<stagger_done, current_interval, timer, expired, left>>
monitorVars == <<vars, slot, reloads, early>>

Off             == [mode |-> "off", secs |-> 0]
Arm(mode, secs) == IF secs = 0 THEN Off ELSE [mode |-> mode, secs |-> secs]

MonitorInit ==
    /\ Init
    /\ stagger_done = FALSE
    /\ current_interval = 0
    /\ timer = Arm("oneshot", InitialDelay)
    /\ expired = FALSE
    /\ reloads = 0
    /\ left = InitialDelay
    /\ early = FALSE

-----------------------------------------------------------------------------
Expire ==
    /\ timer.mode # "off" /\ left = 0 /\ ~expired
    /\ expired' = TRUE
    /\ timer' = IF timer.mode = "oneshot" THEN Off ELSE timer
    /\ UNCHANGED <<vars, stagger_done, current_interval, left, reloads, early>>

\* handle_timer up to the test of is_enabled, but for the timer itself.
Serve ==
    /\ expired
    /\ expired' = FALSE
    /\ stagger_done' = TRUE
    /\ current_interval' = IF stagger_done THEN current_interval ELSE cfg.interval
    /\ UNCHANGED reloads
Staggered == IF stagger_done THEN timer ELSE Arm("periodic", cfg.interval)

Skip ==
    /\ Serve /\ ~cfg.enabled
    /\ timer' = Staggered
    /\ UNCHANGED <<vars, left, early>>

\* HealthTask::run: Ok(false) with a restart counted becomes a TaskBackoff,
\* an error of check_once is swallowed.
BacksOff == result = "unhealthy" /\ restarts > 0
\* Mutants: the backoff of the state alone; that of the configuration alone; the
\* first wait taken off.
DelayOfState  == backoff
DelayOfConfig == cfg.backoff_init
DelayReduced  == backoff - cfg.backoff_init
Delay    == IF backoff > cfg.backoff_init THEN backoff ELSE cfg.backoff_init

Poll ==
    /\ Serve /\ cfg.enabled
    /\ Check
    /\ IF BacksOff'
       THEN timer' = Arm("oneshot", Delay') /\ left' = Delay'
       ELSE timer' = Staggered /\ UNCHANGED left
    /\ early' = (result' = "error" \/ (early /\ ~BacksOff'))

\* Mutant: slots that wait for their staggered start are re-armed too.
RearmsEarly(new) == new.interval # cfg.interval
Rearms(new) == stagger_done /\ new.interval # cfg.interval

\* A reload: sched.reconfigure, then config = new_config.
MonitorReload ==
    /\ reloads < MaxReloads
    /\ reloads' = reloads + 1
    /\ Reload
    /\ IF Rearms(cfg')
       THEN /\ current_interval' = cfg'.interval
            /\ timer' = Arm("periodic", cfg'.interval)
            /\ expired' = FALSE
            /\ left' = 0
            /\ early' = TRUE
            /\ UNCHANGED stagger_done
       ELSE UNCHANGED <<slot, early>>

Surroundings ==
    /\ EngineDies \/ EngineStarts \/ ModuleChanges
    /\ UNCHANGED <<slot, reloads, early>>

MonitorClockJump == ClockJump /\ early' = TRUE /\ UNCHANGED <<slot, reloads>>

\* A second passes for the timer and, up to their caps, for the breaker and the
\* grace period.
MonitorTick ==
    /\ \/ Tick
       \/ elapsed = AgeCap /\ uptime = UptimeCap /\ UNCHANGED vars
    /\ left' = IF left > 0 THEN left - 1 ELSE 0
    /\ UNCHANGED <<stagger_done, current_interval, timer, expired, reloads, early>>

\* The phone sleeps: the timers' CLOCK_MONOTONIC stands still.
Sleep == Tick /\ UNCHANGED <<slot, reloads, early>>

MonitorNext ==
    \/ Expire \/ Skip \/ Poll \/ MonitorReload
    \/ Surroundings \/ MonitorClockJump \/ MonitorTick \/ Sleep

MonitorSpec == MonitorInit /\ [][MonitorNext]_monitorVars

\* Timers expire, the event loop serves a readable timerfd, time passes.
FairMonitorSpec ==
    /\ MonitorSpec
    /\ WF_monitorVars(Expire)
    /\ WF_monitorVars(Skip \/ Poll)
    /\ WF_monitorVars(MonitorTick)

-----------------------------------------------------------------------------
(***************************************************************************)
(* Properties.                                                             *)
(***************************************************************************)

\* Among them: seconds are left only to a one-shot that is armed and has not
\* expired, and no more than it was armed with.
MonitorTypeOK ==
    /\ TypeOK
    /\ stagger_done \in BOOLEAN
    /\ current_interval \in Nat
    /\ timer \in {Off} \cup [mode : {"oneshot", "periodic"}, secs : Nat \ {0}]
    /\ expired \in BOOLEAN
    /\ reloads \in 0 .. MaxReloads
    /\ left \in Nat
    /\ left > 0 => timer.mode = "oneshot" /\ left <= timer.secs /\ ~expired
    /\ early \in BOOLEAN

\* The slot behaves as a slot of the scheduler whose one task may back off.
ToSlot(v) == [t \in {"health"} |-> v]
Sched == INSTANCE Scheduler WITH
    Tasks            <- {"health"},
    OnDemand         <- {},
    BackoffTasks     <- {"health"},
    Intervals        <- {c.interval : c \in Configs},
    Delays           <- 1 .. AgeCap,
    InitialDelay     <- ToSlot(InitialDelay),
    cfg              <- ToSlot([enabled |-> cfg.enabled, interval |-> cfg.interval]),
    stagger_done     <- ToSlot(stagger_done),
    current_interval <- ToSlot(current_interval),
    timer            <- ToSlot(timer),
    expired          <- ToSlot(expired)
ImplementsScheduler == Sched!Spec

\* A poll finds the breaker open before its backoff is over only if, since the
\* last backoff was asked for, the wall clock was set, a reload changed the
\* interval, which re-arms the slot, or a poll could not write its state: check_once
\* then fails and HealthTask::run asks for no delay.
OpenBreakerWaits ==
    [][Poll /\ module = "named" /\ circuit = "Open" => BackoffElapsed \/ early]_monitorVars

\* As long as monitoring stays enabled and the engine is the named one, the slot
\* of an engine reported unhealthy fires again.  A dead engine whose poll failed
\* to write is not reported so, and its slot may be silent from then on.
UnhealthyIsRechecked ==
    [](cfg.enabled /\ module = "named") => (result = "unhealthy" ~> expired)

\* README.md:82, "polls every 10s, detects TEESimulator or TrickyStore, restarts
\* if dead": with monitoring enabled, an engine installed and every write of
\* .health_state succeeding, the engine is polled for ever.
PollsForever ==
    [](cfg.enabled /\ module = "named" /\ result # "error") => []<><<Poll>>_monitorVars
=============================================================================
