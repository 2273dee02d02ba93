----------------------------- MODULE Scheduler -----------------------------
(***************************************************************************)
(* The daemon's task scheduler (rust/src/daemon/scheduler.rs): one timerfd *)
(* per task.  It is armed once for the staggered start, then periodically  *)
(* with the task's interval; a task that returns TaskBackoff has its timer *)
(* replaced by a one-shot.  Tasks run one at a time on the event loop, so  *)
(* each operation is one step.                                             *)
(***************************************************************************)
EXTENDS Naturals

CONSTANTS
    Tasks,
    OnDemand,      \* run_automation_now and run_status_now exist for these
    BackoffTasks,  \* run may return Err(TaskBackoff)
    Intervals,     \* the intervals Config::load can return, in seconds
    Delays,        \* the delays a TaskBackoff can carry
    InitialDelay,  \* the staggered start of each task
    MaxReloads     \* bound: configuration reloads in a behaviour

\* timerfd_settime with a zero it_value disarms.  Config::validate keeps every
\* interval, and backoff_init, at 5 or more.
ASSUME SchedulerAssumption ==
    /\ OnDemand \subseteq Tasks
    /\ BackoffTasks \subseteq Tasks
    /\ Intervals \subseteq Nat \ {0}
    /\ Delays \subseteq Nat \ {0}
    /\ InitialDelay \in [Tasks -> Nat \ {0}]
    /\ MaxReloads \in Nat

VARIABLES
    cfg,               \* the daemon's configuration, per task
    stagger_done,
    current_interval,
    timer,             \* what each timerfd is armed with
    expired,           \* the timerfd has an expiration nobody has read
    reloads

vars == <<cfg, stagger_done, current_interval, timer, expired, reloads>>

TaskConfigs == [enabled : BOOLEAN, interval : Intervals]
Timers      == [mode : {"oneshot", "periodic", "off"}, secs : Nat]

Off             == [mode |-> "off", secs |-> 0]
Arm(mode, secs) == IF secs = 0 THEN Off ELSE [mode |-> mode, secs |-> secs]

TypeOK ==
    /\ cfg \in [Tasks -> TaskConfigs]
    /\ stagger_done \in [Tasks -> BOOLEAN]
    /\ current_interval \in [Tasks -> Nat]
    /\ timer \in [Tasks -> Timers]
    /\ expired \in [Tasks -> BOOLEAN]
    /\ reloads \in 0 .. MaxReloads

Init ==
    /\ cfg \in [Tasks -> TaskConfigs]
    /\ stagger_done = [t \in Tasks |-> FALSE]
    /\ current_interval = [t \in Tasks |-> 0]
    /\ timer = [t \in Tasks |-> Arm("oneshot", InitialDelay[t])]
    /\ expired = [t \in Tasks |-> FALSE]
    /\ reloads = 0

\* The kernel: a one-shot timer is disarmed by its expiration, expirations of
\* a periodic one that nobody reads add up in one counter.
Expire(t) ==
    /\ timer[t].mode # "off" /\ ~expired[t]
    /\ expired' = [expired EXCEPT ![t] = TRUE]
    /\ timer' = [timer EXCEPT ![t] = IF @.mode = "oneshot" THEN Off ELSE @]
    /\ UNCHANGED <<cfg, stagger_done, current_interval, reloads>>

\* The timer once handle_timer has looked at stagger_done.
\* Mutants: the first period is shortened by the start delay; the periodic
\* timer is never set; it is set without it_interval.
StaggeredShort(t) ==
    IF stagger_done[t] THEN timer[t] ELSE Arm("periodic", cfg[t].interval - InitialDelay[t])
NeverPeriodic(t) == timer[t]
StaggeredOnce(t) ==
    IF stagger_done[t] THEN timer[t] ELSE Arm("oneshot", cfg[t].interval)
Staggered(t) ==
    IF stagger_done[t] THEN timer[t] ELSE Arm("periodic", cfg[t].interval)

HandleTimer(t) ==
    /\ expired[t]
    /\ expired' = [expired EXCEPT ![t] = FALSE]
    /\ stagger_done' = [stagger_done EXCEPT ![t] = TRUE]
    /\ current_interval' = [current_interval EXCEPT ![t] =
           IF stagger_done[t] THEN @ ELSE cfg[t].interval]
    /\ \/ timer' = [timer EXCEPT ![t] = Staggered(t)]  \* disabled, or run gave Ok
       \/ /\ cfg[t].enabled /\ t \in BackoffTasks
          /\ \E d \in Delays : timer' = [timer EXCEPT ![t] = Arm("oneshot", d)]
    /\ UNCHANGED <<cfg, reloads>>

\* run_automation_now and run_status_now.  Ok leaves the slot alone; a backoff
\* replaces its timer, and a new setting forgets unread expirations.
RunNowBackoff(t) ==
    /\ t \in OnDemand \cap BackoffTasks /\ cfg[t].enabled
    /\ \E d \in Delays : timer' = [timer EXCEPT ![t] = Arm("oneshot", d)]
    /\ expired' = [expired EXCEPT ![t] = FALSE]
    /\ UNCHANGED <<cfg, stagger_done, current_interval, reloads>>

\* Mutant: only a longer interval re-arms.
RearmedIfLonger(new) == {t \in Tasks : stagger_done[t] /\ new[t].interval > cfg[t].interval}
Rearmed(new) == {t \in Tasks : stagger_done[t] /\ new[t].interval # cfg[t].interval}

Reconfigure ==
    /\ reloads < MaxReloads
    /\ reloads' = reloads + 1
    /\ \E new \in [Tasks -> TaskConfigs] :
          /\ cfg' = new
          /\ current_interval' = [t \in Tasks |->
                 IF t \in Rearmed(new) THEN new[t].interval ELSE current_interval[t]]
          /\ timer' = [t \in Tasks |->
                 IF t \in Rearmed(new) THEN Arm("periodic", new[t].interval) ELSE timer[t]]
          /\ expired' = [t \in Tasks |-> expired[t] /\ t \notin Rearmed(new)]
    /\ UNCHANGED stagger_done

Next ==
    \/ \E t \in Tasks : Expire(t) \/ HandleTimer(t) \/ RunNowBackoff(t)
    \/ Reconfigure

Spec == Init /\ [][Next]_vars

\* Timers expire, and the event loop gets round to every readable descriptor.
FairSpec == Spec /\ \A t \in Tasks : WF_vars(Expire(t)) /\ WF_vars(HandleTimer(t))

-----------------------------------------------------------------------------
(***************************************************************************)
(* Properties.                                                             *)
(***************************************************************************)

\* Once a slot has started, the interval it recorded and the period its timer
\* runs with are the configured ones, whenever the reloads came.
PeriodFollowsConfig ==
    \A t \in Tasks :
        /\ stagger_done[t] => current_interval[t] = cfg[t].interval
        /\ timer[t].mode = "periodic" => timer[t].secs = cfg[t].interval

\* A slot goes silent (nothing armed, nothing to read) only after a backoff;
\* a task that never backs off, and any slot before its start, never does.
Silent(t) == timer[t].mode = "off" /\ ~expired[t]
SilentOnlyAfterBackoff ==
    \A t \in Tasks : Silent(t) => t \in BackoffTasks /\ stagger_done[t]

\* A task that never backs off is served for ever, through every reload.
ServedForever ==
    \A t \in Tasks \ BackoffTasks : []<><<HandleTimer(t)>>_vars
=============================================================================
