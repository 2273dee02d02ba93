---------------------------- MODULE HealthProofs ----------------------------
(* Safety of the health check, alone and on its slot of the scheduler, for   *)
(* every set of configurations that Config::validate lets through and every  *)
(* value of the bounds.                                                      *)
EXTENDS HealthMonitor, TLAPS

\* A doubled, capped or initial backoff is a backoff, and never 0.
LEMMA NextBackoff ==
    ASSUME TypeOK
    PROVE  next_backoff \in 1 .. AgeCap
<1>1. cfg.backoff_init \in 1 .. AgeCap /\ cfg.backoff_cap \in 1 .. AgeCap
  BY ConfigsAssumption DEF TypeOK
<1>2. CASE backoff = 0
  BY <1>1, <1>2 DEF next_backoff
<1>3. CASE backoff # 0
  <2>1. backoff * 2 \in Nat \ {0}
    BY <1>3, BoundsAssumption DEF TypeOK
  <2>2. Capped(backoff * 2, cfg.backoff_cap) \in 1 .. AgeCap
    BY <1>1, <2>1, BoundsAssumption DEF Capped
  <2> QED
    BY <1>3, <2>2 DEF next_backoff
<1> QED
  BY <1>2, <1>3

\* What a cap lets through.
LEMMA CappedRange ==
    ASSUME NEW n \in Nat, NEW cap \in Nat
    PROVE  Capped(n, cap) \in 0 .. cap
BY DEF Capped

\* Report writes the state in memory, or leaves the file as it is.
LEMMA ReportType ==
    ASSUME TypeOK, HealthState' \in HealthStates,
           NEW healthy \in BOOLEAN, Report(healthy)
    PROVE  disk' \in HealthStates \cup {NoState} /\ result' \in Results
BY DEF Report, TypeOK, Results

-----------------------------------------------------------------------------
\* The part of TypeOK that is about memory, in the form every check leaves.
MemoryOK ==
    /\ status \in EngineStatus
    /\ pid \in BOOLEAN
    /\ restarts \in Nat
    /\ circuit \in CircuitState
    /\ backoff \in 0 .. AgeCap

LEMMA MemoryIsState ==
    ASSUME MemoryOK
    PROVE  HealthState \in HealthStates
BY DEF MemoryOK, HealthState, HealthStates

\* A check leaves a state of the right type in memory.
LEMMA CheckKeepsMemoryType ==
    ASSUME TypeOK, Check
    PROVE  MemoryOK'
<1> USE DEF TypeOK, MemoryOK, memory, EngineStatus, CircuitState
<1>1. CASE CheckAbsent  BY <1>1 DEF CheckAbsent
<1>2. CASE CheckUnnamed BY <1>2 DEF CheckUnnamed
<1>3. CASE StayOpen     BY <1>3 DEF StayOpen
<1>4. CASE ProbeAlive   BY <1>4, BoundsAssumption DEF ProbeAlive
<1>5. CASE ProbeDead
  BY <1>5, NextBackoff, BoundsAssumption DEF ProbeDead
<1>6. CASE SeenAlive    BY <1>6 DEF SeenAlive, CircuitPast
<1>7. CASE InGrace      BY <1>7 DEF InGrace, CircuitPast
<1>8. CASE Trip
  <2>1. cfg.backoff_init \in 0 .. AgeCap
    BY ConfigsAssumption, BoundsAssumption
  <2> QED
    BY <1>8, <2>1 DEF Trip
<1>9. CASE Restart      BY <1>9 DEF Restart, CircuitPast
<1> QED
  BY <1>1, <1>2, <1>3, <1>4, <1>5, <1>6, <1>7, <1>8, <1>9 DEF Check

\* A check writes nothing else to the file.
LEMMA CheckKeepsDiskType ==
    ASSUME TypeOK, Check
    PROVE  disk' \in HealthStates \cup {NoState} /\ result' \in Results
<1>1. HealthState' \in HealthStates
  BY CheckKeepsMemoryType, MemoryIsState DEF MemoryOK, HealthState, HealthStates
<1>2. CASE CheckAbsent
  BY <1>2 DEF CheckAbsent, TypeOK, Results
<1>3. CASE ~CheckAbsent
  <2>1. PICK healthy \in BOOLEAN : Report(healthy)
    BY <1>3 DEF Check, CheckUnnamed, StayOpen, ProbeAlive, ProbeDead,
                SeenAlive, InGrace, Trip, Restart
  <2> QED
    BY <1>1, <2>1, ReportType
<1> QED
  BY <1>2, <1>3

\* TypeOK is inductive.
LEMMA TypeStep ==
    ASSUME TypeOK, [Next]_vars
    PROVE  TypeOK'
<1> USE BoundsAssumption DEF TypeOK
<1>1. CASE Check
  <2>1. MemoryOK' /\ disk' \in HealthStates \cup {NoState} /\ result' \in Results
    BY <1>1, CheckKeepsMemoryType, CheckKeepsDiskType
  <2>2. UNCHANGED <<module, uptime, jumps, cfg>>
    BY <1>1 DEF Check, CheckAbsent, CheckUnnamed, StayOpen, ProbeAlive, ProbeDead,
                SeenAlive, InGrace, Trip, Restart, environment
  <2>3. alive' \in {alive, TRUE, FALSE}
    BY <1>1 DEF Check, CheckAbsent, CheckUnnamed, StayOpen, ProbeAlive, ProbeDead,
                SeenAlive, InGrace, Trip, Restart, environment
  <2>4. elapsed' \in {elapsed, 0}
    BY <1>1 DEF Check, CheckAbsent, CheckUnnamed, StayOpen, ProbeAlive, ProbeDead,
                SeenAlive, InGrace, Trip, Restart, environment
  <2>5. alive' \in BOOLEAN
    BY <2>3, Zenon
  <2>6. elapsed' \in 0 .. AgeCap
    BY <2>4
  <2> QED
    BY <2>1, <2>2, <2>5, <2>6, Zenon DEF MemoryOK
<1>2. CASE EngineDies    BY <1>2 DEF EngineDies, memory
<1>3. CASE EngineStarts  BY <1>3 DEF EngineStarts, memory
<1>4. CASE ModuleChanges BY <1>4 DEF ModuleChanges, memory
<1>5. CASE Tick
  <2>1. elapsed + 1 \in Nat /\ uptime + 1 \in Nat
    OBVIOUS
  <2>2. Capped(elapsed + 1, AgeCap) \in 0 .. AgeCap
    BY <2>1, CappedRange
  <2>3. Capped(uptime + 1, UptimeCap) \in 0 .. UptimeCap
    BY <2>1, CappedRange
  <2> QED
    BY <1>5, <2>2, <2>3 DEF Tick, memory
<1>6. CASE ClockJump     BY <1>6 DEF ClockJump, memory
<1>7. CASE Reload        BY <1>7 DEF Reload, memory
<1>8. CASE DaemonRestart
  <2>1. 0 \in 0 .. AgeCap /\ AgeCap \in 0 .. AgeCap /\ 0 \in Nat
    OBVIOUS
  <2> QED
    BY <1>8, <2>1, Zenon DEF DaemonRestart, environment, EngineStatus, CircuitState, Results
<1>9. CASE UNCHANGED vars
  BY <1>9 DEF vars, environment, memory
<1> QED
  BY <1>1, <1>2, <1>3, <1>4, <1>5, <1>6, <1>7, <1>8, <1>9 DEF Next, Environment

LEMMA TypeInit == Init => TypeOK
<1>1. /\ 0 \in 0 .. AgeCap /\ AgeCap \in 0 .. AgeCap /\ 0 \in Nat
      /\ 0 \in 0 .. UptimeCap /\ 0 \in 0 .. MaxJumps
  BY BoundsAssumption
<1> QED
  BY <1>1, Zenon DEF Init, TypeOK, EngineStatus, CircuitState, Results

\* Every state of the health check, in memory and in .health_state, is one
\* HealthState can hold: no backoff grows past the cap, whatever was reloaded.
THEOREM TypeCorrect == Spec => []TypeOK
<1>1. TypeOK /\ [Next]_vars => TypeOK'
  BY TypeStep
<1> QED
  BY TypeInit, <1>1, PTL DEF Spec

-----------------------------------------------------------------------------
\* A breaker that is not closed remembers a backoff and a restart.
LEMMA BreakerStep ==
    ASSUME TypeOK, BreakerMemory, [Next]_vars
    PROVE  BreakerMemory'
<1> USE DEF BreakerMemory
<1>1. CASE CheckAbsent   BY <1>1 DEF CheckAbsent, memory
<1>2. CASE CheckUnnamed  BY <1>2 DEF CheckUnnamed
<1>3. CASE StayOpen      BY <1>3 DEF StayOpen, memory
<1>4. CASE ProbeAlive    BY <1>4 DEF ProbeAlive
<1>5. CASE ProbeDead
  BY <1>5, NextBackoff, BoundsAssumption DEF ProbeDead
<1>6. CASE SeenAlive     BY <1>6 DEF SeenAlive, CircuitPast, PastBreaker
<1>7. CASE InGrace       BY <1>7 DEF InGrace, CircuitPast, PastBreaker
<1>8. CASE Trip
  <2>1. cfg.backoff_init # 0 /\ restarts > 0
    BY <1>8, ConfigsAssumption, BoundsAssumption DEF Trip, MaxRestartsReached, TypeOK
  <2> QED
    BY <1>8, <2>1 DEF Trip
<1>9. CASE Restart
  <2>1. restarts + 1 > 0
    BY DEF TypeOK
  <2> QED
    BY <1>9, <2>1 DEF Restart, CircuitPast, PastBreaker
<1>10. CASE DaemonRestart
  BY <1>10 DEF DaemonRestart
<1>11. CASE UNCHANGED memory
  BY <1>11 DEF memory
<1>12. Environment \/ UNCHANGED vars => DaemonRestart \/ UNCHANGED memory
  BY DEF Environment, EngineDies, EngineStarts, ModuleChanges, Tick, ClockJump, Reload, vars
<1> QED
  BY <1>1, <1>2, <1>3, <1>4, <1>5, <1>6, <1>7, <1>8, <1>9, <1>10, <1>11, <1>12 DEF Next, Check

\* HealthTask::run never polls an open breaker at the normal interval for want
\* of a counted restart.
THEOREM BreakerRemembers == Spec => []BreakerMemory
<1>1. Init => BreakerMemory
  BY DEF Init, BreakerMemory
<1>2. TypeOK /\ BreakerMemory /\ [Next]_vars => BreakerMemory'
  BY BreakerStep
<1> QED
  BY <1>1, <1>2, TypeCorrect, PTL DEF Spec

-----------------------------------------------------------------------------
\* A check that ends with a restart under way, or seen to have worked, has it
\* counted in memory.
MemoryCounted == status \in {"Restarting", "Restarted"} => restarts > 0

LEMMA MemoryCountedStep ==
    ASSUME TypeOK, MemoryCounted, Check
    PROVE  MemoryCounted'
<1> USE DEF MemoryCounted
<1>1. CASE CheckAbsent   BY <1>1 DEF CheckAbsent, memory
<1>2. CASE CheckUnnamed  BY <1>2 DEF CheckUnnamed
<1>3. CASE StayOpen      BY <1>3 DEF StayOpen, memory
<1>4. CASE ProbeAlive    BY <1>4 DEF ProbeAlive
<1>5. CASE ProbeDead     BY <1>5 DEF ProbeDead
<1>6. CASE SeenAlive     BY <1>6 DEF SeenAlive
<1>7. CASE InGrace       BY <1>7 DEF InGrace
<1>8. CASE Trip          BY <1>8 DEF Trip
<1>9. CASE Restart
  <2>1. restarts + 1 > 0
    BY DEF TypeOK
  <2> QED
    BY <1>9, <2>1 DEF Restart
<1> QED
  BY <1>1, <1>2, <1>3, <1>4, <1>5, <1>6, <1>7, <1>8, <1>9 DEF Check

\* Every check leaves the file alone or writes the state it leaves in memory.
LEMMA CheckWrites ==
    ASSUME Check
    PROVE  disk' = disk \/ disk' = HealthState'
BY DEF Check, CheckAbsent, CheckUnnamed, StayOpen, ProbeAlive, ProbeDead,
       SeenAlive, InGrace, Trip, Restart, Report

LEMMA CountedStep ==
    ASSUME TypeOK, ReportedRestartIsCounted, [Next]_vars
    PROVE  ReportedRestartIsCounted'
<1>1. Counted(HealthState) <=> MemoryCounted
  BY DEF Counted, HealthState, MemoryCounted
<1>2. Counted(HealthState)' <=> MemoryCounted'
  BY DEF Counted, HealthState, MemoryCounted
<1>3. CASE Check
  <2>1. Counted(HealthState)'
    BY <1>1, <1>2, <1>3, MemoryCountedStep DEF ReportedRestartIsCounted
  <2>2. CASE disk' = disk
    BY <2>1, <2>2 DEF ReportedRestartIsCounted, Counted
  <2>3. CASE disk' = HealthState'
    BY <2>1, <2>3 DEF ReportedRestartIsCounted, Counted
  <2> QED
    BY <1>3, <2>2, <2>3, CheckWrites
<1>4. CASE Environment \/ UNCHANGED vars
  <2>1. disk' = disk
    BY <1>4 DEF Environment, EngineDies, EngineStarts, ModuleChanges, Tick, ClockJump,
                Reload, DaemonRestart, vars
  <2>2. UNCHANGED memory \/ status' = "Unknown"
    BY <1>4 DEF Environment, EngineDies, EngineStarts, ModuleChanges, Tick, ClockJump,
                Reload, DaemonRestart, vars
  <2>3. MemoryCounted'
    BY <1>1, <2>2 DEF ReportedRestartIsCounted, MemoryCounted, memory
  <2> QED
    BY <1>2, <2>1, <2>3 DEF ReportedRestartIsCounted, Counted
<1> QED
  BY <1>3, <1>4 DEF Next

\* What the WebUI reads as a restart under way is never shown with a count of
\* none, after any mix of failed writes, crashes and reloads.
THEOREM RestartsAreCounted == Spec => []ReportedRestartIsCounted
<1>1. Init => ReportedRestartIsCounted
  BY DEF Init, ReportedRestartIsCounted, Counted, HealthState
<1>2. TypeOK /\ ReportedRestartIsCounted /\ [Next]_vars => ReportedRestartIsCounted'
  BY CountedStep
<1> QED
  BY <1>1, <1>2, TypeCorrect, PTL DEF Spec

-----------------------------------------------------------------------------
Steady == Next /\ cfg'.max_restarts = cfg.max_restarts

\* One step of the budget: a restart needs a count below the maximum, and the
\* breaker opens only at it.
LEMMA BudgetStep ==
    ASSUME TypeOK, RestartBudget, [Steady]_vars
    PROVE  RestartBudget' /\ (restarts' > restarts => circuit = "Closed")
<1>0. restarts \in Nat /\ cfg.max_restarts \in Nat \ {0}
  BY ConfigsAssumption DEF TypeOK
<1>1. cfg'.max_restarts = cfg.max_restarts
  BY DEF Steady, vars, environment
<1> USE <1>0, <1>1 DEF RestartBudget
<1>2. CASE CheckAbsent   BY <1>2 DEF CheckAbsent, memory
<1>3. CASE CheckUnnamed  BY <1>3 DEF CheckUnnamed
<1>4. CASE StayOpen      BY <1>4 DEF StayOpen, memory
<1>5. CASE ProbeAlive    BY <1>5 DEF ProbeAlive
<1>6. CASE ProbeDead     BY <1>6 DEF ProbeDead
<1>7. CASE SeenAlive     BY <1>7 DEF SeenAlive, PastBreaker, CircuitPast
<1>8. CASE InGrace       BY <1>8 DEF InGrace, PastBreaker, CircuitPast
<1>9. CASE Trip          BY <1>9 DEF Trip, MaxRestartsReached
<1>10. CASE Restart
  <2>1. circuit = "Closed"
    BY <1>10 DEF Restart, PastBreaker, MaxRestartsReached
  <2> QED
    BY <1>10, <2>1 DEF Restart, CircuitPast, MaxRestartsReached
<1>11. CASE DaemonRestart
  BY <1>11 DEF DaemonRestart
<1>12. CASE UNCHANGED memory
  BY <1>12 DEF memory
<1>13. Environment \/ UNCHANGED vars => DaemonRestart \/ UNCHANGED memory
  BY DEF Environment, EngineDies, EngineStarts, ModuleChanges, Tick, ClockJump, Reload, vars
<1> QED
  BY <1>2, <1>3, <1>4, <1>5, <1>6, <1>7, <1>8, <1>9, <1>10, <1>11, <1>12, <1>13
  DEF Steady, Next, Check

LEMMA FixedTypeCorrect == FixedSpec => []TypeOK
<1>1. TypeOK /\ [Next /\ cfg'.max_restarts = cfg.max_restarts]_vars => TypeOK'
  BY TypeStep
<1> QED
  BY TypeInit, <1>1, PTL DEF FixedSpec

\* max_restarts is what its name says while it is not edited, and the breaker
\* is open or half-open only with the whole budget spent.
THEOREM BudgetIsKept == FixedSpec => []RestartBudget
<1>1. Init => RestartBudget
  BY ConfigsAssumption DEF Init, RestartBudget
<1>2. TypeOK /\ RestartBudget /\ [Next /\ cfg'.max_restarts = cfg.max_restarts]_vars => RestartBudget'
  BY BudgetStep DEF Steady
<1> QED
  BY <1>1, <1>2, FixedTypeCorrect, PTL DEF FixedSpec

\* No restart is tried behind an open or half-open breaker.
THEOREM BreakerHolds == FixedSpec => NoRestartBehindBreaker
<1>1. TypeOK /\ RestartBudget /\ [Next /\ cfg'.max_restarts = cfg.max_restarts]_vars
      => [restarts' > restarts => circuit = "Closed"]_vars
  BY BudgetStep DEF Steady
<1> QED
  BY <1>1, FixedTypeCorrect, BudgetIsKept, PTL DEF FixedSpec, NoRestartBehindBreaker

\* A check that returns Ok for an installed engine has written what it leaves
\* in memory: the WebUI never reads a file older than an Ok.
THEOREM OkIsOnDisk == Spec => OkMeansWritten
<1>1. Check /\ module # "absent" /\ result' # "error" => disk' = HealthState'
  BY DEF Check, CheckAbsent, CheckUnnamed, StayOpen, ProbeAlive, ProbeDead,
         SeenAlive, InGrace, Trip, Restart, Report
<1> QED
  BY <1>1, PTL DEF Spec, OkMeansWritten

-----------------------------------------------------------------------------
(***************************************************************************)
(* The check on its slot.  The slot changes nothing of the check's, so     *)
(* what holds of the check holds of the monitor.                           *)
(***************************************************************************)

LEMMA MonitorStepIsHealth == [MonitorNext]_monitorVars => [Next]_vars
BY DEF MonitorNext, monitorVars, Expire, Skip, Poll, MonitorReload, Surroundings,
       MonitorClockJump, MonitorTick, Sleep, Next, Environment

LEMMA MonitorIsHealth == MonitorSpec => Spec
BY MonitorStepIsHealth, PTL DEF MonitorSpec, MonitorInit, Spec

\* A timer that is armed with a number of seconds that is not 0.
LEMMA ArmedTimer ==
    ASSUME NEW mode \in {"oneshot", "periodic"}, NEW secs \in Nat \ {0}
    PROVE  Arm(mode, secs) = [mode |-> mode, secs |-> secs]
BY DEF Arm

\* What the slot reads of a configuration is never 0.
LEMMA SlotConfig ==
    ASSUME TypeOK
    PROVE  cfg \in Configs /\ cfg.enabled \in BOOLEAN /\ cfg.interval \in Nat \ {0}
BY MonitorAssumption DEF TypeOK

\* The delay of a backoff is positive, and never shorter than the breaker's.
LEMMA DelayAfterPoll ==
    ASSUME TypeOK'
    PROVE  Delay' \in 1 .. AgeCap /\ Delay' >= backoff'
BY ConfigsAssumption, BoundsAssumption DEF TypeOK, Delay

MonitorTimers == {Off} \cup [mode : {"oneshot", "periodic"}, secs : Nat \ {0}]

\* A one-shot that still has seconds to run is armed, and has not expired.
Running(t, l, e) == l > 0 => t.mode = "oneshot" /\ l <= t.secs /\ ~e

LEMMA MonitorTypeInit == MonitorInit => MonitorTypeOK
<1> SUFFICES ASSUME MonitorInit PROVE MonitorTypeOK
  OBVIOUS
<1>1. TypeOK
  BY TypeInit DEF MonitorInit
<1>2. timer = [mode |-> "oneshot", secs |-> InitialDelay] /\ timer \in MonitorTimers
  BY ArmedTimer, MonitorAssumption DEF MonitorInit, MonitorTimers
<1>3. /\ stagger_done = FALSE /\ expired = FALSE /\ current_interval = 0 /\ reloads = 0
      /\ left = InitialDelay /\ early = FALSE
  BY DEF MonitorInit
<1>4. MaxReloads \in Nat /\ InitialDelay \in Nat \ {0}
  BY MonitorAssumption
<1>5. current_interval \in Nat /\ reloads \in 0 .. MaxReloads /\ left \in Nat
  BY <1>3, <1>4
<1>6. left > 0 => timer.mode = "oneshot" /\ left <= timer.secs /\ ~expired
  BY <1>2, <1>3, <1>4
<1> QED
  BY <1>1, <1>2, <1>3, <1>5, <1>6 DEF MonitorTypeOK, MonitorTimers

LEMMA StaggeredType ==
    ASSUME MonitorTypeOK
    PROVE  Staggered \in MonitorTimers
<1>1. Arm("periodic", cfg.interval) \in MonitorTimers
  BY ArmedTimer, SlotConfig DEF MonitorTypeOK, MonitorTimers
<1> QED
  BY <1>1 DEF Staggered, MonitorTypeOK, MonitorTimers

LEMMA MonitorTypeStep ==
    ASSUME MonitorTypeOK, [MonitorNext]_monitorVars
    PROVE  MonitorTypeOK'
<1>0. TypeOK /\ TypeOK'
  BY MonitorStepIsHealth, TypeStep DEF MonitorTypeOK
<1>a. /\ stagger_done \in BOOLEAN /\ expired \in BOOLEAN /\ early \in BOOLEAN
      /\ current_interval \in Nat /\ timer \in MonitorTimers /\ reloads \in 0 .. MaxReloads
      /\ left \in Nat /\ Running(timer, left, expired)
  BY DEF MonitorTypeOK, MonitorTimers, Running
<1>b. ASSUME stagger_done' \in BOOLEAN, expired' \in BOOLEAN, early' \in BOOLEAN,
             current_interval' \in Nat, timer' \in MonitorTimers, reloads' \in 0 .. MaxReloads,
             left' \in Nat, Running(timer', left', expired')
      PROVE  MonitorTypeOK'
  BY <1>0, <1>b DEF MonitorTypeOK, MonitorTimers, Running
<1>1. CASE Expire
  <2>1. /\ UNCHANGED <<stagger_done, current_interval, left, reloads, early>>
        /\ expired' = TRUE /\ left = 0 /\ timer' \in {Off, timer}
    BY <1>1 DEF Expire
  <2>2. Running(timer', left', expired')
    BY <2>1 DEF Running
  <2>3. timer' \in MonitorTimers /\ left' \in Nat /\ reloads' \in 0 .. MaxReloads
        /\ current_interval' \in Nat
    BY <1>a, <2>1 DEF MonitorTimers
  <2>4. stagger_done' \in BOOLEAN /\ expired' \in BOOLEAN /\ early' \in BOOLEAN
    BY <1>a, <2>1, Zenon
  <2> QED
    BY <1>b, <2>2, <2>3, <2>4
<1>2. CASE Skip \/ Poll
  <2>1. /\ current_interval' \in Nat /\ stagger_done' \in BOOLEAN /\ expired' = FALSE
        /\ reloads' = reloads /\ left = 0
    <3>1. /\ expired /\ expired' = FALSE /\ stagger_done' = TRUE /\ reloads' = reloads
          /\ current_interval' = IF stagger_done THEN current_interval ELSE cfg.interval
      BY <1>2 DEF Skip, Poll, Serve
    <3>2. left = 0
      BY <1>a, <3>1 DEF Running
    <3>3. current_interval' \in Nat
      BY <1>0, <1>a, <3>1, SlotConfig
    <3> QED
      BY <3>1, <3>2, <3>3
  <2>2. early' \in BOOLEAN
    BY <1>a, <1>2, Zenon DEF Skip, Poll
  <2>3. timer' \in MonitorTimers /\ left' \in Nat /\ Running(timer', left', expired')
    <3>1. CASE timer' = Staggered /\ UNCHANGED left
      BY <2>1, <3>1, StaggeredType DEF Running
    <3>2. CASE timer' = Arm("oneshot", Delay') /\ left' = Delay'
      <4>1. Delay' \in Nat \ {0}
        BY <1>0, DelayAfterPoll, BoundsAssumption
      <4>2. timer' = [mode |-> "oneshot", secs |-> Delay']
        BY <3>2, <4>1, ArmedTimer
      <4> QED
        BY <2>1, <3>2, <4>1, <4>2 DEF MonitorTimers, Running
    <3> QED
      BY <1>2, <3>1, <3>2 DEF Skip, Poll
  <2> QED
    BY <1>a, <1>b, <2>1, <2>2, <2>3
<1>3. CASE MonitorReload
  <2>1. reloads' \in 0 .. MaxReloads
    BY <1>3, MonitorAssumption DEF MonitorReload, MonitorTypeOK
  <2>2. CASE Rearms(cfg')
    <3>1. cfg'.interval \in Nat \ {0}
      BY <1>3, MonitorAssumption DEF MonitorReload, Reload
    <3>2. /\ timer' = Arm("periodic", cfg'.interval) /\ current_interval' = cfg'.interval
          /\ expired' = FALSE /\ stagger_done' = stagger_done /\ left' = 0 /\ early' = TRUE
      BY <1>3, <2>2 DEF MonitorReload
    <3>3. timer' \in MonitorTimers
      BY <3>1, <3>2, ArmedTimer DEF MonitorTimers
    <3>4. Running(timer', left', expired')
      BY <3>2 DEF Running
    <3> QED
      BY <1>a, <1>b, <2>1, <3>1, <3>2, <3>3, <3>4
  <2>3. CASE UNCHANGED <<slot, early>>
    <3>1. /\ UNCHANGED <<stagger_done, current_interval, timer, left>>
          /\ expired' = expired /\ early' = early
      BY <2>3 DEF slot
    <3>2. Running(timer', left', expired')
      BY <1>a, <3>1
    <3>3. stagger_done' \in BOOLEAN /\ expired' \in BOOLEAN /\ early' \in BOOLEAN
      BY <1>a, <3>1, Zenon
    <3> QED
      BY <1>a, <1>b, <2>1, <3>1, <3>2, <3>3
  <2> QED
    BY <1>3, <2>2, <2>3 DEF MonitorReload
<1>4. CASE MonitorTick
  <2>1. /\ UNCHANGED <<stagger_done, current_interval, timer, reloads>>
        /\ expired' = expired /\ early' = early
        /\ left' = IF left > 0 THEN left - 1 ELSE 0
    BY <1>4 DEF MonitorTick
  <2>2. left' \in Nat /\ Running(timer', left', expired')
    <3>1. CASE left = 0
      BY <2>1, <3>1 DEF Running
    <3>2. CASE left # 0
      <4>1. left' \in Nat /\ left' <= left /\ timer.mode = "oneshot" /\ left <= timer.secs /\ ~expired
        BY <1>a, <2>1, <3>2 DEF Running
      <4>2. timer.secs \in Nat
        BY <1>a, <4>1 DEF MonitorTimers, Off
      <4> QED
        BY <1>a, <2>1, <4>1, <4>2 DEF Running
    <3> QED
      BY <3>1, <3>2
  <2>3. stagger_done' \in BOOLEAN /\ expired' \in BOOLEAN /\ early' \in BOOLEAN
    BY <1>a, <2>1, Zenon
  <2> QED
    BY <1>a, <1>b, <2>1, <2>2, <2>3
<1>5. CASE UNCHANGED <<slot, reloads>> /\ early' \in {early, TRUE}
  <2>1. /\ UNCHANGED <<stagger_done, current_interval, timer, left, reloads>>
        /\ expired' = expired
    BY <1>5 DEF slot
  <2>2. Running(timer', left', expired')
    BY <1>a, <2>1
  <2>3. stagger_done' \in BOOLEAN /\ expired' \in BOOLEAN /\ early' \in BOOLEAN
    BY <1>a, <1>5, <2>1, Zenon
  <2> QED
    BY <1>a, <1>b, <2>1, <2>2, <2>3
<1> QED
  BY <1>1, <1>2, <1>3, <1>4, <1>5
  DEF MonitorNext, Surroundings, MonitorClockJump, Sleep, monitorVars

\* Every variable of the slot has its type: whatever delay a poll asks for and
\* whatever interval a reload brings, seconds are left only to a one-shot that is
\* armed and has not expired, and no more than it was armed with.
THEOREM MonitorTypeCorrect == MonitorSpec => []MonitorTypeOK
<1>1. MonitorTypeOK /\ [MonitorNext]_monitorVars => MonitorTypeOK'
  BY MonitorTypeStep
<1> QED
  BY MonitorTypeInit, <1>1, PTL DEF MonitorSpec

-----------------------------------------------------------------------------
(***************************************************************************)
(* The wait at an open breaker.  What the breaker has counted and what the *)
(* timer has still to run make up its backoff.                             *)
(***************************************************************************)

WaitsOut == circuit = "Open" /\ ~early => elapsed + left >= backoff

\* A poll that reports an unhealthy engine with the breaker open asks for a
\* backoff: the condition of HealthTask::run, restarts > 0, is never what keeps
\* it from doing so.
LEMMA UnhealthyBacksOff ==
    ASSUME BreakerMemory', result' = "unhealthy", circuit' = "Open"
    PROVE  BacksOff'
BY DEF BreakerMemory, BacksOff

\* What a check does to an open breaker, unless it opens it or looks at it.
LEMMA OpenCheck ==
    ASSUME Check, circuit' = "Open", result' # "unhealthy", result' # "error"
    PROVE  UNCHANGED <<circuit, elapsed, backoff>>
BY DEF Check, CheckAbsent, CheckUnnamed, StayOpen, ProbeAlive, ProbeDead, SeenAlive, InGrace,
       Trip, Restart, Report, CircuitPast, memory

LEMMA SumCovers ==
    ASSUME NEW a \in Nat, NEW b \in Nat, NEW c \in Nat, a >= c \/ b >= c
    PROVE  a + b >= c
OBVIOUS

LEMMA WaitsOutStep ==
    ASSUME MonitorTypeOK, MonitorTypeOK', BreakerMemory', WaitsOut, [MonitorNext]_monitorVars
    PROVE  WaitsOut'
<1>0. /\ TypeOK /\ TypeOK' /\ left \in Nat
      /\ elapsed \in 0 .. AgeCap /\ backoff \in 0 .. AgeCap /\ AgeCap \in Nat
      /\ elapsed' \in 0 .. AgeCap /\ backoff' \in 0 .. AgeCap
  BY BoundsAssumption DEF MonitorTypeOK, TypeOK
<1> SUFFICES ASSUME circuit' = "Open", ~early'
             PROVE  elapsed' + left' >= backoff'
  BY DEF WaitsOut
<1>1. CASE UNCHANGED <<circuit, elapsed, backoff, left>> /\ early' = early
  BY <1>1 DEF WaitsOut
<1>2. CASE Poll
  <2>1. Check /\ result' # "error" /\ (early => BacksOff')
    BY <1>2, Zenon DEF Poll
  <2>2. CASE BacksOff'
    <3>1. left' = Delay'
      BY <1>2, <2>2 DEF Poll
    <3>2. Delay' \in 1 .. AgeCap /\ Delay' >= backoff'
      BY <1>0, DelayAfterPoll
    <3>3. PICK d \in Nat : d = Delay'
      BY <3>2
    <3>4. elapsed' \in Nat /\ backoff' \in Nat
      BY <1>0
    <3>5. left' \in Nat /\ left' >= backoff'
      BY <3>1, <3>2, <3>3
    <3> QED
      BY <3>4, <3>5, SumCovers, Zenon
  <2>3. CASE ~BacksOff'
    <3>1. left' = left /\ result' # "unhealthy"
      BY <1>2, <2>3, UnhealthyBacksOff DEF Poll
    <3>2. UNCHANGED <<circuit, elapsed, backoff>> /\ ~early
      BY <2>1, <2>3, <3>1, OpenCheck
    <3> QED
      BY <3>1, <3>2 DEF WaitsOut
  <2> QED
    BY <2>2, <2>3
<1>3. ASSUME Tick, left' = left \/ (left' = IF left > 0 THEN left - 1 ELSE 0), early' = early
      PROVE  elapsed' + left' >= backoff'
  <2>1. circuit' = circuit /\ backoff' = backoff /\ elapsed' = Capped(elapsed + 1, AgeCap)
    BY <1>3 DEF Tick, memory
  <2>2. elapsed + left >= backoff
    BY <1>3, <2>1 DEF WaitsOut
  <2>3. elapsed' = elapsed + 1 \/ elapsed' = AgeCap
    BY <2>1 DEF Capped
  <2>4. left' \in Nat /\ left' >= left - 1
    BY <1>0, <1>3
  <2> QED
    BY <1>0, <2>1, <2>2, <2>3, <2>4
<1>4. CASE MonitorTick
  <2>1. CASE Tick
    BY <1>3, <1>4, <2>1 DEF MonitorTick
  <2>2. CASE elapsed = AgeCap /\ UNCHANGED vars
    <3>1. left' = IF left > 0 THEN left - 1 ELSE 0
      BY <1>4 DEF MonitorTick
    <3>2. left' \in Nat
      BY <1>0, <3>1
    <3>3. elapsed' = AgeCap
      BY <2>2 DEF vars
    <3>4. elapsed' \in Nat /\ backoff' \in Nat /\ elapsed' >= backoff'
      BY <1>0, <3>3
    <3> QED
      BY <3>2, <3>4, SumCovers, Zenon
  <2> QED
    BY <1>4, <2>1, <2>2 DEF MonitorTick
<1>5. CASE Sleep
  BY <1>3, <1>5 DEF Sleep, slot
<1>6. CASE MonitorReload
  <2>1. ~Rearms(cfg')
    BY <1>6, Zenon DEF MonitorReload
  <2> QED
    BY <1>1, <1>6, <2>1 DEF MonitorReload, Reload, memory, slot
<1>7. CASE Expire \/ Skip
  BY <1>1, <1>7 DEF Expire, Skip, vars, memory
<1>8. CASE Surroundings
  BY <1>1, <1>8 DEF Surroundings, EngineDies, EngineStarts, ModuleChanges, memory, slot
<1>9. CASE MonitorClockJump
  BY <1>9, Zenon DEF MonitorClockJump
<1>10. CASE UNCHANGED monitorVars
  BY <1>1, <1>10 DEF monitorVars, vars, memory, slot
<1> QED
  BY <1>2, <1>4, <1>5, <1>6, <1>7, <1>8, <1>9, <1>10 DEF MonitorNext

\* The breaker's backoff is waited out: the scheduler polls an engine with its
\* breaker open before the backoff is over only if since the last backoff the
\* clock was set, a reload re-armed the slot, or a poll could not write its
\* state (HealthTask::run, Scheduler::handle_timer).
THEOREM OpenBreakerIsWaitedOut == MonitorSpec => OpenBreakerWaits
<1>1. MonitorInit => WaitsOut
  BY DEF MonitorInit, Init, WaitsOut
<1>2. /\ MonitorTypeOK /\ MonitorTypeOK' /\ BreakerMemory' /\ WaitsOut
      /\ [MonitorNext]_monitorVars
      => WaitsOut'
  BY WaitsOutStep
<1>3. MonitorSpec => []WaitsOut
  BY <1>1, <1>2, MonitorTypeCorrect, MonitorIsHealth, BreakerRemembers, PTL DEF MonitorSpec
<1>4. MonitorTypeOK /\ WaitsOut /\ [MonitorNext]_monitorVars
      => [Poll /\ module = "named" /\ circuit = "Open"
          => BackoffElapsed \/ early]_monitorVars
  <2> SUFFICES ASSUME MonitorTypeOK, WaitsOut, Poll, circuit = "Open", ~early
               PROVE  BackoffElapsed
    BY Zenon
  <2>1. left \in Nat /\ (left > 0 => ~expired) /\ expired
    BY DEF MonitorTypeOK, Poll, Serve
  <2>2. left = 0
    BY <2>1
  <2>3. elapsed \in Nat /\ backoff \in Nat
    BY BoundsAssumption DEF MonitorTypeOK, TypeOK
  <2> QED
    BY <2>2, <2>3 DEF WaitsOut, BackoffElapsed
<1> QED
  BY <1>3, <1>4, MonitorTypeCorrect, PTL DEF MonitorSpec, OpenBreakerWaits

\* Where no configuration differs in max_restarts, the check on its slot keeps
\* its budget whatever else is reloaded and whenever, and no poll restarts the
\* engine behind an open or half-open breaker (check_once, restart_engine).
THEOREM MonitorKeepsBudget ==
    ASSUME \A c, d \in Configs : c.max_restarts = d.max_restarts
    PROVE  MonitorSpec => []RestartBudget /\ NoRestartBehindBreaker
<1>1. TypeOK /\ TypeOK' /\ [Next]_vars => [Next /\ cfg'.max_restarts = cfg.max_restarts]_vars
  <2>1. TypeOK /\ TypeOK' => cfg \in Configs /\ cfg' \in Configs
    BY DEF TypeOK
  <2> QED
    BY <2>1
<1>2. MonitorSpec => FixedSpec
  BY <1>1, MonitorIsHealth, TypeCorrect, PTL DEF Spec, FixedSpec
<1> QED
  BY <1>2, BudgetIsKept, BreakerHolds, PTL

-----------------------------------------------------------------------------
(***************************************************************************)
(* The monitor implements the scheduler of one task that may back off.     *)
(***************************************************************************)

LEMMA SlotAt == \A v : ToSlot(v)["health"] = v
BY DEF ToSlot

LEMMA SlotExcept == \A v, w : [ToSlot(v) EXCEPT !["health"] = w] = ToSlot(w)
BY DEF ToSlot

\* The configuration of the slot, as the scheduler sees it.
SlotCfg == [enabled |-> cfg.enabled, interval |-> cfg.interval]

LEMMA SlotCfgType ==
    ASSUME TypeOK
    PROVE  /\ SlotCfg \in Sched!TaskConfigs
           /\ ToSlot(SlotCfg) \in [{"health"} -> Sched!TaskConfigs]
<1>1. cfg.enabled \in BOOLEAN /\ cfg.interval \in {c.interval : c \in Configs}
  BY SlotConfig
<1>2. SlotCfg \in Sched!TaskConfigs
  BY <1>1 DEF SlotCfg, Sched!TaskConfigs
<1> QED
  BY <1>2 DEF ToSlot

LEMMA MonitorInitMaps == MonitorInit => Sched!Init
<1> SUFFICES ASSUME MonitorInit PROVE Sched!Init
  OBVIOUS
<1>1. ToSlot(SlotCfg) \in [{"health"} -> Sched!TaskConfigs]
  BY TypeInit, SlotCfgType DEF MonitorInit
<1>2. ToSlot(stagger_done) = [t \in {"health"} |-> FALSE]
      /\ ToSlot(expired) = [t \in {"health"} |-> FALSE]
      /\ ToSlot(current_interval) = [t \in {"health"} |-> 0] /\ reloads = 0
  BY DEF MonitorInit, ToSlot
<1>3. ToSlot(timer) = [t \in {"health"} |-> Sched!Arm("oneshot", ToSlot(InitialDelay)[t])]
  BY DEF MonitorInit, ToSlot, Arm, Off, Sched!Arm, Sched!Off
<1> QED
  BY <1>1, <1>2, <1>3 DEF Sched!Init, SlotCfg

LEMMA ExpireMaps ==
    ASSUME Expire
    PROVE  Sched!Expire("health")
<1>1. timer.mode # "off" /\ ~expired /\ expired' = TRUE
      /\ timer' = (IF timer.mode = "oneshot" THEN Off ELSE timer)
      /\ cfg' = cfg /\ stagger_done' = stagger_done
      /\ current_interval' = current_interval /\ reloads' = reloads
  BY DEF Expire, vars, environment
<1>2. ToSlot(timer)' = [ToSlot(timer) EXCEPT !["health"] =
          IF ToSlot(timer)["health"].mode = "oneshot" THEN Sched!Off ELSE ToSlot(timer)["health"]]
  BY <1>1, SlotAt, SlotExcept DEF Off, Sched!Off
<1>3. ToSlot(expired)' = [ToSlot(expired) EXCEPT !["health"] = TRUE]
  BY <1>1, SlotExcept
<1>4. UNCHANGED <<ToSlot(SlotCfg), ToSlot(stagger_done), ToSlot(current_interval), reloads>>
  BY <1>1 DEF SlotCfg
<1>5. ToSlot(timer)["health"].mode # "off" /\ ~ToSlot(expired)["health"]
  BY <1>1 DEF ToSlot
<1> QED
  BY <1>2, <1>3, <1>4, <1>5 DEF Sched!Expire, SlotCfg

\* What Serve does to every field of the slot but the timer.
LEMMA ServeMaps ==
    ASSUME Serve, cfg' = cfg
    PROVE  /\ ToSlot(expired)["health"]
           /\ ToSlot(expired)' = [ToSlot(expired) EXCEPT !["health"] = FALSE]
           /\ ToSlot(stagger_done)' = [ToSlot(stagger_done) EXCEPT !["health"] = TRUE]
           /\ ToSlot(current_interval)' = [ToSlot(current_interval) EXCEPT !["health"] =
                  IF ToSlot(stagger_done)["health"]
                  THEN ToSlot(current_interval)["health"] ELSE ToSlot(SlotCfg)["health"].interval]
           /\ UNCHANGED <<ToSlot(SlotCfg), reloads>>
<1>1. ToSlot(SlotCfg)["health"].interval = cfg.interval
  BY SlotAt DEF SlotCfg
<1>2. ToSlot(expired)["health"]
  BY DEF Serve, ToSlot
<1>3. ToSlot(current_interval)' = ToSlot(IF stagger_done THEN current_interval ELSE cfg.interval)
  BY DEF Serve
<1>4. ToSlot(current_interval)' = [ToSlot(current_interval) EXCEPT !["health"] =
          IF ToSlot(stagger_done)["health"]
          THEN ToSlot(current_interval)["health"] ELSE ToSlot(SlotCfg)["health"].interval]
  BY <1>1, <1>3 DEF ToSlot
<1>5. ToSlot(expired)' = [ToSlot(expired) EXCEPT !["health"] = FALSE]
      /\ ToSlot(stagger_done)' = [ToSlot(stagger_done) EXCEPT !["health"] = TRUE]
  BY SlotExcept DEF Serve
<1>6. UNCHANGED <<ToSlot(SlotCfg), reloads>>
  BY DEF Serve, SlotCfg
<1> QED
  BY <1>2, <1>4, <1>5, <1>6

LEMMA StaggeredMaps == Staggered = Sched!Staggered("health")
<1>1. ToSlot(SlotCfg)["health"].interval = cfg.interval
  BY SlotAt DEF SlotCfg
<1> QED
  BY <1>1, SlotAt DEF Staggered, Sched!Staggered, Arm, Off, Sched!Arm, Sched!Off, SlotCfg

LEMMA ServedMaps ==
    ASSUME TypeOK', Skip \/ Poll
    PROVE  Sched!HandleTimer("health")
<1>0. cfg' = cfg
  BY DEF Skip, Poll, vars, environment, Check, CheckAbsent, CheckUnnamed, StayOpen, ProbeAlive,
         ProbeDead, SeenAlive, InGrace, Trip, Restart
<1>1. Serve
  BY DEF Skip, Poll
<1>2. CASE timer' = Staggered
  <2>1. ToSlot(timer)' = [ToSlot(timer) EXCEPT !["health"] = Sched!Staggered("health")]
    BY <1>2, StaggeredMaps, SlotExcept
  <2> QED
    BY <1>0, <1>1, <2>1, ServeMaps DEF Sched!HandleTimer, SlotCfg
<1>3. CASE Poll /\ timer' = Arm("oneshot", Delay')
  <2>1. Delay' \in 1 .. AgeCap
    BY DelayAfterPoll
  <2>2. ToSlot(timer)' = [ToSlot(timer) EXCEPT !["health"] = Sched!Arm("oneshot", Delay')]
    BY <1>3, SlotExcept DEF Arm, Off, Sched!Arm, Sched!Off
  <2>3. ToSlot(SlotCfg)["health"].enabled
    BY <1>3, SlotAt DEF Poll, SlotCfg
  <2> QED
    BY <1>0, <1>1, <2>1, <2>2, <2>3, ServeMaps DEF Sched!HandleTimer, SlotCfg
<1> QED
  BY <1>2, <1>3 DEF Skip, Poll

LEMMA ReloadMaps ==
    ASSUME MonitorTypeOK, TypeOK', MonitorReload
    PROVE  Sched!Reconfigure
<1> DEFINE new == ToSlot(SlotCfg')
<1>1. new \in [{"health"} -> Sched!TaskConfigs]
  <2>1. SlotCfg' \in Sched!TaskConfigs
    <3>1. cfg'.enabled \in BOOLEAN /\ cfg'.interval \in {c.interval : c \in Configs}
      BY MonitorAssumption DEF TypeOK
    <3> QED
      BY <3>1 DEF SlotCfg, Sched!TaskConfigs
  <2> QED
    BY <2>1 DEF ToSlot
<1>2. Sched!Rearmed(new) = IF Rearms(cfg') THEN {"health"} ELSE {}
  BY SlotAt DEF Sched!Rearmed, Rearms, SlotCfg
<1>3. reloads < MaxReloads /\ reloads' = reloads + 1 /\ ToSlot(SlotCfg)' = new
  BY DEF MonitorReload, SlotCfg
<1>4. new["health"].interval = cfg'.interval
  BY SlotAt DEF SlotCfg
<1>5. ToSlot(current_interval)' = [t \in {"health"} |->
          IF t \in Sched!Rearmed(new) THEN new[t].interval ELSE ToSlot(current_interval)[t]]
  BY <1>2, <1>4, SlotAt DEF MonitorReload, ToSlot, slot
<1>6. ToSlot(timer)' = [t \in {"health"} |->
          IF t \in Sched!Rearmed(new) THEN Sched!Arm("periodic", new[t].interval)
                                      ELSE ToSlot(timer)[t]]
  BY <1>2, <1>4, SlotAt DEF MonitorReload, ToSlot, slot, Arm, Off, Sched!Arm, Sched!Off
<1>7. ToSlot(expired)' = [t \in {"health"} |-> ToSlot(expired)[t] /\ t \notin Sched!Rearmed(new)]
  <2>1. expired' = (expired /\ ~Rearms(cfg'))
    BY DEF MonitorReload, slot, MonitorTypeOK
  <2> QED
    BY <1>2, <2>1 DEF ToSlot
<1>8. ToSlot(stagger_done)' = ToSlot(stagger_done)
  BY DEF MonitorReload, slot
<1> QED
  BY <1>1, <1>3, <1>5, <1>6, <1>7, <1>8 DEF Sched!Reconfigure, SlotCfg

\* Every step of the monitor is one of the scheduler, or changes nothing it has.
LEMMA MonitorStepMaps ==
    ASSUME MonitorTypeOK, MonitorTypeOK', [MonitorNext]_monitorVars
    PROVE  [Sched!Next]_(Sched!vars)
<1>0. TypeOK' 
  BY DEF MonitorTypeOK
<1>1. CASE Expire
  BY <1>1, ExpireMaps DEF Sched!Next
<1>2. CASE Skip \/ Poll
  BY <1>0, <1>2, ServedMaps DEF Sched!Next
<1>3. CASE MonitorReload
  BY <1>0, <1>3, ReloadMaps DEF Sched!Next
<1>4. CASE UNCHANGED <<cfg, stagger_done, current_interval, timer, expired, reloads>>
  BY <1>4 DEF Sched!vars
<1>5. Surroundings \/ MonitorClockJump \/ MonitorTick \/ Sleep \/ UNCHANGED monitorVars
      => UNCHANGED <<cfg, stagger_done, current_interval, timer, expired, reloads>>
  BY DEF Surroundings, MonitorClockJump, MonitorTick, Sleep, Tick, EngineDies, EngineStarts,
         ModuleChanges, ClockJump, monitorVars, vars, environment, slot
<1> QED
  BY <1>1, <1>2, <1>3, <1>4, <1>5 DEF MonitorNext

\* The health task on its slot is a task of the scheduler: what holds of every
\* slot of Scheduler holds of the monitor's.
THEOREM MonitorRefines == MonitorSpec => ImplementsScheduler
<1>1. MonitorTypeOK /\ MonitorTypeOK' /\ [MonitorNext]_monitorVars => [Sched!Next]_(Sched!vars)
  BY MonitorStepMaps
<1> QED
  BY <1>1, MonitorInitMaps, MonitorTypeCorrect, PTL DEF MonitorSpec, ImplementsScheduler, Sched!Spec
=============================================================================
