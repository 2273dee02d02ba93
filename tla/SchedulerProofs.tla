-------------------------- MODULE SchedulerProofs --------------------------
(* Safety of the scheduler, for any set of tasks, of intervals and of backoff *)
(* delays.                                                                    *)
EXTENDS Scheduler, TLAPS

\* How a timer is armed with a number of seconds that is not 0.
LEMMA Armed ==
    ASSUME NEW mode \in {"oneshot", "periodic"}, NEW secs \in Nat \ {0}
    PROVE  /\ Arm(mode, secs) \in Timers
           /\ Arm(mode, secs).mode = mode
           /\ Arm(mode, secs).secs = secs
BY DEF Arm, Timers

LEMMA OffIsTimer == Off \in Timers /\ Off.mode = "off"
BY DEF Off, Timers

\* The timer after the look at stagger_done: the old one, or the first period.
LEMMA StaggeredTimer ==
    ASSUME TypeOK, NEW t \in Tasks
    PROVE  /\ stagger_done[t] => Staggered(t) = timer[t]
           /\ ~stagger_done[t] => /\ Staggered(t).mode = "periodic"
                                  /\ Staggered(t).secs = cfg[t].interval
           /\ Staggered(t) \in Timers
<1>1. cfg[t].interval \in Nat \ {0} /\ timer[t] \in Timers
  BY SchedulerAssumption DEF TypeOK, TaskConfigs
<1> QED
  BY <1>1, Armed DEF Staggered

LEMMA TypeInit == Init => TypeOK
<1> SUFFICES ASSUME Init PROVE TypeOK
  OBVIOUS
<1>1. \A t \in Tasks : Arm("oneshot", InitialDelay[t]) \in Timers
  BY Armed, SchedulerAssumption
<1> QED
  BY <1>1, SchedulerAssumption DEF Init, TypeOK

LEMMA TypeStep ==
    ASSUME TypeOK, [Next]_vars
    PROVE  TypeOK'
<1> USE SchedulerAssumption DEF TypeOK
<1>1. ASSUME NEW t \in Tasks, Expire(t) PROVE TypeOK'
  BY <1>1, OffIsTimer DEF Expire
<1>2. ASSUME NEW t \in Tasks, HandleTimer(t) PROVE TypeOK'
  <2>1. cfg[t].interval \in Nat
    BY DEF TaskConfigs
  <2>2. timer' \in [Tasks -> Timers]
    <3>1. CASE timer' = [timer EXCEPT ![t] = Staggered(t)]
      BY <3>1, StaggeredTimer
    <3>2. CASE \E d \in Delays : timer' = [timer EXCEPT ![t] = Arm("oneshot", d)]
      BY <3>2, Armed
    <3> QED
      BY <1>2, <3>1, <3>2 DEF HandleTimer
  <2> QED
    BY <1>2, <2>1, <2>2 DEF HandleTimer
<1>3. ASSUME NEW t \in Tasks, RunNowBackoff(t) PROVE TypeOK'
  <2>1. PICK d \in Delays : timer' = [timer EXCEPT ![t] = Arm("oneshot", d)]
    BY <1>3 DEF RunNowBackoff
  <2> QED
    BY <1>3, <2>1, Armed DEF RunNowBackoff
<1>4. CASE Reconfigure
  <2>1. PICK new \in [Tasks -> TaskConfigs] :
          /\ cfg' = new
          /\ current_interval' = [t \in Tasks |->
                 IF t \in Rearmed(new) THEN new[t].interval ELSE current_interval[t]]
          /\ timer' = [t \in Tasks |->
                 IF t \in Rearmed(new) THEN Arm("periodic", new[t].interval) ELSE timer[t]]
          /\ expired' = [t \in Tasks |-> expired[t] /\ t \notin Rearmed(new)]
    BY <1>4 DEF Reconfigure
  <2>2. \A t \in Tasks : new[t].interval \in Nat \ {0}
    BY DEF TaskConfigs
  <2>3. \A t \in Tasks : Arm("periodic", new[t].interval) \in Timers
    BY <2>2, Armed
  <2> QED
    BY <1>4, <2>1, <2>2, <2>3 DEF Reconfigure
<1>5. CASE UNCHANGED vars
  BY <1>5 DEF vars
<1> QED
  BY <1>1, <1>2, <1>3, <1>4, <1>5 DEF Next

\* Every timer the scheduler sets is one the kernel arms: no reload and no
\* backoff turns a period into a zero that disarms it.
THEOREM TypeCorrect == Spec => []TypeOK
<1>1. TypeOK /\ [Next]_vars => TypeOK'
  BY TypeStep
<1> QED
  BY TypeInit, <1>1, PTL DEF Spec

-----------------------------------------------------------------------------
\* The inductive invariant, per slot: what PeriodFollowsConfig says, and where
\* the timer stands before and after the staggered start.
SlotInv(t) ==
    /\ stagger_done[t] => current_interval[t] = cfg[t].interval
    /\ timer[t].mode = "periodic" => stagger_done[t] /\ timer[t].secs = cfg[t].interval
    /\ ~stagger_done[t] => timer[t].mode = "oneshot" \/ expired[t]
    /\ stagger_done[t] /\ t \notin BackoffTasks => timer[t].mode = "periodic"

SlotsInv == \A t \in Tasks : SlotInv(t)

LEMMA SlotsInit == Init => SlotsInv
<1> SUFFICES ASSUME Init, NEW t \in Tasks PROVE SlotInv(t)
  BY DEF SlotsInv
<1>1. Arm("oneshot", InitialDelay[t]).mode = "oneshot"
  BY Armed, SchedulerAssumption
<1> QED
  BY <1>1 DEF Init, SlotInv

LEMMA SlotsStep ==
    ASSUME TypeOK, SlotsInv, [Next]_vars
    PROVE  SlotsInv'
<1> SUFFICES ASSUME NEW t \in Tasks PROVE SlotInv(t)'
  BY DEF SlotsInv
<1>0. SlotInv(t)
  BY DEF SlotsInv
<1> USE DEF TypeOK
<1>1. ASSUME NEW u \in Tasks, Expire(u) PROVE SlotInv(t)'
  BY <1>0, <1>1, OffIsTimer DEF Expire, SlotInv
<1>2. ASSUME NEW u \in Tasks, HandleTimer(u) PROVE SlotInv(t)'
  <2>1. CASE u # t
    <3>1. /\ timer'[t] = timer[t] /\ expired'[t] = expired[t] /\ stagger_done'[t] = stagger_done[t]
          /\ current_interval'[t] = current_interval[t] /\ cfg'[t] = cfg[t]
      BY <1>2, <2>1 DEF HandleTimer
    <3> QED
      BY <1>0, <3>1 DEF SlotInv
  <2>2. CASE u = t
    <3>1. stagger_done'[t] /\ current_interval'[t] = cfg'[t].interval
      BY <1>0, <1>2, <2>2 DEF HandleTimer, SlotInv
    <3>2. CASE timer' = [timer EXCEPT ![t] = Staggered(t)]
      BY <1>0, <1>2, <2>2, <3>1, <3>2, StaggeredTimer DEF HandleTimer, SlotInv
    <3>3. ASSUME t \in BackoffTasks, NEW d \in Delays, timer' = [timer EXCEPT ![t] = Arm("oneshot", d)]
          PROVE  SlotInv(t)'
      <4>1. timer'[t].mode = "oneshot"
        BY <3>3, Armed, SchedulerAssumption
      <4> QED
        BY <3>1, <3>3, <4>1 DEF SlotInv
    <3> QED
      BY <1>2, <2>2, <3>2, <3>3 DEF HandleTimer
  <2> QED
    BY <2>1, <2>2
<1>3. ASSUME NEW u \in Tasks, RunNowBackoff(u) PROVE SlotInv(t)'
  <2>1. PICK d \in Delays : timer' = [timer EXCEPT ![u] = Arm("oneshot", d)]
    BY <1>3 DEF RunNowBackoff
  <2>2. Arm("oneshot", d).mode = "oneshot"
    BY Armed, SchedulerAssumption
  <2> QED
    BY <1>0, <1>3, <2>1, <2>2 DEF RunNowBackoff, SlotInv
<1>4. CASE Reconfigure
  <2>1. PICK new \in [Tasks -> TaskConfigs] :
          /\ cfg' = new
          /\ current_interval' = [u \in Tasks |->
                 IF u \in Rearmed(new) THEN new[u].interval ELSE current_interval[u]]
          /\ timer' = [u \in Tasks |->
                 IF u \in Rearmed(new) THEN Arm("periodic", new[u].interval) ELSE timer[u]]
          /\ expired' = [u \in Tasks |-> expired[u] /\ u \notin Rearmed(new)]
    BY <1>4 DEF Reconfigure
  <2>2. stagger_done' = stagger_done
    BY <1>4 DEF Reconfigure
  <2>3. CASE t \in Rearmed(new)
    <3>1. new[t].interval \in Nat \ {0}
      BY SchedulerAssumption DEF TaskConfigs
    <3>2. /\ Arm("periodic", new[t].interval).mode = "periodic"
          /\ Arm("periodic", new[t].interval).secs = new[t].interval
      BY <3>1, Armed
    <3>3. stagger_done[t]
      BY <2>3 DEF Rearmed
    <3> QED
      BY <2>1, <2>2, <2>3, <3>2, <3>3 DEF SlotInv
  <2>4. CASE t \notin Rearmed(new)
    <3>1. stagger_done[t] => new[t].interval = cfg[t].interval
      BY <2>4 DEF Rearmed
    <3>2. timer'[t] = timer[t] /\ expired'[t] = expired[t] /\ current_interval'[t] = current_interval[t]
      BY <2>1, <2>4
    <3> QED
      BY <1>0, <2>1, <2>2, <3>1, <3>2 DEF SlotInv
  <2> QED
    BY <2>3, <2>4
<1>5. CASE UNCHANGED vars
  BY <1>0, <1>5 DEF vars, SlotInv
<1> QED
  BY <1>1, <1>2, <1>3, <1>4, <1>5 DEF Next

LEMMA SlotsCorrect == Spec => []SlotsInv
<1>1. TypeOK /\ SlotsInv /\ [Next]_vars => SlotsInv'
  BY SlotsStep
<1> QED
  BY SlotsInit, <1>1, TypeCorrect, PTL DEF Spec

\* Every started slot runs with the interval of the configuration the daemon
\* has, whenever and however often it was reloaded.
THEOREM PeriodsFollow == Spec => []PeriodFollowsConfig
<1>1. SlotsInv => PeriodFollowsConfig
  BY DEF SlotsInv, SlotInv, PeriodFollowsConfig
<1> QED
  BY <1>1, SlotsCorrect, PTL

\* No slot is lost but one whose task has asked for a backoff.
THEOREM SilenceIsBackoff == Spec => []SilentOnlyAfterBackoff
<1>1. SlotsInv => SilentOnlyAfterBackoff
  BY DEF SlotsInv, SlotInv, SilentOnlyAfterBackoff, Silent
<1> QED
  BY <1>1, SlotsCorrect, PTL
=============================================================================
