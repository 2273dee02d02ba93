-------------------------- MODULE LifecycleProofs --------------------------
(* One daemon at a time, and a pid file that can be trusted, for any number  *)
(* of starts and of stops.                                                   *)
EXTENDS Lifecycle, TLAPS

LEMMA TypeInit == Init => TypeOK
BY DEF Init, TypeOK, Stages

LEMMA TypeStep ==
    ASSUME TypeOK, [Next]_vars
    PROVE  TypeOK'
<1> USE NoneAssumption DEF TypeOK, Stages, Goto, StopAt, Unlocked
<1>1. ASSUME NEW p \in Pids, Start(p) \/ AcquireLock(p) \/ LockTaken(p) \/ WritePid(p) \/ EnterLoop(p)
      PROVE  TypeOK'
  BY <1>1 DEF Start, AcquireLock, LockTaken, WritePid, EnterLoop
<1>2. ASSUME NEW p \in Pids, SetupFails(p) \/ LeaveLoop(p) \/ LoopFails(p) \/ CleanupPidFile(p) \/ Crash(p)
      PROVE  TypeOK'
  BY <1>2 DEF SetupFails, LeaveLoop, LoopFails, CleanupPidFile, Crash
<1>3. ASSUME NEW s \in Stops, StopReads(s)
      PROVE  TypeOK'
  BY <1>3 DEF StopReads
<1>4. ASSUME NEW s \in Stops, StopSignals(s)
      PROVE  TypeOK'
  BY <1>4 DEF StopSignals
<1>5. ASSUME NEW s \in Stops, StopFindsStale(s) \/ StopRemoves(s)
      PROVE  TypeOK'
  BY <1>5 DEF StopFindsStale, StopRemoves
<1>6. CASE UNCHANGED vars
  BY <1>6 DEF vars
<1> QED
  BY <1>1, <1>2, <1>3, <1>4, <1>5, <1>6 DEF Next, Advance

\* Every daemon-stop that signals or cleans up has read the pid of a process.
THEOREM TypeCorrect == Spec => []TypeOK
<1>1. TypeOK /\ [Next]_vars => TypeOK'
  BY TypeStep
<1> QED
  BY TypeInit, <1>1, PTL DEF Spec

-----------------------------------------------------------------------------
\* The inductive invariant.  A process between taking the lock and giving it
\* back is the one the lock names; a pid in the file, or read from it, is that
\* of a process which has come as far as writing it; what daemon-stop takes for
\* stale is dead, and pids do not come back.
Wrote(p) == pc[p] \in {"written", "loop", "returned", "gone"}

LockInv == \A p \in Pids : pc[p] \in Holding => lock = p
FileInv == \A p \in Pids : pid_file = p => Wrote(p)
ReadInv == \A s \in Stops : stop[s] \in {"read", "stale"} => Wrote(target[s])
DeadInv == \A s \in Stops : stop[s] = "stale" => pc[target[s]] = "gone"

IInv == TypeOK /\ LockInv /\ FileInv /\ ReadInv /\ DeadInv

LEMMA IInvInit == Init => IInv
<1> SUFFICES ASSUME Init PROVE IInv
  OBVIOUS
<1>1. LockInv /\ FileInv /\ ReadInv /\ DeadInv
  BY NoneAssumption DEF Init, LockInv, FileInv, ReadInv, DeadInv, Holding
<1> QED
  BY <1>1, TypeInit DEF IInv

\* A daemon process moves on.
LEMMA DaemonStep ==
    ASSUME IInv, NEW p \in Pids, Start(p) \/ Advance(p) \/ LoopFails(p) \/ Crash(p)
    PROVE  LockInv' /\ FileInv' /\ ReadInv' /\ DeadInv'
<1> USE NoneAssumption DEF IInv, TypeOK, Stages, Holding, Wrote, Goto, Unlocked
<1>1. LockInv'
  BY DEF LockInv, Start, Advance, AcquireLock, LockTaken, WritePid, EnterLoop,
         SetupFails, LeaveLoop, LoopFails, CleanupPidFile, Crash, Alive
<1>2. FileInv'
  BY DEF FileInv, Start, Advance, AcquireLock, LockTaken, WritePid, EnterLoop,
         SetupFails, LeaveLoop, LoopFails, CleanupPidFile, Crash, Alive
<1>3. ASSUME NEW q \in Pids, Wrote(q) PROVE Wrote(q)'
  BY <1>3 DEF Start, Advance, AcquireLock, LockTaken, WritePid, EnterLoop,
              SetupFails, LeaveLoop, LoopFails, CleanupPidFile, Crash
<1>4. ASSUME NEW q \in Pids, pc[q] = "gone" PROVE pc'[q] = "gone"
  BY <1>4 DEF Start, Advance, AcquireLock, LockTaken, WritePid, EnterLoop,
              SetupFails, LeaveLoop, LoopFails, CleanupPidFile, Crash, Alive
<1>5. UNCHANGED <<stop, target>>
  BY DEF Start, Advance, AcquireLock, LockTaken, WritePid, EnterLoop,
         SetupFails, LeaveLoop, LoopFails, CleanupPidFile, Crash
<1>6. ReadInv'
  BY <1>3, <1>5 DEF ReadInv
<1>7. DeadInv'
  BY <1>4, <1>5 DEF DeadInv
<1> QED
  BY <1>1, <1>2, <1>6, <1>7

\* A daemon-stop moves on.
LEMMA StopStep ==
    ASSUME IInv, NEW s \in Stops,
           StopReads(s) \/ StopSignals(s) \/ StopFindsStale(s) \/ StopRemoves(s)
    PROVE  LockInv' /\ FileInv' /\ ReadInv' /\ DeadInv'
<1> USE NoneAssumption DEF IInv, TypeOK, Stages, Goto, StopAt, Unlocked
<1>1. pid_file' \in {pid_file, None}
  BY DEF StopReads, StopSignals, StopFindsStale, StopRemoves
<1>2. LockInv'
  BY DEF LockInv, Holding, StopReads, StopSignals, StopFindsStale, StopRemoves
<1>3. ASSUME NEW q \in Pids, Wrote(q) PROVE Wrote(q)'
  BY <1>3 DEF Wrote, StopReads, StopSignals, StopFindsStale, StopRemoves
<1>4. ASSUME NEW q \in Pids, pc[q] = "gone" PROVE pc'[q] = "gone"
  BY <1>4 DEF StopReads, StopSignals, StopFindsStale, StopRemoves
<1>5. FileInv'
  BY <1>1, <1>3 DEF FileInv
<1>6. ReadInv'
  <2>1. \A r \in Stops : stop'[r] \in {"read", "stale"} => target'[r] \in Pids /\ Wrote(target'[r])
    BY DEF ReadInv, FileInv, StopReads, StopSignals, StopFindsStale, StopRemoves
  <2> QED
    BY <1>3, <2>1 DEF ReadInv
<1>7. DeadInv'
  <2>1. \A r \in Stops : stop'[r] = "stale" => target'[r] \in Pids /\ pc[target'[r]] = "gone"
    BY DEF DeadInv, ReadInv, Wrote, Alive, StopReads, StopSignals, StopFindsStale, StopRemoves
  <2> QED
    BY <1>4, <2>1 DEF DeadInv
<1> QED
  BY <1>2, <1>5, <1>6, <1>7

LEMMA IInvStep ==
    ASSUME IInv, [Next]_vars
    PROVE  IInv'
<1>1. TypeOK'
  BY TypeStep DEF IInv
<1>2. CASE UNCHANGED vars
  BY <1>1, <1>2 DEF IInv, LockInv, FileInv, ReadInv, DeadInv, Wrote, vars
<1>3. CASE Next
  BY <1>1, <1>3, DaemonStep, StopStep DEF Next, IInv
<1> QED
  BY <1>2, <1>3

LEMMA IInvCorrect == Spec => []IInv
<1>1. IInv /\ [Next]_vars => IInv'
  BY IInvStep
<1> QED
  BY IInvInit, <1>1, PTL DEF Spec

-----------------------------------------------------------------------------
\* The instance lock does its work for any number of processes, whichever of
\* them crash, are stopped or fail in their setup.
THEOREM AtMostOneDaemon == Spec => []OneDaemon
<1>1. IInv => OneDaemon
  BY DEF IInv, LockInv, OneDaemon
<1> QED
  BY <1>1, IInvCorrect, PTL

\* daemon-stop never signals a live process that never held the lock.
THEOREM PidFileIsRight == Spec => []PidFileNamesTheDaemon
<1>1. IInv => PidFileNamesTheDaemon
  BY DEF IInv, LockInv, FileInv, Wrote, Holding, Alive, PidFileNamesTheDaemon
<1> QED
  BY <1>1, IInvCorrect, PTL

\* The two races that leave a running daemon without its pid file are the only
\* ones.
THEOREM PidFileLoss == Spec => PidFileLostToPredecessor
<1>1. ASSUME IInv, [Next]_vars, NEW p \in Pids,
             Running(p), pid_file = p, pid_file' = None, pc'[p] # "gone"
      PROVE  \/ \E q \in Pids : pc[q] = "returned" /\ pc'[q] = "gone" /\ Predecessor(q, p)
             \/ \E s \in Stops : stop[s] = "stale" /\ Predecessor(target[s], p)
  <2>1. ASSUME NEW q \in Pids, Start(q) \/ Advance(q) \/ LoopFails(q) \/ Crash(q)
        PROVE  pc[q] = "returned" /\ pc'[q] = "gone"
    BY <1>1, <2>1, NoneAssumption
    DEF IInv, TypeOK, Start, Advance, AcquireLock, LockTaken, WritePid, EnterLoop,
        SetupFails, LeaveLoop, LoopFails, CleanupPidFile, Crash, Goto
  <2>2. ASSUME NEW q \in Pids, pc[q] = "returned"
        PROVE  Predecessor(q, p)
    BY <1>1, <2>2 DEF Predecessor, Running
  <2>3. ASSUME NEW s \in Stops,
               StopReads(s) \/ StopSignals(s) \/ StopFindsStale(s) \/ StopRemoves(s)
        PROVE  stop[s] = "stale"
    BY <1>1, <2>3, NoneAssumption DEF StopReads, StopSignals, StopFindsStale, StopRemoves
  <2>4. ASSUME NEW s \in Stops, stop[s] = "stale"
        PROVE  Predecessor(target[s], p)
    BY <1>1, <2>4 DEF IInv, DeadInv, Predecessor, Running
  <2>5. CASE UNCHANGED vars
    BY <1>1, <2>5, NoneAssumption DEF vars
  <2> QED
    BY <1>1, <2>1, <2>2, <2>3, <2>4, <2>5 DEF Next
<1>2. IInv /\ [Next]_vars =>
        [\A p \in Pids : Running(p) /\ pid_file = p /\ pid_file' = None /\ pc'[p] # "gone"
           => \/ \E q \in Pids : pc[q] = "returned" /\ pc'[q] = "gone" /\ Predecessor(q, p)
              \/ \E s \in Stops : stop[s] = "stale" /\ Predecessor(target[s], p)]_vars
  BY <1>1
<1> QED
  BY <1>2, IInvCorrect, PTL DEF Spec, PidFileLostToPredecessor
=============================================================================
