----------------------------- MODULE Lifecycle -----------------------------
(***************************************************************************)
(* The life of daemon processes: the instance lock, the pid file, the exit *)
(* handler that removes it, and the daemon-stop command                    *)
(* (rust/src/daemon/mod.rs, platform/process.rs, platform/fs.rs).  Every   *)
(* start of a daemon is a process of its own with a pid of its own.        *)
(***************************************************************************)
EXTENDS Naturals

CONSTANTS
    Pids,   \* daemon processes, one per start of `ta-enhanced daemon'
    Stops,  \* runs of `ta-enhanced daemon-stop'
    None

ASSUME NoneAssumption == None \notin Pids

VARIABLES
    pc,         \* where each daemon process is
    lock,       \* who holds the flock on daemon.lock
    pid_file,   \* the pid in daemon.pid
    SHUTDOWN,   \* SIGTERM has reached the process, or waits in its signalfd
    stop,       \* where each daemon-stop is
    target      \* the pid it has read

vars == <<pc, lock, pid_file, SHUTDOWN, stop, target>>

\* "locked": lock taken.  "written": pid file written, exit handler set.
\* "loop": in the event loop or in a task it runs.  "returned": run_daemon has
\* returned and dropped the lock, the exit handler has not run yet.
Stages  == {"idle", "started", "locked", "written", "loop", "returned", "gone"}
Holding == {"locked", "written", "loop"}

Alive(p)   == pc[p] \notin {"idle", "gone"}
Running(p) == pc[p] \in {"written", "loop"}

TypeOK ==
    /\ pc \in [Pids -> Stages]
    /\ lock \in Pids \cup {None}
    /\ pid_file \in Pids \cup {None}
    /\ SHUTDOWN \in [Pids -> BOOLEAN]
    /\ stop \in [Stops -> {"idle", "read", "stale", "done"}]
    /\ target \in [Stops -> Pids \cup {None}]
    /\ \A s \in Stops : stop[s] \in {"read", "stale"} => target[s] \in Pids

Init ==
    /\ pc = [p \in Pids |-> "idle"]
    /\ lock = None
    /\ pid_file = None
    /\ SHUTDOWN = [p \in Pids |-> FALSE]
    /\ stop = [s \in Stops |-> "idle"]
    /\ target = [s \in Stops |-> None]

-----------------------------------------------------------------------------
Goto(p, to)  == pc' = [pc EXCEPT ![p] = to]
StopAt(s, x) == stop' = [stop EXCEPT ![s] = x]
Unlocked(p)  == IF lock = p THEN None ELSE lock

\* Mutant: the pid file is written before the lock is tried.
StartWritesPid(p) ==
    /\ pc[p] = "idle"
    /\ Goto(p, "started")
    /\ pid_file' = p
    /\ UNCHANGED <<lock, SHUTDOWN, stop, target>>

\* main, daemonize: fork and setsid.
Start(p) ==
    /\ pc[p] = "idle"
    /\ Goto(p, "started")
    /\ UNCHANGED <<lock, pid_file, SHUTDOWN, stop, target>>

\* Mutant: what flock returns is not looked at.
AcquireUnchecked(p) ==
    /\ pc[p] = "started"
    /\ lock' = p
    /\ Goto(p, "locked")
    /\ UNCHANGED <<pid_file, SHUTDOWN, stop, target>>

\* flock(LOCK_EX | LOCK_NB).
AcquireLock(p) ==
    /\ pc[p] = "started" /\ lock = None
    /\ lock' = p
    /\ Goto(p, "locked")
    /\ UNCHANGED <<pid_file, SHUTDOWN, stop, target>>

\* "another ta-enhanced daemon is already running": exit(1), the exit handler
\* not yet registered.
LockTaken(p) ==
    /\ pc[p] = "started" /\ lock # None
    /\ Goto(p, "gone")
    /\ UNCHANGED <<lock, pid_file, SHUTDOWN, stop, target>>

WritePid(p) ==
    /\ pc[p] = "locked"
    /\ pid_file' = p
    /\ Goto(p, "written")
    /\ UNCHANGED <<lock, SHUTDOWN, stop, target>>

\* Mutant: a SIGTERM that arrived during the setup is forgotten.
EnterLoopDeaf(p) ==
    /\ pc[p] = "written"
    /\ Goto(p, "loop")
    /\ SHUTDOWN' = [SHUTDOWN EXCEPT ![p] = FALSE]
    /\ UNCHANGED <<lock, pid_file, stop, target>>

\* Configuration, watches and scheduler in place, the loop starts.  A SIGTERM
\* on the way is caught by main's handler, then by the signalfd.
EnterLoop(p) ==
    /\ pc[p] = "written"
    /\ Goto(p, "loop")
    /\ UNCHANGED <<lock, pid_file, SHUTDOWN, stop, target>>

\* run_daemon returns: with an error before the loop (or without the pid file,
\* and then without the exit handler), or out of it at SHUTDOWN.
SetupFails(p) ==
    /\ pc[p] \in {"locked", "written"}
    /\ Goto(p, IF pc[p] = "locked" THEN "gone" ELSE "returned")
    /\ lock' = Unlocked(p)
    /\ UNCHANGED <<pid_file, SHUTDOWN, stop, target>>

LeaveLoop(p) ==
    /\ pc[p] = "loop" /\ SHUTDOWN[p]
    /\ Goto(p, "returned")
    /\ lock' = Unlocked(p)
    /\ UNCHANGED <<pid_file, SHUTDOWN, stop, target>>

\* epoll_wait fails, or a task panics: unwinding drops the lock, too, and the
\* exit handler runs.
LoopFails(p) ==
    /\ pc[p] = "loop"
    /\ Goto(p, "returned")
    /\ lock' = Unlocked(p)
    /\ UNCHANGED <<pid_file, SHUTDOWN, stop, target>>

\* cleanup_pid_file removes the file, whoever's pid it holds by now.
CleanupPidFile(p) ==
    /\ pc[p] = "returned"
    /\ Goto(p, "gone")
    /\ pid_file' = None
    /\ UNCHANGED <<lock, SHUTDOWN, stop, target>>

\* SIGKILL, from a user or the low-memory killer: the kernel drops the lock.
Crash(p) ==
    /\ Alive(p)
    /\ Goto(p, "gone")
    /\ lock' = Unlocked(p)
    /\ UNCHANGED <<pid_file, SHUTDOWN, stop, target>>

-----------------------------------------------------------------------------
\* Mutant: a missing pid file is not noticed.
StopReadsNothing(s) ==
    /\ stop[s] = "idle"
    /\ target' = [target EXCEPT ![s] = pid_file]
    /\ StopAt(s, "read")
    /\ UNCHANGED <<pc, lock, pid_file, SHUTDOWN>>

\* handle_daemon_stop: read_pid, then is_running, then SIGTERM or the removal
\* of what it takes for a stale file.
StopReads(s) ==
    /\ stop[s] = "idle"
    /\ target' = [target EXCEPT ![s] = pid_file]
    /\ StopAt(s, IF pid_file = None THEN "done" ELSE "read")
    /\ UNCHANGED <<pc, lock, pid_file, SHUTDOWN>>

StopSignals(s) ==
    /\ stop[s] = "read" /\ Alive(target[s])
    /\ SHUTDOWN' = [SHUTDOWN EXCEPT ![target[s]] = TRUE]
    /\ StopAt(s, "done")
    /\ UNCHANGED <<pc, lock, pid_file, target>>

\* Mutant: is_running is not asked.
StopAssumesStale(s) ==
    /\ stop[s] = "read"
    /\ StopAt(s, "stale")
    /\ UNCHANGED <<pc, lock, pid_file, SHUTDOWN, target>>
StopFindsStale(s) ==
    /\ stop[s] = "read" /\ ~Alive(target[s])
    /\ StopAt(s, "stale")
    /\ UNCHANGED <<pc, lock, pid_file, SHUTDOWN, target>>

StopRemoves(s) ==
    /\ stop[s] = "stale"
    /\ pid_file' = None
    /\ StopAt(s, "done")
    /\ UNCHANGED <<pc, lock, SHUTDOWN, target>>

Advance(p) ==
    \/ AcquireLock(p) \/ LockTaken(p) \/ WritePid(p) \/ EnterLoop(p)
    \/ SetupFails(p) \/ LeaveLoop(p) \/ CleanupPidFile(p)

Next ==
    \/ \E p \in Pids : Start(p) \/ Advance(p) \/ LoopFails(p) \/ Crash(p)
    \/ \E s \in Stops : StopReads(s) \/ StopSignals(s) \/ StopFindsStale(s) \/ StopRemoves(s)

Spec == Init /\ [][Next]_vars

\* A process that is not blocked for ever gets on; nobody has to start one
\* or stop one, and nothing has to fail.
FairSpec == Spec /\ \A p \in Pids : WF_vars(Advance(p))

-----------------------------------------------------------------------------
(***************************************************************************)
(* Properties.                                                             *)
(***************************************************************************)

\* Whatever crashes, stops and starts overlap, at most one process is between
\* taking the lock and giving it back.
OneDaemon == \A p, q \in Pids : pc[p] \in Holding /\ pc[q] \in Holding => p = q

\* A pid file never leads daemon-stop to a live daemon that is not the one in
\* charge, except one that is on its way out.
PidFileNamesTheDaemon ==
    \A p \in Pids : pid_file = p /\ Alive(p) => lock = p \/ pc[p] = "returned"

\* A running daemon loses its pid file in two ways only: a predecessor's exit
\* handler, which runs after the lock is free, or a daemon-stop that read a
\* dead predecessor's pid.
Predecessor(q, p) == q # p /\ ~Running(q)
PidFileLostToPredecessor ==
    [][\A p \in Pids : Running(p) /\ pid_file = p /\ pid_file' = None /\ pc'[p] # "gone"
        => \/ \E q \in Pids : pc[q] = "returned" /\ pc'[q] = "gone" /\ Predecessor(q, p)
           \/ \E s \in Stops : stop[s] = "stale" /\ Predecessor(target[s], p)]_vars

\* A SIGTERM is obeyed however early in the setup or late in the loop it is caught: the
\* process ends.
StopIsObeyed == \A p \in Pids : SHUTDOWN[p] ~> pc[p] = "gone"
=============================================================================
