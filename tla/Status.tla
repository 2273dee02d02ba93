------------------------------- MODULE Status -------------------------------
(***************************************************************************)
(* The live description in TrickyStore's module.prop (rust/src/status):    *)
(* StatusTask of the daemon, `status update' and the uninstall command,    *)
(* which read and replace the description and its one backup without a     *)
(* lock.  TrickyStore is installed, its module.prop has a description.     *)
(*                                                                         *)
(* The text that describes the facts (build_description) is a model value; *)
(* replacing the line in module.prop is one step, the backup is several.   *)
(***************************************************************************)
EXTENDS Naturals

CONSTANTS
    Original,         \* the description TrickyStore came with
    Texts,            \* what build_description may return
    StatusDaemon, StatusCommands,
    Nowhere,          \* no file, no text
    MaxStatusRuns,    \* bound: commands, and removals called off
    MaxStatusFaults   \* bound: failing writes and kills

Describers == StatusCommands \cup {StatusDaemon}
Blank == "blank"      \* a description.bak that was opened and not written
Descriptions == Texts \cup {Original, Blank}

ASSUME StatusAssumption ==
    /\ Original \notin Texts /\ Blank \notin Texts \cup {Original}
    /\ Nowhere \notin Descriptions
    /\ StatusDaemon \notin StatusCommands
    /\ MaxStatusRuns \in Nat /\ MaxStatusFaults \in Nat

VARIABLES
    facts,               \* what build_description would return now
    description,         \* module.prop's
    backup,              \* description.bak
    describer,           \* where each process is, with the text it has read
    last_description,    \* StatusTask's fields
    original_saved,
    hidden,              \* .TA_enhanced exists: the module is hidden, on Magisk
    remove,              \* the remove marker exists
    status_runs, status_faults,
    unsaved              \* history: a save failed, or two saves overlapped

statusVars == <<facts, description, backup, describer, last_description, original_saved,
                hidden, remove, status_runs, status_faults, unsaved>>

Resting == [at |-> "rest", task |-> "none", read |-> Nowhere]
SaveSteps == {"check", "read", "open", "write"}

is_uninstall_pending == hidden \/ remove

-----------------------------------------------------------------------------

Step(q, step) == describer' = [describer EXCEPT ![q].at = step]

\* History: the save of one process overlaps that of another.
Overlaps ==
    unsaved' = (\/ unsaved
                \/ \E p, q \in Describers : /\ p # q
                                            /\ describer'[p].at \in SaveSteps
                                            /\ describer'[q].at \in SaveSteps)

\* StatusTask::run: the description is saved once in the daemon's life.
StatusRun ==
    /\ describer[StatusDaemon].at = "rest"
    /\ describer' = [describer EXCEPT ![StatusDaemon] =
         [Resting EXCEPT !.at = IF original_saved THEN "pending" ELSE "check", !.task = "daemon"]]
    /\ original_saved' = TRUE
    /\ Overlaps
    /\ UNCHANGED <<facts, description, backup, last_description, hidden, remove,
                   status_runs, status_faults>>

\* `status update', which the WebUI runs as well, and the uninstall command.
StatusCommand(q) ==
    /\ describer[q].at = "rest" /\ status_runs < MaxStatusRuns
    /\ status_runs' = status_runs + 1
    /\ describer' \in {[describer EXCEPT ![q] = [Resting EXCEPT !.at = "check", !.task = "update"]],
                       [describer EXCEPT ![q] = [Resting EXCEPT !.at = "restore", !.task = "uninstall"]]}
    /\ Overlaps
    /\ UNCHANGED <<facts, description, backup, last_description, original_saved, hidden, remove,
                   status_faults>>

\* Where a process goes once the original is saved, or could not be: the
\* daemon takes no notice of a failure.
AfterSave(q) == IF describer[q].task = "daemon" THEN "pending" ELSE "build"
AfterFailure(q) == IF describer[q].task = "daemon" THEN "pending" ELSE "rest"

\* Mutant of CheckBackup: each daemon saves the description it finds.
CheckAnew(q) ==
    /\ describer[q].at = "check"
    /\ Step(q, IF backup = Nowhere \/ q = StatusDaemon THEN "read" ELSE AfterSave(q))
    /\ Overlaps
    /\ UNCHANGED <<facts, description, backup, last_description, original_saved, hidden, remove,
                   status_runs, status_faults>>

\* save_original_description: nothing to do once there is a backup.
CheckBackup(q) ==
    /\ describer[q].at = "check"
    /\ Step(q, IF backup = Nowhere THEN "read" ELSE AfterSave(q))
    /\ Overlaps
    /\ UNCHANGED <<facts, description, backup, last_description, original_saved, hidden, remove,
                   status_runs, status_faults>>

ReadDescription(q) ==
    /\ describer[q].at = "read"
    /\ describer' = [describer EXCEPT ![q].at = "open", ![q].read = description]
    /\ Overlaps
    /\ UNCHANGED <<facts, description, backup, last_description, original_saved, hidden, remove,
                   status_runs, status_faults>>

\* fs::write, not atomic_write: the file is opened, then filled.
OpenBackup(q) ==
    /\ describer[q].at = "open"
    /\ backup' = Blank
    /\ Step(q, "write")
    /\ Overlaps
    /\ UNCHANGED <<facts, description, last_description, original_saved, hidden, remove,
                   status_runs, status_faults>>

WriteBackup(q) ==
    /\ describer[q].at = "write"
    /\ backup' = describer[q].read
    /\ describer' = [describer EXCEPT ![q].at = AfterSave(q), ![q].read = Nowhere]
    /\ Overlaps
    /\ UNCHANGED <<facts, description, last_description, original_saved, hidden, remove,
                   status_runs, status_faults>>

\* A save fails, leaving what the file holds by then.  A description that
\* cannot be read is no failure: there is nothing to save, and all goes on.
SaveFails(q) ==
    /\ describer[q].at \in {"read", "open", "write"} /\ status_faults < MaxStatusFaults
    /\ status_faults' = status_faults + 1
    /\ LET next == IF describer[q].at = "read" THEN AfterSave(q) ELSE AfterFailure(q)
       IN  describer' = [describer EXCEPT ![q].at = next, ![q].read = Nowhere]
    /\ unsaved' = TRUE
    /\ UNCHANGED <<facts, description, backup, last_description, original_saved, hidden, remove,
                   status_runs>>

-----------------------------------------------------------------------------

\* The daemon asks whether the module is to be removed.
AskPending ==
    /\ describer[StatusDaemon].at = "pending"
    /\ Step(StatusDaemon, IF is_uninstall_pending THEN "restore" ELSE "build")
    /\ UNCHANGED <<facts, description, backup, last_description, original_saved, hidden, remove,
                   status_runs, status_faults, unsaved>>

\* Mutant of Restore: the original is put back only over the daemon's own text.
RestoreOverOurs(q) ==
    /\ describer[q].at = "restore"
    /\ description' = IF backup = Nowhere \/ description # last_description
                      THEN description ELSE backup
    /\ Step(q, IF describer[q].task = "uninstall" THEN "mark" ELSE "rest")
    /\ UNCHANGED <<facts, backup, last_description, original_saved, hidden, remove,
                   status_runs, status_faults, unsaved>>

\* restore_original_description: of the daemon, and of the uninstall command,
\* which goes on to the marker.
Restore(q) ==
    /\ describer[q].at = "restore"
    /\ description' = IF backup = Nowhere THEN description ELSE backup
    /\ Step(q, IF describer[q].task = "uninstall" THEN "mark" ELSE "rest")
    /\ UNCHANGED <<facts, backup, last_description, original_saved, hidden, remove,
                   status_runs, status_faults, unsaved>>

MarkRemoval(q) ==
    /\ describer[q].at = "mark"
    /\ remove' = TRUE
    /\ Step(q, "rest")
    /\ UNCHANGED <<facts, description, backup, last_description, original_saved, hidden,
                   status_runs, status_faults, unsaved>>

\* build_description.  The daemon goes on only if the text differs from the
\* one it wrote last.
Build(q) ==
    /\ describer[q].at = "build"
    /\ IF describer[q].task = "daemon" /\ facts = last_description
       THEN Step(q, "rest")
       ELSE describer' = [describer EXCEPT ![q].at = "update", ![q].read = facts]
    /\ UNCHANGED <<facts, description, backup, last_description, original_saved, hidden, remove,
                   status_runs, status_faults, unsaved>>

\* update_prop_description.
Update(q) ==
    /\ describer[q].at = "update"
    /\ description' = describer[q].read
    /\ last_description' = IF q = StatusDaemon THEN describer[q].read ELSE last_description
    /\ describer' = [describer EXCEPT ![q] = Resting]
    /\ UNCHANGED <<facts, backup, original_saved, hidden, remove,
                   status_runs, status_faults, unsaved>>

\* A restore or an update fails; the uninstall command marks all the same.
WriteFails(q) ==
    /\ describer[q].at \in {"restore", "update"} /\ status_faults < MaxStatusFaults
    /\ status_faults' = status_faults + 1
    /\ describer' = [describer EXCEPT ![q].at = IF describer[q].task = "uninstall" THEN "mark" ELSE "rest",
                                      ![q].read = Nowhere]
    /\ UNCHANGED <<facts, description, backup, last_description, original_saved, hidden, remove,
                   status_runs, unsaved>>

-----------------------------------------------------------------------------

\* The daemon is killed and started again, perhaps in the middle of a save.
DaemonRestarts ==
    /\ status_faults < MaxStatusFaults
    /\ status_faults' = status_faults + 1
    /\ unsaved' = (unsaved \/ describer[StatusDaemon].at \in {"read", "open", "write"})
    /\ describer' = [describer EXCEPT ![StatusDaemon] = Resting]
    /\ last_description' = Nowhere
    /\ original_saved' = FALSE
    /\ UNCHANGED <<facts, description, backup, hidden, remove, status_runs>>

FactsChange ==
    /\ facts' \in Texts \ {facts}
    /\ UNCHANGED <<description, backup, describer, last_description, original_saved, hidden, remove,
                   status_runs, status_faults, unsaved>>

\* The manager marks the module for removal, or takes the mark back.
RemovalToggled ==
    /\ status_runs < MaxStatusRuns
    /\ status_runs' = status_runs + 1
    /\ remove' = ~remove
    /\ UNCHANGED <<facts, description, backup, describer, last_description, original_saved, hidden,
                   status_faults, unsaved>>

StatusStep(q) ==
    \/ CheckBackup(q) \/ ReadDescription(q) \/ OpenBackup(q) \/ WriteBackup(q)
    \/ Restore(q) \/ Build(q) \/ Update(q)

StatusDaemonStep == StatusRun \/ AskPending \/ StatusStep(StatusDaemon)

StatusInit ==
    /\ facts \in Texts
    /\ description = Original
    /\ backup = Nowhere
    /\ describer = [q \in Describers |-> Resting]
    /\ last_description = Nowhere
    /\ original_saved = FALSE
    /\ hidden \in BOOLEAN
    /\ remove = FALSE
    /\ status_runs = 0 /\ status_faults = 0
    /\ unsaved = FALSE

StatusNext ==
    \/ StatusRun \/ AskPending \/ DaemonRestarts \/ FactsChange \/ RemovalToggled
    \/ \E q \in StatusCommands : StatusCommand(q) \/ MarkRemoval(q)
    \/ \E q \in Describers : StatusStep(q) \/ SaveFails(q) \/ WriteFails(q)

StatusSpec == StatusInit /\ [][StatusNext]_statusVars
StatusFairSpec == StatusSpec /\ WF_statusVars(StatusDaemonStep)

-----------------------------------------------------------------------------
(* Properties *)

StatusTypeOK ==
    /\ facts \in Texts
    /\ description \in Descriptions
    /\ backup \in Descriptions \cup {Nowhere}
    /\ \A q \in Describers :
         /\ describer[q].at \in SaveSteps \cup {"rest", "pending", "restore", "mark", "build", "update"}
         /\ describer[q].task \in {"none", "daemon", "update", "uninstall"}
         /\ describer[q].read \in Descriptions \cup {Nowhere}
    /\ last_description \in Texts \cup {Nowhere}
    /\ original_saved \in BOOLEAN /\ hidden \in BOOLEAN
    /\ remove \in BOOLEAN /\ unsaved \in BOOLEAN
    /\ status_runs \in 0..MaxStatusRuns /\ status_faults \in 0..MaxStatusFaults

\* The backup holds TrickyStore's own description and never one of ours, nor a
\* part of it, once no save is under way; unless a save failed, was cut short,
\* or was overtaken by another process's (save_original_description).
BackupIsOriginal ==
    (~unsaved /\ \A q \in Describers : describer[q].at \notin SaveSteps)
    => backup \in {Nowhere, Original}

\* While the module is hidden or to be removed, its description is the
\* original again in the end and stays so, whatever was written before and by
\* whom, and however often a restore failed.  Where a save went wrong it is
\* what the backup came to hold, if there is one (StatusTask::run,
\* restore_original_description, uninstall).  On Magisk service.sh hides the
\* module at every boot: there this is how the description ends, every time.
OriginalComesBack ==
    <>[]is_uninstall_pending =>
        <>[](\/ description = Original
             \/ unsaved /\ (backup # Nowhere => description = backup))
=============================================================================
