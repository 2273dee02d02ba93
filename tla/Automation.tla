----------------------------- MODULE Automation -----------------------------
(***************************************************************************)
(* The target list: the daemon's automation pass (AutomationTask::run in   *)
(* rust/src/daemon/tasks.rs), `automation check' and `automation cleanup'  *)
(* on the command line (rust/src/automation), and the WebUI.  All of them  *)
(* read, change and write target.txt, and none holds a lock.  The daemon   *)
(* and the commands write it by way of one target.tmp (atomic_write), the  *)
(* WebUI by way of a file of its own.                                      *)
(*                                                                         *)
(* target.txt is a function from apps to the mark of their line.  Comments *)
(* and the order of the lines are left out: nothing depends on them.       *)
(***************************************************************************)
EXTENDS Naturals

CONSTANTS
    Apps,
    ThirdParty,    \* what `pm list packages -3' may list
    Unwanted,      \* Xposed modules and apps the exclude list matches
    UserLists,     \* the lists the user has, or saves
    Daemon,        \* the daemon ...
    Commands,      \* ... and the automation commands that may run beside it
    None,          \* no file, no app
    MaxChanges,    \* bound: installs, uninstalls, lists of the user, commands run
    MaxFailures    \* bound: commands and file operations that fail

Scanners == Commands \cup {Daemon}
Eligible == ThirdParty \ Unwanted
Marks    == {"none", "plain", "marked"}    \* no line, `pkg', and `pkg!' or `pkg?'
Lists    == [Apps -> Marks]
Empty    == [a \in Apps |-> "none"]
Listed(list) == {a \in Apps : list[a] # "none"}

ASSUME AutomationAssumption ==
    /\ ThirdParty \subseteq Apps
    /\ UserLists \subseteq Lists
    /\ Daemon \notin Commands
    /\ MaxChanges \in Nat /\ MaxFailures \in Nat
    /\ None \notin Apps
    /\ \A list \in Lists : list # None
    /\ \A apps \in SUBSET Apps : apps # None
    /\ \A s \in Scanners : s # None

VARIABLES
    installed,    \* packages.list; its third-party part is pm's
    data,         \* apps with a directory in /data/data
    target,       \* target.txt
    tmp,          \* target.tmp
    handle,       \* the file that each scanner has open for writing is now ...
    known,        \* known_packages.txt
    auto_added,   \* auto_added.txt
    pending,      \* applist.pending
    job,          \* where each scanner is, with its local variables
    changes, failures,
    lost,         \* history: apps whose line target.txt once had, or was to get
                  \* in a crossed write, and does not have
    crossed,      \* history: scanners in whose write another has written target.tmp
    gone,         \* history: apps that have been missing at some time
    unread,       \* history: the daemon has not read what applist.pending holds
    put           \* history: what its rename has put in place for applist.pending

phone   == <<installed, data, gone>>
entries == <<target, lost>>
temps   == <<tmp, handle, crossed>>
inbox   == <<pending, unread, put>>
records == <<known, auto_added>>
bounds  == <<changes, failures>>
vars    == <<phone, entries, temps, inbox, records, job, bounds>>

Stages  == {"idle", "applied", "list", "load", "add", "record", "save", "all", "targets",
            "cleanup", "forget", "open", "fill", "rename"}
Writes  == {"none", "apply", "add", "remove"}
Handles == {"none", "tmp", "target", "unlinked"}

\* write: what target.txt is written for, if it is; current: the packages
\* listed; legacy: the known packages loaded; todo: what the loop has still to
\* look at; pkg: the one it is at; lines: the list read.
Jobs == [pc : Stages, write : Writes, current : SUBSET Apps, legacy : SUBSET Apps,
         todo : SUBSET Apps, pkg : Apps \cup {None}, lines : Lists]

TypeOK ==
    /\ installed \subseteq Apps /\ data \subseteq Apps /\ gone \subseteq Apps
    /\ target \in Lists /\ lost \subseteq Apps
    /\ tmp = None \/ tmp \in Lists
    /\ handle \in [Scanners -> Handles] /\ crossed \subseteq Scanners
    /\ pending = None \/ pending \in Lists
    /\ put = None \/ put \in Lists
    /\ unread \in BOOLEAN
    /\ known \subseteq Apps
    /\ auto_added = None \/ auto_added \subseteq Apps
    /\ job \in [Scanners -> Jobs]
    /\ changes \in 0 .. MaxChanges /\ failures \in 0 .. MaxFailures

At(stage) == [pc |-> stage, write |-> "none", current |-> {}, legacy |-> {}, todo |-> {},
              pkg |-> None, lines |-> Empty]

\* The installer has written both files, or kept the user's: in automatic mode
\* with a line for every app, in manual mode with those the user wants, and in
\* both with lines for system apps that need not exist.  known_packages.txt of
\* an old version has the system apps, too.
Init ==
    /\ installed \in SUBSET Apps
    /\ data \in {installed, {}}    \* /data/data is empty before the first unlock
    /\ gone = Apps \ installed
    /\ target \in UserLists
    /\ tmp = None /\ handle = [s \in Scanners |-> "none"] /\ crossed = {}
    /\ pending = None
    /\ unread = FALSE /\ put = None
    /\ known \in {installed \cap ThirdParty, installed}
    /\ lost = known \ Listed(target)
    /\ auto_added \in {None, {}}
    /\ job = [s \in Scanners |-> At("idle")]
    /\ changes = 0 /\ failures = 0

-----------------------------------------------------------------------------
Fails  == failures < MaxFailures /\ failures' = failures + 1 /\ UNCHANGED changes
Change == changes < MaxChanges /\ changes' = changes + 1 /\ UNCHANGED failures

\* target.txt is replaced: what had a line, or had lost one, or was to get one
\* and has none now.
Retarget(new, missed) ==
    /\ target' = new
    /\ lost' = (lost \cup Listed(target) \cup missed) \ Listed(new)

\* The end of a loop, or of a run: the local variables are gone.
Leave(s, to) == job' = [job EXCEPT ![s] = At(to)]

\* Whatever check_new_packages returned, the daemon goes on to the cleanup.
Checked(s) == Leave(s, IF s = Daemon THEN "all" ELSE "idle")

-----------------------------------------------------------------------------
(***************************************************************************)
(* atomic_write of target.txt: target.tmp is opened, which empties it,     *)
(* filled, and renamed.                                                    *)
(***************************************************************************)

Writing(s) == job[s].pc \in {"fill", "rename"}

\* Mutants: read_target, which strips the marks, was read; the list is written
\* back with the line that was to go.
Stripped(list) == [a \in Apps |-> IF list[a] = "none" THEN "none" ELSE "plain"]
NewListStripped(s) ==
    CASE job[s].write = "add"    -> [Stripped(job[s].lines) EXCEPT ![job[s].pkg] = "plain"]
      [] job[s].write = "remove" -> [Stripped(job[s].lines) EXCEPT ![job[s].pkg] = "none"]
      [] OTHER                   -> job[s].lines
NewListKept(s) ==
    CASE job[s].write = "add" -> [job[s].lines EXCEPT ![job[s].pkg] = "plain"]
      [] OTHER                -> job[s].lines

\* The list that is written: the pending one, or the one that was read with a
\* line more (add_package) or less (remove_package).
NewList(s) ==
    CASE job[s].write = "add"    -> [job[s].lines EXCEPT ![job[s].pkg] = "plain"]
      [] job[s].write = "remove" -> [job[s].lines EXCEPT ![job[s].pkg] = "none"]
      [] OTHER                   -> job[s].lines

\* A list written from the beginning of a file: a longer one shows behind it.
Over(old, new) ==
    {list \in Lists : \A a \in Apps : list[a] = new[a] \/ (new[a] = "none" /\ list[a] = old[a])}

OpenTmp(s) ==
    /\ job[s].pc = "open"
    /\ job' = [job EXCEPT ![s].pc = "fill"]
    /\ tmp' = Empty
    /\ handle' = [handle EXCEPT ![s] = "tmp"]
    /\ LET others == {t \in Scanners \ {s} : Writing(t)}
       IN  crossed' = IF others = {} THEN crossed \ {s} ELSE crossed \cup others \cup {s}
    /\ UNCHANGED <<phone, entries, inbox, records, bounds>>

\* By now the file may have been renamed to target.txt, or replaced there.
FillTmp(s) ==
    /\ job[s].pc = "fill"
    /\ job' = [job EXCEPT ![s].pc = "rename"]
    /\ CASE handle[s] = "tmp"    -> tmp' \in Over(tmp, NewList(s)) /\ UNCHANGED entries
         [] handle[s] = "target" -> /\ \E list \in Over(target, NewList(s)) : Retarget(list, {})
                                    /\ UNCHANGED tmp
         [] OTHER                -> UNCHANGED <<tmp, entries>>
    /\ handle' = [handle EXCEPT ![s] = "none"]
    /\ UNCHANGED <<phone, crossed, inbox, records, bounds>>

\* Where another file takes the place of target.txt.
Moved(file) == CASE file = "tmp" -> "target" [] file = "target" -> "unlinked" [] OTHER -> file

\* The rename installs what target.tmp holds, whoever wrote it.
Rename(s, to) ==
    /\ job[s].pc = "rename" /\ tmp # None
    /\ job' = [job EXCEPT ![s].pc = to, ![s].write = "none", ![s].lines = Empty]
    /\ Retarget(tmp, IF s \in crossed /\ job[s].write = "add" THEN {job[s].pkg} ELSE {})
    /\ tmp' = None
    /\ handle' = [t \in Scanners |-> Moved(handle[t])]
    /\ UNCHANGED <<phone, records, bounds>>

\* A step of the write fails: of itself the rename of a target.tmp that another
\* scanner has renamed.
WriteFails(s) ==
    /\ \/ Fails
       \/ job[s].pc = "rename" /\ tmp = None /\ UNCHANGED bounds
    /\ handle' = [handle EXCEPT ![s] = "none"]
    /\ crossed' = crossed \ {s}
    /\ UNCHANGED <<phone, entries, tmp, records>>

-----------------------------------------------------------------------------
(***************************************************************************)
(* AutomationTask::run: the list the WebUI has left, then check, cleanup.  *)
(***************************************************************************)

BeginPass ==
    /\ job[Daemon].pc = "idle" /\ pending = None
    /\ Leave(Daemon, "list")
    /\ UNCHANGED <<phone, entries, temps, inbox, records, bounds>>

\* Mutant: nobody asks whether there is a list.
ReadPendingUnasked ==
    /\ job[Daemon].pc = "idle"
    /\ job' = [job EXCEPT ![Daemon].pc = "open", ![Daemon].write = "apply",
                          ![Daemon].lines = pending]
    /\ unread' = FALSE
    /\ UNCHANGED <<phone, entries, temps, pending, put, records, bounds>>

ReadPending ==
    /\ job[Daemon].pc = "idle" /\ pending # None
    /\ job' = [job EXCEPT ![Daemon].pc = "open", ![Daemon].write = "apply",
                          ![Daemon].lines = pending]
    /\ unread' = FALSE
    /\ UNCHANGED <<phone, entries, temps, pending, put, records, bounds>>

ReadPendingFails ==
    /\ job[Daemon].pc = "idle" /\ pending # None
    /\ Fails
    /\ Leave(Daemon, "list")
    /\ UNCHANGED <<phone, entries, temps, inbox, records>>

ApplyPending ==
    /\ job[Daemon].write = "apply"
    /\ Rename(Daemon, "applied")
    /\ put' = tmp
    /\ UNCHANGED <<crossed, pending, unread>>

\* Mutant: the list is removed whether or not it could be written.
ApplyFailsRemoved ==
    /\ job[Daemon].write = "apply"
    /\ WriteFails(Daemon)
    /\ pending' = None
    /\ Leave(Daemon, "list")
    /\ UNCHANGED <<unread, put>>

ApplyFails ==
    /\ job[Daemon].write = "apply"
    /\ WriteFails(Daemon)
    /\ Leave(Daemon, "list")
    /\ UNCHANGED inbox

RemovePending ==
    /\ job[Daemon].pc = "applied"
    /\ \/ pending' = None /\ UNCHANGED bounds
       \/ Fails /\ UNCHANGED pending
    /\ put' = None
    /\ crossed' = crossed \ {Daemon}
    /\ Leave(Daemon, "list")
    /\ UNCHANGED <<phone, entries, tmp, handle, unread, records>>

\* `automation check' and `automation cleanup'.
BeginCommand(s) ==
    /\ s \in Commands /\ job[s].pc = "idle"
    /\ Change
    /\ \E to \in {"list", "all"} : Leave(s, to)
    /\ UNCHANGED <<phone, entries, temps, inbox, records>>

-----------------------------------------------------------------------------
(***************************************************************************)
(* check_new_packages.                                                     *)
(***************************************************************************)

ListThirdParty(s) ==
    /\ job[s].pc = "list"
    /\ job' = [job EXCEPT ![s].pc = "load", ![s].current = installed \cap ThirdParty]
    /\ UNCHANGED <<phone, entries, temps, inbox, records, bounds>>

\* Mutant: the difference is taken the wrong way round.
LoadKnownSwapped(s) ==
    /\ job[s].pc = "load"
    /\ job' = [job EXCEPT ![s].pc = "add", ![s].legacy = known,
                          ![s].todo = known \ job[s].current]
    /\ UNCHANGED <<phone, entries, temps, inbox, records, bounds>>

\* A file that cannot be read is taken for an empty one.
LoadKnown(s) ==
    /\ job[s].pc = "load"
    /\ \E loaded \in {known, {}} :
          /\ IF loaded = known THEN UNCHANGED bounds ELSE Fails
          /\ job' = [job EXCEPT ![s].pc = "add", ![s].legacy = loaded,
                                ![s].todo = job[s].current \ loaded]
    /\ UNCHANGED <<phone, entries, temps, inbox, records>>

\* An Xposed module, an excluded app, or one that has a line.
PassOver(s) ==
    /\ job[s].pc = "add"
    /\ \E a \in job[s].todo \cap (Unwanted \cup Listed(target)) :
          job' = [job EXCEPT ![s].todo = @ \ {a}]
    /\ UNCHANGED <<phone, entries, temps, inbox, records, bounds>>

\* add_package: the list is read ...
ReadToAdd(s) ==
    /\ job[s].pc = "add"
    /\ \E a \in job[s].todo \ (Unwanted \cup Listed(target)) :
          job' = [job EXCEPT ![s].pc = "open", ![s].write = "add", ![s].pkg = a,
                             ![s].lines = target]
    /\ UNCHANGED <<phone, entries, temps, inbox, records, bounds>>

\* ... and written.
WriteAdded(s) ==
    /\ job[s].write = "add"
    /\ Rename(s, "record")
    /\ crossed' = crossed \ {s}
    /\ UNCHANGED inbox

\* record_auto_added; what it returns is ignored.
Record(s) ==
    /\ job[s].pc = "record"
    /\ \/ /\ auto_added' = (IF auto_added = None THEN {} ELSE auto_added) \cup {job[s].pkg}
          /\ UNCHANGED bounds
       \/ Fails /\ UNCHANGED auto_added
    /\ job' = [job EXCEPT ![s].pc = "add", ![s].todo = @ \ {job[s].pkg}, ![s].pkg = None]
    /\ UNCHANGED <<phone, entries, temps, inbox, known>>

\* bootstrap_auto_added, if the file is missing once the loop is through.
Bootstrap(s) ==
    /\ job[s].pc = "add" /\ job[s].todo = {}
    /\ auto_added' = IF auto_added = None
                     THEN job[s].legacy \cap Listed(target) \cap (installed \ ThirdParty)
                     ELSE auto_added
    /\ job' = [job EXCEPT ![s].pc = "save"]
    /\ UNCHANGED <<phone, entries, temps, inbox, known, bounds>>

\* Mutant: the packages are listed afresh.
SaveFresh(s) ==
    /\ job[s].pc = "save"
    /\ known' = installed \cap ThirdParty
    /\ Checked(s)
    /\ UNCHANGED <<phone, entries, temps, inbox, auto_added, bounds>>

\* Two scanners that save at once share known_packages.tmp, too, and leave any
\* part of what they write.
Together(s) == {t \in Scanners \ {s} : job[t].pc = "save"}
SaveKnown(s) ==
    /\ job[s].pc = "save"
    /\ known' \in {job[s].current} \cup
                 UNION {SUBSET (job[s].current \cup job[t].current) : t \in Together(s)}
    /\ Checked(s)
    /\ UNCHANGED <<phone, entries, temps, inbox, auto_added, bounds>>

\* pm, a read of target.txt, bootstrap_auto_added or save_known_packages fails:
\* check_new_packages returns, and known stays.
CheckFails(s) ==
    /\ \/ job[s].pc \in {"list", "save"}
       \/ job[s].pc = "add" /\ job[s].todo \ Unwanted # {}
       \/ job[s].pc = "add" /\ job[s].todo = {} /\ auto_added = None
    /\ Fails
    /\ Checked(s)
    /\ UNCHANGED <<phone, entries, temps, inbox, records>>

\* The same, where target.txt cannot be written.
AddFails(s) ==
    /\ job[s].write = "add" /\ WriteFails(s)
    /\ Checked(s)
    /\ UNCHANGED inbox

Check(s) ==
    \/ ListThirdParty(s) \/ LoadKnown(s) \/ PassOver(s) \/ ReadToAdd(s) \/ WriteAdded(s)
    \/ Record(s) \/ Bootstrap(s) \/ SaveKnown(s) \/ CheckFails(s) \/ AddFails(s)

-----------------------------------------------------------------------------
(***************************************************************************)
(* cleanup_dead_apps.                                                      *)
(***************************************************************************)

ListAll(s) ==
    /\ job[s].pc = "all"
    /\ job' = [job EXCEPT ![s].pc = "targets", ![s].current = installed]
    /\ UNCHANGED <<phone, entries, temps, inbox, records, bounds>>

ReadTargets(s) ==
    /\ job[s].pc = "targets"
    /\ job' = [job EXCEPT ![s].pc = "cleanup", ![s].todo = Listed(target)]
    /\ UNCHANGED <<phone, entries, temps, inbox, records, bounds>>

LooksAlive(s, a) == a \in job[s].current \/ a \in data

\* The app is there, or somebody else has removed its line.
Keep(s) ==
    /\ job[s].pc = "cleanup"
    /\ \E a \in job[s].todo :
          /\ a \in Listed(target) => LooksAlive(s, a)
          /\ job' = [job EXCEPT ![s].todo = @ \ {a}]
    /\ UNCHANGED <<phone, entries, temps, inbox, records, bounds>>

\* remove_package: the list is read ...
ReadToRemove(s) ==
    /\ job[s].pc = "cleanup"
    /\ \E a \in job[s].todo \cap Listed(target) :
          /\ ~LooksAlive(s, a)
          /\ job' = [job EXCEPT ![s].pc = "open", ![s].write = "remove", ![s].pkg = a,
                                ![s].lines = target]
    /\ UNCHANGED <<phone, entries, temps, inbox, records, bounds>>

\* ... and written.
WriteRemoved(s) ==
    /\ job[s].write = "remove"
    /\ Rename(s, "forget")
    /\ crossed' = crossed \ {s}
    /\ UNCHANGED inbox

\* forget_auto_added; what it returns is ignored.
Forget(s) ==
    /\ job[s].pc = "forget"
    /\ \/ /\ auto_added' = IF auto_added = None THEN None ELSE auto_added \ {job[s].pkg}
          /\ UNCHANGED bounds
       \/ Fails /\ UNCHANGED auto_added
    /\ job' = [job EXCEPT ![s].pc = "cleanup", ![s].todo = @ \ {job[s].pkg}, ![s].pkg = None]
    /\ UNCHANGED <<phone, entries, temps, inbox, known>>

EndCleanup(s) ==
    /\ job[s].pc = "cleanup" /\ job[s].todo = {}
    /\ Leave(s, "idle")
    /\ UNCHANGED <<phone, entries, temps, inbox, records, bounds>>

CleanupFails(s) ==
    /\ \/ job[s].pc \in {"all", "targets"}
       \/ job[s].pc = "cleanup" /\ \E a \in job[s].todo : ~LooksAlive(s, a)
    /\ Fails
    /\ Leave(s, "idle")
    /\ UNCHANGED <<phone, entries, temps, inbox, records>>

RemoveFails(s) ==
    /\ job[s].write = "remove" /\ WriteFails(s)
    /\ Leave(s, "idle")
    /\ UNCHANGED inbox

Cleanup(s) ==
    \/ ListAll(s) \/ ReadTargets(s) \/ Keep(s) \/ ReadToRemove(s) \/ WriteRemoved(s)
    \/ Forget(s) \/ EndCleanup(s) \/ CleanupFails(s) \/ RemoveFails(s)

-----------------------------------------------------------------------------
(***************************************************************************)
(* The package manager and the user.                                       *)
(***************************************************************************)

Install(a) ==
    /\ a \notin installed
    /\ Change
    /\ installed' = installed \cup {a}
    /\ data' = data \cup {a}
    /\ UNCHANGED <<gone, entries, temps, inbox, records, job>>

\* `pm uninstall -k' keeps the data.
Uninstall(a) ==
    /\ a \in installed
    /\ Change
    /\ installed' = installed \ {a}
    /\ data' \in {data, data \ {a}}
    /\ gone' = gone \cup {a}
    /\ UNCHANGED <<entries, temps, inbox, records, job>>

\* `applist save' with a list on its standard input.
SaveList(new) ==
    /\ Change
    /\ pending' = new
    /\ unread' = TRUE
    /\ UNCHANGED <<phone, entries, temps, put, records, job>>

\* The WebUI's own save: a new target.txt, moved into place.
WriteList(new) ==
    /\ Change
    /\ Retarget(new, {})
    /\ handle' = [t \in Scanners |-> IF handle[t] = "target" THEN "unlinked" ELSE handle[t]]
    /\ UNCHANGED <<phone, tmp, crossed, inbox, records, job>>

\* A scanner's step: one of a write, or of the two routines.
Scan(s) == OpenTmp(s) \/ FillTmp(s) \/ Check(s) \/ Cleanup(s)

Pass ==
    \/ BeginPass \/ ReadPending \/ ReadPendingFails \/ ApplyPending \/ ApplyFails
    \/ RemovePending \/ Scan(Daemon)
PackageManager == \E a \in Apps : Install(a) \/ Uninstall(a)
Command(s) == BeginCommand(s) \/ Scan(s)
User == \E new \in UserLists : SaveList(new) \/ WriteList(new)

Next == Pass \/ PackageManager \/ User \/ \E s \in Commands : Command(s)

Spec == Init /\ [][Next]_vars

\* The scheduler runs the task again and again; a command that runs ends.
Fairness == WF_vars(Pass) /\ \A s \in Commands : WF_vars(Scan(s))
FairSpec == Spec /\ Fairness

\* The daemon by itself, on a phone whose user installs and uninstalls apps.
AloneSpec == Init /\ [][Pass \/ PackageManager]_vars /\ WF_vars(Pass)

-----------------------------------------------------------------------------
(***************************************************************************)
(* Properties.                                                             *)
(***************************************************************************)

\* No app is taken for known that never had its line: whatever fails, and
\* whoever writes the files meanwhile, known_packages.txt is saved only after
\* every new app that qualifies was added.  The one way to miss a line is a
\* crossed write: the rename that reports success puts in place what another
\* scanner has written to target.tmp since (add_package, atomic_write).
KnownWereTargeted == known \cap Eligible \subseteq Listed(target) \cup lost

\* A scanner takes a line away, or changes its mark, only if the app has been
\* missing, or if somebody else has written the list since it was read; unless
\* another scanner wrote target.tmp in the midst of its write.
OthersLinesAreKept ==
    [][\A s \in Scanners \ crossed : FillTmp(s) \/ WriteAdded(s) \/ WriteRemoved(s) =>
         \A a \in Listed(target) \ gone :
            target'[a] = target[a] \/ job[s].lines[a] # target[a]]_vars

\* applist.pending is removed only when what it holds has been put in place of
\* target.txt, but for the two ways the code has to lose a list: the user saved
\* again between the daemon's read and its removal, or another scanner wrote
\* target.tmp in the midst of the daemon's write.
PendingIsApplied ==
    [][pending # None /\ pending' = None => unread \/ Daemon \in crossed \/ put = pending]_vars

\* The line of an app that stays away does not stay.
GoneAppsGo ==
    \A a \in Apps : <>[](a \notin installed \cup data) => <>[](target[a] = "none")

\* An app that qualifies and stays gets its line, unless it has lost one.
NewAppsArrive ==
    \A a \in Eligible : <>[](a \in installed /\ a \notin lost) => <>[](target[a] # "none")

\* README.md:116, "auto-adds new installations to target.txt": with a line for
\* every known app to begin with, and nobody but the daemon writing, an app
\* that qualifies, was missing, and is installed to stay gets its line.
InstallsArrive ==
    known \cap Eligible \subseteq Listed(target) =>
        \A a \in Eligible :
            <>(a \notin installed) /\ <>[](a \in installed) => <>[](target[a] # "none")
=============================================================================
