---------------------------- MODULE ConfigReload ----------------------------
(***************************************************************************)
(* config.toml and the copy of it the daemon runs with: the loads of the   *)
(* daemon's start, the inotify watch, the debounced reload of its event    *)
(* loop (rust/src/daemon/mod.rs), Config::load with its write-back of      *)
(* clamped values (rust/src/config/mod.rs), and the other writers of the   *)
(* file: `config set' processes, `config restore', and an editor.          *)
(*                                                                         *)
(* Time is abstracted: a debounce set may fire at any later step, before   *)
(* or after the loop has seen the events that are pending by then.         *)
(***************************************************************************)
EXTENDS Naturals

CONSTANTS
    Configs,      \* the contents of a config.toml that parses
    Legacy,       \* those for which Config::validate returns a warning
    Clamp,        \* what validate makes of each, with a warning or without
    Default,      \* Config::default()
    Absent,       \* there is no file
    Corrupt,      \* the file does not parse
    None,
    MaxEdits      \* bound: writes by anyone but the daemon

ASSUME ClampAssumption ==
    /\ Legacy \subseteq Configs
    /\ Clamp \in [Configs -> Configs]
    /\ \A c \in Configs : Clamp[c] \notin Legacy /\ Clamp[Clamp[c]] = Clamp[c]
    /\ Default \in Configs /\ Clamp[Default] = Default

ASSUME MarkersAssumption ==
    /\ Absent \notin Configs /\ Corrupt \notin Configs /\ None \notin Configs
    /\ Absent # Corrupt
    /\ MaxEdits \in Nat

VARIABLES
    file, bak,    \* config.toml and config.toml.bak
    watch,        \* the inode now called config.toml is watched
    events,       \* unread inotify events
    pc,           \* where run_daemon is
    loaded,       \* what Config::load is about to write back, or None
    return,       \* and where run_daemon goes on when it has
    active,       \* the daemon's configuration
    SELF_WRITE,
    debounce,     \* inotify_debounce is Some
    restoring,    \* the inode fs::copy of `config restore' holds open
    edits,
    missed,       \* history: what became of the last reload
    raced,        \* history: the file changed between the start's load and its watch
    lost          \* history: there was no file when the daemon last looked for one to watch

load    == <<loaded, return>>
daemon  == <<pc, load, active, SELF_WRITE, debounce>>
writers == <<bak, restoring, edits>>
vars    == <<file, watch, events, daemon, writers, missed, raced, lost>>

Contents == Configs \cup {Absent, Corrupt}
Valid    == {Clamp[c] : c \in Configs}    \* what validate leaves as it is

TypeOK ==
    /\ file \in Contents
    /\ bak \in Contents
    /\ watch \in BOOLEAN
    /\ events \subseteq {"close_write", "delete_self"}
    /\ pc \in {"main", "run_daemon", "watch", "loop", "exited"}
    /\ loaded \in Valid \cup {None}
    /\ return \in {"run_daemon", "watch", "loop"}
    /\ active \in Configs
    /\ SELF_WRITE \in BOOLEAN
    /\ debounce \in BOOLEAN
    /\ restoring \in {"no", "open", "orphan", "watched orphan"}
    /\ edits \in 0 .. MaxEdits
    /\ missed \in {"no", "skipped", "failed"}
    /\ raced \in BOOLEAN /\ lost \in BOOLEAN

Init ==
    /\ file \in Configs \cup {Absent}
    /\ bak = Absent
    /\ watch = FALSE
    /\ events = {}
    /\ pc = "main"
    /\ loaded = None
    /\ return = "run_daemon"
    /\ active = Default
    /\ SELF_WRITE = FALSE
    /\ debounce = FALSE
    /\ restoring = "no"
    /\ edits = 0
    /\ missed = "no"
    /\ raced = FALSE
    /\ lost = FALSE

-----------------------------------------------------------------------------
(***************************************************************************)
(* The file system: a watch belongs to an inode, and ends with one last    *)
(* event when that is destroyed: when the file has been renamed over or    *)
(* removed and nobody holds it open any more.                              *)
(***************************************************************************)

NewFile(c) ==
    /\ file' = c
    /\ watch' = FALSE
    /\ IF restoring = "open"
       THEN /\ restoring' = IF watch THEN "watched orphan" ELSE "orphan"
            /\ UNCHANGED events
       ELSE /\ events' = IF watch THEN events \cup {"delete_self"} ELSE events
            /\ UNCHANGED restoring

Rewritten(c) ==
    /\ file' = c
    /\ events' = IF watch THEN events \cup {"close_write"} ELSE events
    /\ UNCHANGED watch

-----------------------------------------------------------------------------
(***************************************************************************)
(* The daemon.                                                             *)
(***************************************************************************)

\* Config::load up to the save, called at one pc and returning to another.  A
\* load that fails before the loop ends the process.
Fail(at) == pc' = IF at = "loop" THEN "loop" ELSE "exited"

\* Mutant of LoadClean: the result is not made the daemon's.
LoadForgets(next) ==
    /\ file \in {Absent} \cup (Configs \ Legacy)
    /\ pc' = next
    /\ UNCHANGED <<active, load, SELF_WRITE>>

LoadClean(next) ==
    /\ file \in {Absent} \cup (Configs \ Legacy)
    /\ active' = IF file = Absent THEN Default ELSE Clamp[file]
    /\ pc' = next
    /\ UNCHANGED <<load, SELF_WRITE>>

LoadCorrupt(at) ==
    /\ file = Corrupt
    /\ Fail(at)
    /\ UNCHANGED <<active, load, SELF_WRITE>>

\* Mutant: the file is written back as it was read.
LoadUnclamped(next) ==
    /\ file \in Legacy
    /\ SELF_WRITE' = TRUE
    /\ loaded' = file
    /\ return' = next
    /\ UNCHANGED <<pc, active>>

LoadLegacy(next) ==
    /\ file \in Legacy
    /\ SELF_WRITE' = TRUE
    /\ loaded' = Clamp[file]
    /\ return' = next
    /\ UNCHANGED <<pc, active>>

Load(at, next) ==
    /\ LoadClean(next) \/ LoadCorrupt(at) \/ LoadLegacy(next)
    /\ missed' = "no"
    /\ UNCHANGED <<raced, lost>>

\* The write-back of a load that had warnings.
Save ==
    /\ loaded # None
    /\ loaded' = None
    /\ pc' = return
    /\ active' = loaded
    /\ NewFile(loaded)
    /\ UNCHANGED <<return, SELF_WRITE, debounce, bak, edits, missed, raced, lost>>

SaveFails ==
    /\ loaded # None
    /\ loaded' = None
    /\ Fail(pc)
    /\ missed' = "failed"
    /\ UNCHANGED <<file, watch, events, return, active, SELF_WRITE, debounce, writers, raced, lost>>

\* main() loads before the fork, run_daemon once more.
Start(at, next) ==
    /\ pc = at /\ loaded = None
    /\ Load(at, next)
    /\ UNCHANGED <<file, watch, events, debounce, writers>>

\* inotify_add_watch finds an inode.
Watchable == file # Absent

CreateWatcher ==
    /\ pc = "watch" /\ loaded = None
    /\ pc' = "loop"
    /\ watch' = Watchable
    /\ lost' = (file = Absent)
    /\ UNCHANGED <<file, events, load, active, SELF_WRITE, debounce, writers, missed, raced>>

Idle == pc = "loop" /\ loaded = None

\* Mutants: the new inode is not looked for; it is, but what it holds is not
\* reloaded.
HandleInotifyNoRewatch ==
    /\ Idle /\ events # {}
    /\ events' = {}
    /\ debounce' = TRUE
    /\ UNCHANGED <<file, watch, lost, pc, load, active, SELF_WRITE, writers, missed, raced>>

Rewatch ==
    IF "delete_self" \in events
    THEN watch' = Watchable /\ lost' = (file = Absent)
    ELSE UNCHANGED <<watch, lost>>

HandleInotifyNoReload ==
    /\ Idle /\ events # {}
    /\ events' = {}
    /\ Rewatch
    /\ debounce' = (debounce \/ "close_write" \in events)
    /\ UNCHANGED <<file, pc, load, active, SELF_WRITE, writers, missed, raced>>

\* TAG_INOTIFY: three attempts to watch the new inode; the step stands for
\* the last one.
HandleInotify ==
    /\ Idle /\ events # {}
    /\ events' = {}
    /\ Rewatch
    /\ debounce' = TRUE
    /\ UNCHANGED <<file, pc, load, active, SELF_WRITE, writers, missed, raced>>

\* Mutant: the deadline is not cleared.
ReloadAgain ==
    /\ Idle /\ debounce /\ ~SELF_WRITE
    /\ Load("loop", "loop")
    /\ UNCHANGED <<file, watch, events, debounce, writers>>

Reload ==
    /\ Idle /\ debounce /\ ~SELF_WRITE
    /\ debounce' = FALSE
    /\ Load("loop", "loop")
    /\ UNCHANGED <<file, watch, events, writers>>

SkipReload ==
    /\ Idle /\ debounce /\ SELF_WRITE
    /\ debounce' = FALSE
    /\ SELF_WRITE' = FALSE
    /\ missed' = "skipped"
    /\ UNCHANGED <<file, watch, events, pc, load, active, writers, raced, lost>>

Daemon ==
    \/ Start("main", "run_daemon") \/ Start("run_daemon", "watch")
    \/ Save \/ SaveFails \/ CreateWatcher \/ HandleInotify \/ Reload \/ SkipReload

-----------------------------------------------------------------------------
(***************************************************************************)
(* The other writers.                                                      *)
(***************************************************************************)

Edit ==
    /\ edits < MaxEdits
    /\ edits' = edits + 1
    /\ raced' = (raced \/ pc = "watch")
    /\ UNCHANGED <<daemon, missed, lost>>

\* `config set': main's load writes a legacy file back, in one step here; then
\* set, which validates, backup and save.
SetWritesBack ==
    /\ file \in Legacy
    /\ Edit
    /\ NewFile(Clamp[file])
    /\ UNCHANGED bak

SetSaves ==
    /\ file # Corrupt
    /\ Edit
    /\ \E c \in Valid : NewFile(c)
    /\ bak' = IF file = Absent THEN bak ELSE file

\* `config restore': fs::copy truncates the file in place and fills it later.
\* An empty file parses, to the defaults.
RestoreOpen ==
    /\ bak # Absent /\ restoring = "no"
    /\ Edit
    /\ restoring' = "open"
    /\ file' = Default
    /\ UNCHANGED <<watch, events, bak>>

\* The copy is complete, or it fails or is killed and the file stays empty.
RestoreClose ==
    /\ restoring # "no"
    /\ restoring' = "no"
    /\ \/ restoring = "open" /\ \E c \in {bak, Default} : Rewritten(c)
       \/ restoring = "orphan" /\ UNCHANGED <<file, watch, events>>
       \/ /\ restoring = "watched orphan"
          /\ events' = events \cup {"close_write", "delete_self"}
          /\ UNCHANGED <<file, watch>>
    /\ raced' = (raced \/ pc = "watch")
    /\ UNCHANGED <<daemon, bak, edits, missed, lost>>

\* An editor or a root file manager: in place, by rename, or a removal.
EditInPlace ==
    /\ file # Absent /\ restoring = "no"
    /\ Edit
    /\ \E c \in Configs \cup {Corrupt} : Rewritten(c)
    /\ UNCHANGED <<bak, restoring>>

EditByRename ==
    /\ Edit
    /\ \E c \in Configs : NewFile(c)
    /\ UNCHANGED bak

Remove ==
    /\ file # Absent
    /\ Edit
    /\ NewFile(Absent)
    /\ UNCHANGED bak

Others ==
    \/ SetWritesBack \/ SetSaves
    \/ RestoreOpen \/ RestoreClose \/ EditInPlace \/ EditByRename \/ Remove

Next == Daemon \/ Others

Spec == Init /\ [][Next]_vars

\* The event loop turns; a `config restore' that has opened the file ends.
FairSpec == Spec /\ WF_vars(Daemon) /\ WF_vars(RestoreClose)

-----------------------------------------------------------------------------
(***************************************************************************)
(* Properties.                                                             *)
(***************************************************************************)

Wanted == IF file \in Configs THEN Clamp[file] ELSE Default

\* Nothing is under way between the file and the daemon.
Quiescent == Idle /\ events = {} /\ ~debounce /\ restoring # "open"

\* A watched file and a quiescent daemon agree.  The ways out the code has are
\* a reload that SELF_WRITE ate, a write-back that failed, and a change between
\* the load and the watch of the start.  What a reload has taken from a file
\* that `config restore' had only truncated, the defaults, does not last.
InStep ==
    Quiescent /\ watch /\ file # Corrupt /\ missed = "no" /\ ~raced => active = Wanted

\* The watch sits on the file that is there; and the loop is without one only
\* if an event is still to be read, or to come when a restore closes the old
\* inode, that makes it look for the new one, or if there was no file when it
\* last looked (mod.rs's "config watch lost").
WatchFollowsFile ==
    /\ watch => file # Absent /\ "delete_self" \notin events
    /\ pc = "loop" /\ ~watch
       => lost \/ "delete_self" \in events \/ restoring = "watched orphan"

\* The daemon's write-backs do not keep waking it: when the edits stop, so do
\* the reloads.
Settles == <>[](pc = "exited" \/ (Idle /\ events = {} /\ ~debounce))

\* As long as nothing is skipped or raced, changes of a watched file that stop
\* are in force in the end.
ChangesArrive ==
    <>[](watch /\ missed = "no" /\ ~raced /\ file # Corrupt) => <>[](active = Wanted)

\* daemon/mod.rs:169, "config watch lost -- reload disabled until restart": as
\* long as the watch is there and no write-back fails, changes that stop are in
\* force in the end.
WatchedChangesArrive ==
    <>[](watch /\ ~raced /\ missed # "failed" /\ file # Corrupt) => <>[](active = Wanted)
=============================================================================
