------------------------- MODULE ConfigReloadProofs -------------------------
(* The watch sits on the file that is there, and a quiet daemon runs with    *)
(* what it holds, for any contents, any clamping and any number of edits.    *)
EXTENDS ConfigReload, TLAPS

LEMMA Marks ==
    /\ None \notin Configs /\ Corrupt \notin Configs /\ Absent \notin Configs
    /\ Absent # Corrupt /\ MaxEdits \in Nat
    /\ Legacy \subseteq Configs /\ Default \in Configs
    /\ \A c \in Configs : Clamp[c] \in Valid
    /\ \A c \in Valid : c \in Configs /\ Clamp[c] = c
    /\ Default \in Valid
BY ClampAssumption, MarkersAssumption DEF Valid

-----------------------------------------------------------------------------
(* The file system's operations and a load, once for all their callers *)

LEMMA NewFileType ==
    ASSUME TypeOK, NEW c \in Contents, NewFile(c)
    PROVE  /\ file' \in Contents /\ watch' \in BOOLEAN
           /\ events' \subseteq {"close_write", "delete_self"}
           /\ restoring' \in {"no", "open", "orphan", "watched orphan"}
BY DEF NewFile, TypeOK

LEMMA RewrittenType ==
    ASSUME TypeOK, NEW c \in Contents, Rewritten(c)
    PROVE  /\ file' \in Contents /\ watch' \in BOOLEAN
           /\ events' \subseteq {"close_write", "delete_self"}
BY DEF Rewritten, TypeOK

LEMMA EditType ==
    ASSUME TypeOK, Edit
    PROVE  /\ pc' \in {"main", "run_daemon", "watch", "loop", "exited"}
           /\ loaded' \in Valid \cup {None}
           /\ return' \in {"run_daemon", "watch", "loop"}
           /\ active' \in Configs
           /\ SELF_WRITE' \in BOOLEAN /\ debounce' \in BOOLEAN
           /\ edits' \in 0 .. MaxEdits
           /\ missed' \in {"no", "skipped", "failed"}
           /\ raced' \in BOOLEAN /\ lost' \in BOOLEAN
<1>1. raced' \in BOOLEAN /\ lost' \in BOOLEAN
  BY Zenon DEF Edit, TypeOK
<1>2. edits' \in 0 .. MaxEdits
  <2>1. edits \in 0 .. MaxEdits /\ edits < MaxEdits /\ edits' = edits + 1
    BY Zenon DEF Edit, TypeOK
  <2> QED
    BY <2>1, Marks
<1> QED
  BY <1>1, <1>2 DEF Edit, TypeOK, daemon, load

LEMMA LoadType ==
    ASSUME TypeOK,
           NEW at \in {"main", "run_daemon", "loop"},
           NEW next \in {"run_daemon", "watch", "loop"},
           Load(at, next)
    PROVE  /\ pc' \in {"main", "run_daemon", "watch", "loop", "exited"}
           /\ loaded' \in Valid \cup {None}
           /\ return' \in {"run_daemon", "watch", "loop"}
           /\ active' \in Configs
           /\ SELF_WRITE' \in BOOLEAN
           /\ missed' \in {"no", "skipped", "failed"}
           /\ raced' \in BOOLEAN /\ lost' \in BOOLEAN
<1>1. CASE LoadClean(next)
  BY <1>1, Marks DEF Load, LoadClean, TypeOK, load
<1>2. CASE LoadCorrupt(at)
  BY <1>2 DEF Load, LoadCorrupt, Fail, TypeOK, load
<1>3. CASE LoadLegacy(next)
  BY <1>3, Marks DEF Load, LoadLegacy, TypeOK
<1> QED
  BY <1>1, <1>2, <1>3 DEF Load

-----------------------------------------------------------------------------
(* Types *)

LEMMA TypeInit == Init => TypeOK
<1> SUFFICES ASSUME Init PROVE TypeOK
  OBVIOUS
<1>1. edits \in 0 .. MaxEdits
  BY Marks DEF Init
<1>2. file \in Contents /\ bak \in Contents /\ active \in Configs
  BY Marks DEF Init, Contents
<1>3. loaded \in Valid \cup {None}
  BY DEF Init
<1> QED
  BY <1>1, <1>2, <1>3 DEF Init, TypeOK

LEMMA TypeDaemon ==
    ASSUME TypeOK, Daemon
    PROVE  TypeOK'
<1>1. CASE Start("main", "run_daemon")
  BY <1>1, LoadType DEF Start, TypeOK, Contents, writers
<1>2. CASE Start("run_daemon", "watch")
  BY <1>2, LoadType DEF Start, TypeOK, Contents, writers
<1>3. CASE Save
  <2>1. loaded \in Configs /\ NewFile(loaded)
    BY <1>3, Marks DEF Save, TypeOK
  <2>2. loaded \in Contents
    BY <2>1 DEF Contents
  <2> QED
    BY <1>3, <2>1, <2>2, NewFileType DEF Save, TypeOK, Contents
<1>4. CASE SaveFails
  BY <1>4 DEF SaveFails, Fail, TypeOK, Contents, writers
<1>5. CASE CreateWatcher
  BY <1>5 DEF CreateWatcher, Watchable, TypeOK, Contents, writers, load
<1>6. CASE HandleInotify
  BY <1>6 DEF HandleInotify, Rewatch, Idle, Watchable, TypeOK, Contents, writers, load
<1>7. CASE Reload
  BY <1>7, LoadType DEF Reload, TypeOK, Contents, writers
<1>8. CASE SkipReload
  BY <1>8 DEF SkipReload, TypeOK, Contents, writers, load
<1> QED
  BY <1>1, <1>2, <1>3, <1>4, <1>5, <1>6, <1>7, <1>8 DEF Daemon

LEMMA TypeOthers ==
    ASSUME TypeOK, Others
    PROVE  TypeOK'
<1>1. CASE SetWritesBack
  <2>1. Clamp[file] \in Contents
    BY <1>1, Marks DEF SetWritesBack, Contents
  <2> QED
    BY <1>1, <2>1, NewFileType, EditType DEF SetWritesBack, TypeOK, Contents
<1>2. CASE SetSaves
  <2>1. PICK c \in Configs : NewFile(c)
    BY <1>2, Marks DEF SetSaves
  <2>2. bak' \in Contents
    BY <1>2 DEF SetSaves, TypeOK
  <2>3. c \in Contents
    BY DEF Contents
  <2> QED
    BY <1>2, <2>1, <2>2, <2>3, NewFileType, EditType DEF SetSaves, TypeOK, Contents
<1>3. CASE RestoreOpen
  BY <1>3, EditType, Marks DEF RestoreOpen, TypeOK, Contents
<1>4. CASE RestoreClose
  <2>1. /\ file' \in Contents /\ watch' \in BOOLEAN
        /\ events' \subseteq {"close_write", "delete_self"}
    <3>1. CASE restoring = "open"
      <4>1. PICK c \in {bak, Default} : Rewritten(c)
        BY <1>4, <3>1 DEF RestoreClose
      <4>2. c \in Contents
        BY <4>1, Marks DEF TypeOK, Contents
      <4> QED
        BY <4>1, <4>2, RewrittenType
    <3> QED
      BY <1>4, <3>1 DEF RestoreClose, TypeOK
  <2> QED
    BY <1>4, <2>1 DEF RestoreClose, TypeOK, Contents, daemon, load
<1>5. CASE EditInPlace
  <2>1. PICK c \in Contents : Rewritten(c)
    BY <1>5 DEF EditInPlace, Contents
  <2> QED
    BY <1>5, <2>1, RewrittenType, EditType DEF EditInPlace, TypeOK, Contents
<1>6. CASE EditByRename
  <2>1. PICK c \in Contents : NewFile(c)
    BY <1>6 DEF EditByRename, Contents
  <2> QED
    BY <1>6, <2>1, NewFileType, EditType DEF EditByRename, TypeOK, Contents
<1>7. CASE Remove
  <2>1. Absent \in Contents
    BY DEF Contents
  <2> QED
    BY <1>7, <2>1, NewFileType, EditType DEF Remove, TypeOK, Contents
<1> QED
  BY <1>1, <1>2, <1>3, <1>4, <1>5, <1>6, <1>7 DEF Others

LEMMA TypeStep ==
    ASSUME TypeOK, [Next]_vars
    PROVE  TypeOK'
<1>1. CASE UNCHANGED vars
  <2>1. /\ file' = file /\ watch' = watch /\ events' = events /\ bak' = bak
        /\ restoring' = restoring /\ edits' = edits
    BY <1>1 DEF vars, writers
  <2>2. /\ pc' = pc /\ loaded' = loaded /\ return' = return /\ active' = active
        /\ SELF_WRITE' = SELF_WRITE /\ debounce' = debounce
        /\ missed' = missed /\ raced' = raced /\ lost' = lost
    BY <1>1 DEF vars, daemon, load
  <2>3. watch' \in BOOLEAN /\ SELF_WRITE' \in BOOLEAN /\ debounce' \in BOOLEAN
        /\ raced' \in BOOLEAN /\ lost' \in BOOLEAN
    BY <2>1, <2>2, Zenon DEF TypeOK
  <2>4. /\ file' \in Contents /\ bak' \in Contents
        /\ events' \subseteq {"close_write", "delete_self"}
        /\ restoring' \in {"no", "open", "orphan", "watched orphan"}
        /\ edits' \in 0 .. MaxEdits
    BY <2>1 DEF TypeOK
  <2> QED
    BY <2>2, <2>3, <2>4 DEF TypeOK, Contents
<1> QED
  BY <1>1, TypeDaemon, TypeOthers DEF Next

\* Every variable has its type: above all, only clamped values are on the way
\* to the file (Config::load).
THEOREM TypeCorrect == Spec => []TypeOK
<1>1. TypeOK /\ [Next]_vars => TypeOK'
  BY TypeStep
<1> QED
  BY TypeInit, <1>1, PTL DEF Spec

-----------------------------------------------------------------------------
(***************************************************************************)
(* The inductive invariant.                                                *)
(***************************************************************************)

\* A write-back is under way only where a load is made, and goes on after it.
Returns ==
    loaded # None => \/ pc = "main" /\ return = "run_daemon"
                     \/ pc = "run_daemon" /\ return = "watch"
                     \/ pc = "loop" /\ return = "loop"

\* A restore has a backup to copy, and as long as its inode is the file, that
\* is empty, which is as good as the defaults.
Restores ==
    /\ restoring # "no" => bak # Absent
    /\ restoring = "open" => file = Default

\* There is nothing to watch before the loop.  The last event of an inode that
\* a restore holds open is still to come, and nothing is watched until then.
Watches ==
    /\ pc # "loop" => ~watch /\ events = {} /\ restoring # "watched orphan"
    /\ restoring = "watched orphan" => ~watch /\ "delete_self" \notin events

\* What the start has loaded is what it will watch, unless the file changed.
Started ==
    pc = "watch" /\ file # Corrupt /\ missed = "no" /\ ~raced => active = Wanted

IInv ==
    /\ TypeOK /\ Returns /\ Restores /\ Watches /\ Started
    /\ WatchFollowsFile /\ InStep

LEMMA IInvInit == Init => IInv
BY TypeInit DEF Init, IInv, Returns, Restores, Watches, Started,
                WatchFollowsFile, InStep, Quiescent, Idle

\* What a load comes to: the daemon has what the file holds, or that does not
\* parse, or a write-back is under way.
LEMMA LoadResult ==
    ASSUME TypeOK, loaded = None,
           NEW at \in {"main", "run_daemon", "loop"},
           NEW next \in {"run_daemon", "watch", "loop"},
           pc = at, Load(at, next), UNCHANGED file
    PROVE  \/ loaded' = None /\ pc' = next /\ active' = Wanted'
           \/ /\ loaded' = None /\ file' = Corrupt
              /\ pc' = (IF at = "loop" THEN "loop" ELSE "exited")
           \/ loaded' # None /\ pc' = at /\ return' = next
<1>1. CASE LoadClean(next)
  <2>1. loaded' = None /\ pc' = next /\ active' = (IF file = Absent THEN Default ELSE Clamp[file])
    BY <1>1 DEF LoadClean, load
  <2>2. active' = Wanted'
    BY <1>1, <2>1, Marks DEF LoadClean, Wanted
  <2> QED
    BY <2>1, <2>2
<1>2. CASE LoadCorrupt(at)
  BY <1>2 DEF LoadCorrupt, Fail, load
<1>3. CASE LoadLegacy(next)
  BY <1>3, Marks DEF LoadLegacy
<1> QED
  BY <1>1, <1>2, <1>3 DEF Load

\* A new file is not watched; of the old one there is an event, unless a
\* restore still holds it.
LEMMA NewFileStep ==
    ASSUME IInv, NEW c \in Configs \cup {Absent}, NewFile(c)
    PROVE  /\ file' = c /\ watch' = FALSE
           /\ restoring' # "open"
           /\ restoring' # "no" => restoring # "no"
           /\ restoring' = "watched orphan" => "delete_self" \notin events'
           /\ pc # "loop" => events' = {} /\ restoring' # "watched orphan"
           /\ pc = "loop" => \/ lost \/ "delete_self" \in events'
                             \/ restoring' = "watched orphan"
BY DEF NewFile, IInv, Watches, WatchFollowsFile

LEMMA DaemonStep ==
    ASSUME IInv, Daemon
    PROVE  /\ Returns' /\ Restores' /\ Watches' /\ Started'
           /\ WatchFollowsFile' /\ InStep'
<1> USE DEF IInv
<1>1. ASSUME NEW at \in {"main", "run_daemon", "loop"},
             NEW next \in {"run_daemon", "watch", "loop"},
             pc = at, loaded = None, Load(at, next),
             <<at, next>> \in {<<"main", "run_daemon">>, <<"run_daemon", "watch">>, <<"loop", "loop">>},
             UNCHANGED <<file, watch, events, writers>>
      PROVE  /\ Returns' /\ Restores' /\ Watches' /\ Started'
             /\ WatchFollowsFile' /\ InStep'
  <2>1. /\ UNCHANGED <<file, watch, events, bak, restoring, lost>>
        /\ at = "loop" <=> next = "loop"
    BY <1>1 DEF writers, Load
  <2>2. \/ loaded' = None /\ pc' = next /\ active' = Wanted'
        \/ /\ loaded' = None /\ file' = Corrupt
           /\ pc' = (IF at = "loop" THEN "loop" ELSE "exited")
        \/ loaded' # None /\ pc' = at /\ return' = next
    BY <1>1, <2>1, LoadResult
  <2>3. Returns'
    BY <1>1, <2>2 DEF Returns
  <2>4. Restores'
    BY <2>1 DEF Restores
  <2>0. WatchFollowsFile'
    <3>1. pc' = "loop" => pc = "loop"
      BY <1>1, <2>1, <2>2
    <3> QED
      BY <2>1, <3>1 DEF WatchFollowsFile
  <2>5. Watches'
    <3>1. pc' # "loop" => pc # "loop"
      BY <1>1, <2>1, <2>2
    <3> QED
      BY <2>1, <3>1 DEF Watches
  <2>6. Started'
    BY <1>1, <2>1, <2>2 DEF Started
  <2>7. InStep'
    BY <1>1, <2>1, <2>2 DEF InStep, Quiescent, Idle
  <2> QED
    BY <2>0, <2>3, <2>4, <2>5, <2>6, <2>7
<1>2. CASE Start("main", "run_daemon")
  BY <1>1, <1>2 DEF Start
<1>3. CASE Start("run_daemon", "watch")
  BY <1>1, <1>3 DEF Start
<1>4. CASE Save
  <2>1. /\ loaded \in Configs /\ Clamp[loaded] = loaded /\ loaded' = None /\ pc' = return
        /\ active' = loaded /\ bak' = bak /\ NewFile(loaded) /\ lost' = lost
        /\ return = "loop" <=> pc = "loop"
    BY <1>4, Marks DEF Save, TypeOK, Returns
  <2>2. /\ file' = loaded /\ watch' = FALSE /\ restoring' # "open"
        /\ restoring' # "no" => restoring # "no"
        /\ restoring' = "watched orphan" => "delete_self" \notin events'
        /\ pc # "loop" => events' = {} /\ restoring' # "watched orphan"
        /\ pc = "loop" => \/ lost \/ "delete_self" \in events'
                          \/ restoring' = "watched orphan"
    BY <2>1, NewFileStep
  <2>3. active' = Wanted'
    BY <2>1, <2>2, Marks DEF Wanted
  <2>4. Restores'
    BY <2>1, <2>2 DEF Restores
  <2>5. Watches'
    BY <2>1, <2>2 DEF Watches
  <2>6. Returns' /\ WatchFollowsFile'
    BY <2>1, <2>2 DEF Returns, WatchFollowsFile
  <2>7. Started' /\ InStep'
    BY <2>3 DEF Started, InStep
  <2> QED
    BY <2>4, <2>5, <2>6, <2>7
<1>5. CASE SaveFails
  BY <1>5 DEF SaveFails, Fail, writers,
              Returns, Restores, Watches, Started, WatchFollowsFile, InStep
<1>6. CASE CreateWatcher
  <2>1. /\ pc = "watch" /\ loaded = None /\ pc' = "loop" /\ watch' = (file # Absent)
        /\ lost' = (file = Absent)
        /\ UNCHANGED <<file, events, loaded, active, bak, restoring, missed, raced>>
    BY <1>6 DEF CreateWatcher, Watchable, load, writers
  <2>2. events = {} /\ restoring # "watched orphan"
    BY <2>1 DEF Watches
  <2>3. InStep'
    BY <2>1 DEF Started, InStep, Wanted
  <2> QED
    BY <2>1, <2>2, <2>3 DEF Returns, Restores, Watches, Started, WatchFollowsFile
<1>7. CASE HandleInotify
  <2>1. /\ pc = "loop" /\ loaded = None /\ events' = {} /\ debounce' = TRUE
        /\ IF "delete_self" \in events
           THEN watch' = (file # Absent) /\ lost' = (file = Absent)
           ELSE watch' = watch /\ lost' = lost
        /\ UNCHANGED <<file, pc, loaded, bak, restoring>>
    BY <1>7 DEF HandleInotify, Rewatch, Idle, Watchable, load, writers
  <2> QED
    BY <2>1 DEF Returns, Restores, Watches, Started, WatchFollowsFile, InStep, Quiescent
<1>8. CASE Reload
  BY <1>1, <1>8 DEF Reload, Idle
<1>9. CASE SkipReload
  BY <1>9 DEF SkipReload, Idle, load, writers,
              Returns, Restores, Watches, Started, WatchFollowsFile, InStep
<1> QED
  BY <1>2, <1>3, <1>4, <1>5, <1>6, <1>7, <1>8, <1>9 DEF Daemon

\* Whatever the others do, they leave the daemon alone, and what they do to the
\* file a watch tells of, or it is still truncated.
LEMMA OthersStep ==
    ASSUME IInv, Others
    PROVE  /\ Returns' /\ Restores' /\ Watches' /\ Started'
           /\ WatchFollowsFile' /\ InStep'
<1> USE DEF IInv
<1>1. /\ UNCHANGED <<pc, loaded, return, active, debounce, missed, lost>>
      /\ raced' = (raced \/ pc = "watch")
  BY DEF Others, SetWritesBack, SetSaves, RestoreOpen, RestoreClose, EditInPlace,
         EditByRename, Remove, Edit, daemon, load
<1>2. Returns' /\ Started'
  BY <1>1 DEF Returns, Started
<1>3. ASSUME NEW c \in Configs \cup {Absent}, NewFile(c),
             bak' = bak \/ (file \notin {Absent, Corrupt} /\ bak' = file)
      PROVE  Restores' /\ Watches' /\ WatchFollowsFile' /\ InStep'
  <2>1. /\ file' = c /\ watch' = FALSE /\ restoring' # "open"
        /\ restoring' # "no" => restoring # "no"
        /\ restoring' = "watched orphan" => "delete_self" \notin events'
        /\ pc # "loop" => events' = {} /\ restoring' # "watched orphan"
        /\ pc = "loop" => \/ lost \/ "delete_self" \in events'
                          \/ restoring' = "watched orphan"
    BY <1>3, NewFileStep
  <2>2. Restores'
    BY <1>3, <2>1 DEF Restores
  <2>3. Watches'
    BY <1>1, <2>1 DEF Watches
  <2>4. WatchFollowsFile' /\ InStep'
    BY <1>1, <2>1 DEF WatchFollowsFile, InStep
  <2> QED
    BY <2>2, <2>3, <2>4
<1>4. ASSUME Rewritten(file'), file' # Absent, file # Absent \/ ~watch, restoring' = "no",
             restoring \in {"no", "open"}, bak' = bak
      PROVE  Restores' /\ Watches' /\ WatchFollowsFile' /\ InStep'
  <2>1. watch' = watch /\ (watch => events' # {}) /\ (~watch => events' = events)
        /\ ("delete_self" \in events' <=> "delete_self" \in events)
    BY <1>4 DEF Rewritten
  <2>2. Restores' /\ Watches'
    BY <1>1, <1>4, <2>1 DEF Restores, Watches
  <2>3. WatchFollowsFile'
    BY <1>1, <1>4, <2>1 DEF WatchFollowsFile
  <2>4. InStep'
    BY <2>1 DEF InStep, Quiescent
  <2> QED
    BY <2>2, <2>3, <2>4
<1>5. CASE SetWritesBack
  BY <1>2, <1>3, <1>5, Marks DEF SetWritesBack
<1>6. CASE SetSaves
  BY <1>2, <1>3, <1>6, Marks DEF SetSaves
<1>7. CASE RestoreOpen
  <2>1. /\ restoring' = "open" /\ file' = Default /\ bak' = bak /\ bak # Absent
        /\ watch' = watch /\ events' = events /\ restoring = "no"
    BY <1>7 DEF RestoreOpen
  <2> QED
    BY <1>1, <1>2, <2>1, Marks DEF Restores, Watches, WatchFollowsFile, InStep, Quiescent
<1>8. CASE RestoreClose
  <2>1. CASE restoring = "open" /\ \E c \in {bak, Default} : Rewritten(c)
    <3>1. PICK c \in {bak, Default} : Rewritten(c)
      BY <2>1
    <3>2. /\ Rewritten(file') /\ file' # Absent /\ file # Absent
          /\ restoring' = "no" /\ bak' = bak
      BY <1>8, <2>1, <3>1, Marks DEF RestoreClose, Rewritten, Restores
    <3> QED
      BY <1>2, <1>4, <2>1, <3>2
  <2>2. CASE restoring = "orphan" /\ UNCHANGED <<file, watch, events>>
    <3>1. restoring' = "no" /\ bak' = bak
      BY <1>8 DEF RestoreClose
    <3>2. Restores' /\ Watches' /\ WatchFollowsFile'
      BY <1>1, <2>2, <3>1 DEF Restores, Watches, WatchFollowsFile
    <3>3. ~raced' => ~raced
      BY <1>1, Zenon
    <3>4. Quiescent' => Quiescent
      BY <1>1, <2>2, <3>1 DEF Quiescent, Idle
    <3>5. Wanted' = Wanted
      BY <2>2 DEF Wanted
    <3>6. InStep'
      BY <1>1, <2>2, <3>3, <3>4, <3>5, Zenon DEF InStep
    <3> QED
      BY <1>2, <3>2, <3>6
  <2>3. CASE /\ restoring = "watched orphan"
             /\ events' = events \cup {"close_write", "delete_self"}
             /\ UNCHANGED <<file, watch>>
    BY <1>1, <1>2, <1>8, <2>3
       DEF RestoreClose, Restores, Watches, WatchFollowsFile, InStep
  <2> QED
    BY <1>8, <2>1, <2>2, <2>3 DEF RestoreClose
<1>9. CASE EditInPlace
  BY <1>2, <1>4, <1>9, Marks DEF EditInPlace, Rewritten
<1>10. CASE EditByRename
  BY <1>2, <1>3, <1>10 DEF EditByRename
<1>11. CASE Remove
  BY <1>2, <1>3, <1>11 DEF Remove
<1> QED
  BY <1>2, <1>5, <1>6, <1>7, <1>8, <1>9, <1>10, <1>11 DEF Others

LEMMA IInvStep ==
    ASSUME IInv, [Next]_vars
    PROVE  IInv'
<1>1. TypeOK'
  BY TypeStep DEF IInv
<1>2. CASE UNCHANGED vars
  <2>1. /\ UNCHANGED <<file, bak, watch, events, restoring, missed, raced, lost>>
        /\ UNCHANGED <<pc, loaded, return, active, debounce>>
    BY <1>2 DEF vars, writers, daemon, load
  <2> QED
    BY <1>1, <2>1 DEF IInv, Returns, Restores, Watches, Started, WatchFollowsFile,
                      InStep, Quiescent, Idle, Wanted
<1> QED
  BY <1>1, <1>2, DaemonStep, OthersStep DEF IInv, Next

THEOREM Invariant == Spec => []IInv
<1>1. IInv /\ [Next]_vars => IInv'
  BY IInvStep
<1> QED
  BY IInvInit, <1>1, PTL DEF Spec

\* The watch sits on the file that is there, and whoever replaces or removes it
\* leaves an event, unread or to come, that makes the loop look for the new
\* inode: it is without a watch for good only if it looked when there was no
\* file (create_config_watcher, TAG_INOTIFY).
THEOREM WatchIsOnTheFile == Spec => []WatchFollowsFile
<1>1. IInv => WatchFollowsFile
  BY DEF IInv
<1> QED
  BY Invariant, <1>1, PTL

\* A quiet daemon with a watch runs with what the file holds, unless the last
\* reload was skipped or its write-back failed, or the file changed during the
\* start (run_daemon, its debounced reload, Config::load).
THEOREM QuietIsInStep == Spec => []InStep
<1>1. IInv => InStep
  BY DEF IInv
<1> QED
  BY Invariant, <1>1, PTL
=============================================================================
