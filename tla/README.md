# A verification development for Tricky Addon Enhanced

TLA+ modules for the native daemon of this repository (`rust/src`): models of
its components, TLC configurations that check them on small instances, and
proofs, checked by TLAPS, that the most important properties hold for every
value of the constants. Paths below are relative to the repository's root;
`health/mod.rs` and the like stand for `rust/src/health/mod.rs`.

`PROJECT.json` is the index: the components, the runs, for every checked
property a mutant of the code's model that breaks it, the source lines of every
definition, the hazards, the findings and the theorems.

## 1. Inventory

One binary, `ta-enhanced`, is a command line (`cli/`) and a daemon (`daemon/`).
The daemon is a single-threaded epoll loop: what runs in it runs to the end
before the next event is looked at. Concurrency comes from outside: the kernel
(timers, inotify, signals), the attestation engine, other processes of the same
binary, the WebUI and editors that write the same files.

| Component | State | Operations | Works with |
|---|---|---|---|
| Health check (`health/mod.rs`) | `HealthState` in memory, `.health_state` | `check_once`, `restart_engine`, `next_backoff`, `write_state` | engine process, `[health]` config, `HealthTask` |
| Scheduler (`daemon/scheduler.rs`) | five slots: timerfd, `stagger_done`, `current_interval` | `new`, `handle_timer`, `reconfigure`, `run_automation_now`, `run_status_now` | event loop, tasks |
| Tasks (`daemon/tasks.rs`) | per task: health state, last description, boot phase, known packages | `run`, `is_enabled`, `interval` | scheduler, components |
| Configuration (`config/`) | `config.toml`, `.bak`, `SELF_WRITE` | `load`, `save`, `backup`, `set`, `restore`, `validate`, `migrate` | every process; the daemon's inotify watch |
| Event loop (`daemon/mod.rs`) | watches, three debounces, `SHUTDOWN` | `run_daemon`, `create_config_watcher` and the other watchers | kernel, scheduler, configuration |
| Lifecycle (`daemon/mod.rs`, `platform/`) | `daemon.lock`, `daemon.pid` | `daemonize`, `acquire_instance_lock`, `handle_daemon_stop`, exit handler | other instances, scripts |
| Automation (`automation/`) | `target.txt`, `known_packages.txt`, `applist.pending`, `auto_added.txt` | `check_new_packages`, `cleanup_dead_apps`, `applist save` | package manager, WebUI |
| Keybox (`keybox/`) | `keybox.xml`, two backups, `keybox.tmp`, the task's boot phase | `fetch`, `set_custom`, `generate_and_install`, `backup` | network, engine, validation |
| Keybox validation (`keybox/validate.rs`) | a revocation list cached for 60 s | `validate_full` | clock, network, `fetch` |
| Security patch (`security_patch/`) | `security_patch.txt`, the engine's `devconfig.toml` | `auto_update`, `set_custom_dates`, bulletin fetch | network, engine variant |
| Status (`status/`) | `module.prop` description and its one-time backup | `update_description`, restore | everything it counts |
| Verified boot hash (`vbhash/`), region (`region/`) | stored hash, property snapshots | `pass_vbhash_boot`, `apply`, `capture` | system properties |
| Conflicts (`conflict/`), module updates (`module/`) | marker files | one pass each | root manager |
| Command line, WebUI (`cli/`, `webui/`) | none of their own | dispatch, JSON | all of the above |

What is hard here, and what makes each part correct:

* **Health.** A circuit breaker over failing restarts, with a backoff that
  doubles up to a cap, a grace period after boot, and a state file that other
  processes read. Right when: a backoff is remembered exactly while the breaker
  is not closed; restarts stay within `max_restarts`; a half-open probe never
  restarts; a living engine is believed again; what `Ok` reports is on disk.
* **Scheduler and health task.** Three ways set one timer (staggered start,
  backoff, reload), in any order. Right when: a started slot has the configured
  period, no slot is lost, an open breaker is waited for.
* **Configuration.** Several writers, an inode-bound watch that a rename ends,
  a 300 ms debounce, and a write-back by the loader itself that must not be
  taken for an edit. Right when: the daemon at rest runs with what the file
  says, it comes to rest, and its values are always validated.
* **Lifecycle.** Lock, pid file and exit handler are three steps each, of
  processes that overlap. Right when: one daemon at a time, a pid file that
  does not mislead, SIGTERM obeyed whenever it comes.
* **Automation.** `target.txt` is read, changed and rewritten without a lock by
  the daemon, the WebUI and the command line; package events are debounced and
  retried. Right when: every installed app that qualifies is added in the end,
  the user's own lines are kept, an uninstalled app goes.
* **Keybox.** A job of up to nine file operations without a lock, any of which
  may fail or be the last before a kill, on a temporary file and a backup whose
  names all processes share. Right when: `keybox.xml` is never half a keybox, what
  is replaced was kept, the first source with an accepted keybox wins in the end.
* **Keybox validation.** Right when: no file is accepted without a key whose
  signatures lead to a trust anchor, whatever the order of its certificates,
  the state of the clock and of the revocation list.
* **Security patch.** Three variants of TrickyStore that keep the date in three
  places, a date computed by average years and months. Right when: the date in
  effect is the one that was asked for, and near today's when nobody asked.
* **Region.** A snapshot taken once, from properties that the daemon itself
  changes. Right when: switching off puts back what the device booted with.
* **Status.** A backup taken once, from a text that several processes replace.
  Right when: the backup is never one of our own texts, and comes back when the
  module is to be removed.
* **Verified boot hash.** A straight line of three sources; not modelled.

`hazards` in `PROJECT.json` lists each at its line, with the properties that
cover it or what is missing.

## 2. Modules

A definition keeps the name of the function, field or variable it translates.
Definitions marked `Mutant:` are not part of the model: they are plausible bugs,
used to show that a property notices them.

### Health, HealthGrace

`Health` is `check_once` with one action per way through it:

| Action | `check_once` |
|---|---|
| `CheckAbsent` | no engine module |
| `CheckUnnamed` | the engine has no `--nice-name`: judged by its `disable` file |
| `StayOpen` | breaker open, backoff not over |
| `ProbeAlive`, `ProbeDead` | half-open: closes, or opens again with the next backoff |
| `SeenAlive`, `InGrace`, `Trip`, `Restart` | past the breaker: found, tolerated, given up, restarted |

An open breaker whose backoff is over turns half-open and falls through to
the code below the match in the same call; `PastBreaker` and `CircuitPast`
say that. `Report` is `write_state(state)?`, which may fail after memory has
changed. Time is kept as the two differences the code computes, `elapsed`
(saturating, against `last_restart`) and `uptime`; both are capped where no
comparison can tell the values apart. Around the check: the engine dies and
starts, the module changes, the clock is corrected, the configuration is
reloaded, the daemon restarts (`HealthTask::new` never reads the file back).

`HealthGrace` adds a history variable, how long the process has been missing.

### Scheduler, HealthMonitor

`Scheduler` has a timerfd per task as `timer` (mode and seconds) and `expired`
(an unread expiration). `Expire` is the kernel; `HandleTimer` is
`handle_timer`, first service included; `RunNowBackoff` is what the two
on-demand runs change; `Reconfigure` is `reconfigure` for all slots. A zero
`it_value` disarms, as in the kernel. Tasks appear as enabled, interval, and
whether they may return `TaskBackoff`.

`HealthMonitor` extends `Health` by one slot: `Poll` is `handle_timer`
calling `HealthTask::run` calling `check_once`, in one step as on the event loop.
A one-shot counts its seconds down in `left`, which `MonitorTick` does together with
the breaker's clock and the uptime; in `Sleep` those go on and the timer, on
`CLOCK_MONOTONIC`, stands still. The history `early` says that what the slot waits
for is not the last backoff asked for: the clock was set, a reload replaced the
one-shot, or a poll failed to write and so armed nothing.
It implements `Scheduler` with one task: `ImplementsScheduler` is
`Sched!Spec` under a refinement mapping that wraps each slot variable into a
function on `{"health"}`.

### ConfigReload

The file, its backup, the watch on an inode, and the daemon's copy. `NewFile`
is a file that arrives by rename or goes away (the watch ends, with
`delete_self` unless somebody still holds the old inode); `Rewritten` is a
write in place. A load of a legacy file is two steps, with `SELF_WRITE` up in
between, since other writers may come in before the rename. `run_daemon`'s own
load, the gap before `create_config_watcher`, the re-watch, the debounce and
the reload or its skipping are the daemon's actions; `config set`,
`config restore` (truncate, then fill), editors and removal are the others'. A
truncated file is empty, and an empty file parses, to `Config::default()`: a reload in
the window of a restore takes the defaults, and a `config set` builds on them. `Clamp`
is `validate`: it changes the contents in `Legacy` with a warning, so that they are
written back, and others (a number of retries out of its range) without one. The history `lost`
says that the loop found no file when it last looked for one to watch.

### Lifecycle

Each start of the daemon is a process with a pid of its own. `Start`,
`AcquireLock` or `LockTaken`, `WritePid`, `EnterLoop` follow `run_daemon`;
`LeaveLoop`, `SetupFails` and `LoopFails` return from it and drop the lock;
`CleanupPidFile` is the exit handler, which runs after that; `Crash` is
SIGKILL. `handle_daemon_stop` is read, then signal or find stale, then remove.

### Automation

`target.txt` as a function from apps to the mark of their line, the files
`known_packages.txt`, `auto_added.txt` and `applist.pending`, and the phone:
`installed` (`packages.list`; its third-party part is what `pm` lists) and
`data` (`/data/data`). The daemon and each automation command is a *scanner*
with a job record: where it is, and the local variables of the Rust functions
(`current`, `legacy`, the rest of the loop, the package at hand, the lines read).

| Actions | Code |
|---|---|
| `OpenTmp`, `FillTmp`, `Rename` (in `WriteAdded`, `WriteRemoved`, `ApplyPending`), `WriteFails` (in `AddFails`, `RemoveFails`, `ApplyFails`) | `write_target` and `atomic_write` on `target.tmp` |
| `BeginPass`, `ReadPending`, `ReadPendingFails`, `ApplyPending`, `ApplyFails`, `RemovePending` | `AutomationTask::run` up to the check |
| `ListThirdParty`, `LoadKnown`, `PassOver`, `ReadToAdd`, `WriteAdded`, `Record`, `Bootstrap`, `SaveKnown`, `CheckFails`, `AddFails` | `check_new_packages` with `add_package`, `record_auto_added`, `bootstrap_auto_added` |
| `ListAll`, `ReadTargets`, `Keep`, `ReadToRemove`, `WriteRemoved`, `Forget`, `EndCleanup`, `CleanupFails`, `RemoveFails` | `cleanup_dead_apps` with `remove_package`, `forget_auto_added` |
| `BeginCommand` | `automation check`, `automation cleanup` |
| `SaveList`, `WriteList` | `applist save`; the WebUI's own write of `target.txt` |
| `Install`, `Uninstall` | the package manager, `uninstall -k` included |

No scanner holds a lock, so everything between a read of `target.txt` and the
write that follows it may interleave with every other actor. The write itself is
three steps on one name: `target.tmp` is opened, which empties it, filled, and renamed.
`handle` says what the file a scanner has open is called by now, so that another
scanner's `rename` takes it to `target.txt`, where the fill then lands, or out of the
way. The rename installs what `target.tmp` holds, whoever wrote it, and fails when
another one has taken it. A `known_packages.txt` that cannot be read is taken for an
empty one, and two saves of it at once leave any part of the two.

Five history variables serve the properties only: `lost` (apps whose line was there,
or was to be added in a crossed write, and is not), `gone` (apps that have been
missing), `unread` (a saved list that the daemon has not read), `put` (what the
daemon's rename has put in place for a pending list), and `crossed` (scanners in whose
write, from the opening to the rename, another one was writing `target.tmp`).

The code does lose updates and does mix up crossed writes (section 5), so the
properties say what it keeps to otherwise. `OthersLinesAreKept`, over the filling and
the renames of a scanner that is not crossed, says that they change no line but that of
an app that has been missing, unless somebody has written the list since the scanner
read it. `KnownWereTargeted` and `PendingIsApplied` except crossed writes the same way.

### Keybox

Every process, the daemon and each keybox command, is a *user* with a job record
(where it is, what it wants to install, the sources left, the attempts left);
`files` maps the four names to contents, and `handle` says which name the file
that a user has open goes by now, so that a `rename` takes an open file with it.

| Actions | Code |
|---|---|
| `RunTask`, `BootWithoutNetwork`, `GiveUp`, `Finish` | `KeyboxTask::run` with its boot phase and attempts |
| `Command` | `keybox fetch`, `set-custom`, `generate`, `backup` |
| `ReadHash`, `NextSource`, `Identical`, `TakeSource`, `OutOfSources` | `fetch`: the hash, the loop over `build_source_order`, the keybox in place as a last resort |
| `Check`, `Rotate`, `CopyOpen`, `CopyFill` | `install_data`, `generate_and_install` and `backup` up to the copy |
| `OpenTmp`, `WriteTmp`, `RenameTmp` | `atomic_write` (`platform/fs.rs`) |
| `OperationFails`, `Killed` | any of these in the middle |

A content is one of a few keyboxes, empty or torn: a shorter text written over a
longer one keeps its tail. Two history variables serve the properties:
`overlapped` (two users have had `keybox.tmp` in use at once, and what that may
have left is still there) and `crossed` (users in whose installation somebody else
changed a file).

### KeyboxValidation

`Validate` is `validate_full` on one file: for each key `verify_chain`, the anchor, the leaf's validity (skipped while the clock is not set), the private
key, and the revocation list, loaded from the network, the cache or the embedded
copy. A certificate names its subject, its issuer, its key and the key that signed
it, and a signature verifies under that key only. `AcceptedIsTrusted` is stated
against the certificates themselves, not through `verify_chain`.

### SecurityPatch

The operations `set`, `update`, `update_force` and `set-custom` write through
`write_patch_dates`, which goes to the place that `detect_variant` says:
`security_patch.txt`, the line in `devconfig.toml`, or two properties. That file is
TrickyStore's own and is there before the module writes it: it may have the line, a
comment that mentions it, both or neither, and `[deviceProps]` on a line of its own or
not. `set` that finds the date it wants in the text writes nothing, which `applied`
records as `found`; the text may be the comment (`Commented`), and a file that mentions
`securityPatch` in a comment only, or whose `[deviceProps]` shares its line, takes no
line (`Unwritable`). `PatchBoot`,
`PatchAttempt` and `PatchRun` are `SecurityPatchTask::run`. A date is the sequence of
its numbers, and "contains" on texts is "begins with" on them. The arithmetic of
`approx_year` and `approx_month` is the code's, in half hours, of which 31557600
and 2629800 seconds are multiples; `AutomaticDateIsNear` compares it with a calendar
(`DaysBefore`, `MonthStart`, `IsMonth`), which knows nothing of average years.

### Region

`Apply` is `region::apply` with `load_or_capture_snapshot`: which properties
`resetprop-rs` manages to set and whether the snapshot can be written are
free, within a bound. `RegionStart` and `RegionReload` are its two callers;
`RegionReboot` brings the properties back, `SnapshotDamaged` loses the snapshot.

### Status

`StatusTask::run`, `status update` and the uninstall command as one job with the
steps of `save_original_description` (`CheckBackup`, `ReadDescription`,
`OpenBackup`, `WriteBackup`: it is a plain `fs::write`), `Restore`, `Build`, `Update`,
`MarkRemoval`. What the text says is a model value that changes at any time. A
description that cannot be read is not an error: nothing is saved and all goes on
(`SaveFails`). `OriginalComesBack` therefore speaks of the original where a backup was
made in full, and of what the backup holds, if there is one, in every case.

### Upkeep, MCUpkeep

The five modules share no variable, so `Upkeep` is their sum: `part` says
which component a behaviour is of, and the others stay where they start.
Interleaving them would multiply the states and add no behaviour of any of them,
and `UpkeepProofs!EachOnItsOwn` proves that none is lost to the sum's promises: in
`UpkeepSpec` each component behaves as its own specification says. `MCUpkeep` gives
the constants their values and one fixed start to the components whose turn it is
not. They meet in one place: which keyboxes `Keybox` takes for accepted is what
`KeyboxValidation` says of three given files (`SoundAreAccepted`).

## 3. What the runs check

| Run | Properties | Shows |
|---|---|---|
| `health` | `TypeOK`, `BreakerMemory`, `ReportedRestartIsCounted`, `OkMeansWritten`, `BreakerRecovers` | The breaker under reloads, daemon restarts, failing writes and a clock correction |
| `scheduler` | `TypeOK`, `PeriodFollowsConfig`, `SilentOnlyAfterBackoff`, `ServedForever` | Timers through two reloads |
| `monitor` | `MonitorTypeOK`, `RestartBudget`, `ImplementsScheduler`, `NoRestartBehindBreaker`, `OpenBreakerWaits`, `UnhealthyIsRechecked` | The health check on its slot, with the seconds of its one-shots |
| `config` | `TypeOK`, `InStep`, `WatchFollowsFile`, `Settles`, `ChangesArrive` | Edits, loads, write-backs and the watch |
| `lifecycle` | `TypeOK`, `OneDaemon`, `PidFileNamesTheDaemon`, `PidFileLostToPredecessor`, `StopIsObeyed` | Overlapping starts, stops and crashes |
| `automation` | `TypeOK`, `KnownWereTargeted`, `OthersLinesAreKept`, `PendingIsApplied`, `GoneAppsGo`, `NewAppsArrive` | The pass, a command that writes through the same `target.tmp`, the WebUI and the package manager on one target list |
| `upkeep` | `UpkeepTypeOK`, `KeyboxIsWhole`, `ReplacedIsKept`, `KeyboxArrives`, `AcceptedIsTrusted`, `DatesHold`, `RegionUndone`, `BackupIsOriginal`, `OriginalComesBack` | Keyboxes, their validation, dates, region and description, each under failures, kills and reboots |

Five runs are expected to fail, and show where the code is not what the
repository says of it:

* `monitor_polls` (`PollsForever`): README.md:82 promises polling every ten
  seconds. After a backoff the slot's timer is a one-shot and nothing makes it
  periodic again: the first healthy poll after a restart is the last one, until
  a reload changes the interval or the daemon starts anew.
* `health_grace` (`GraceBeforeRestart`): README.md:83 promises the engine five
  seconds to restart itself. The code counts them from boot.
* `config_watched` (`WatchedChangesArrive`): daemon/mod.rs:169 ties the loss of
  reloading to the loss of the watch. `SELF_WRITE`, raised by a write-back,
  makes the loop skip the next debounced event, also when that carries
  somebody else's edit, or is the first edit since a write-back at the start.
* `automation_installs` (`InstallsArrive`): README.md:116 promises that new
  installations are added. The cleanup removes the line of an app that is gone
  but leaves its name in `known_packages.txt` until the next check that succeeds.
  Installed again before that, the app is neither new nor on the list, and stays
  off it. The run has the daemon alone, one failing command and one app that
  goes and comes back.
* `keybox_custom` (`CustomStaysUntouched`): README.md:63 promises that with the
  source set to `custom` the keybox stays untouched. Without a `custom_url`,
  `fetch` passes over the custom source and installs from the others.

### Bounds

* `health`: two configurations, of one and of two restarts, the second with
  `backoff_cap` below `backoff_init`, which `validate` accepts. `AgeCap = 2` and
  `UptimeCap = 2` are the largest backoff and grace period: a longer time
  compares the same. One clock correction: a second one reaches no difference
  the first does not.
* `monitor`: three configurations with the same limits, so that `RestartBudget`
  may speak of `max_restarts`; they differ in `enabled` and `interval`. One reload
  can come before, between and after any two polls.
* `scheduler`: three slots, one of each kind (on demand, backing off, both).
  Slots do not influence each other; two reloads change an interval and change it
  back.
* `config`: a default, another valid value, one that is clamped with a warning and one
  that is clamped without; four edits, enough for a legacy file to appear, its
  write-back to be overtaken, and a change to follow it, or for a `config set`, a
  restore of its backup, a `config set` in the window and another change (18,538
  states).
* `lifecycle`: a daemon that leaves, its successor, and a third that meets
  the lock; two stops that overlap with each other and with both.
* `automation`: an app that qualifies and a system app that the exclude list
  matches and the user may mark; the daemon and one command; two changes
  (installs, uninstalls, lists saved or written, commands begun) and one failure
  in all. Two changes are what the races need: one that a scanner has read and one
  that it has not, or a command beside a save, or a command that crosses the daemon's
  write. The user's lists all have a line for the system app, plain or marked.
  `auto_added.txt` starts missing exactly where the old `known_packages.txt`
  has a system app, the one case its bootstrap looks at (`MCInit`); 1,569,555 states.

`CHECK_DEADLOCK FALSE` stands where the system may stop: a daemon that has
exited with no edits left, all processes gone.
* `upkeep`, keyboxes: two accepted ones and a generated one, three sources, a
  fallback to each of them; two changes of what the sources offer, one command, one
  failure or kill, two attempts at boot. One command beside the daemon is two users
  of `keybox.tmp` and of the backups; a failure before a retry needs both attempts.
* `upkeep`, validation: every chain of up to three Certificate elements (a root, an
  intermediate, leaves that are proper, weakly signed, expired or forged, somebody
  else's root, one that does not decode, one that does not count) with every private
  key, files of several keys and keyboxes, a clock before and after NTP.
* `upkeep`, dates: any `devconfig.toml` of a line and a comment with one of three dates,
  where the variant is the one that reads it; the clock at the table's expiry and the day before, in a month's
  last half hour, the day after a leap day; one failure.
* `upkeep`, region: one property that booted with a value and one without; two
  faults, one to lose the snapshot and one to miss a property.
* `upkeep`, status: two texts, the daemon and one command, two commands or changes of
  mind, one failure or kill.

### Fairness

* `Health!FairSpec`: the check keeps being called and time passes. The check's
  fairness is the scheduler's business; `HealthMonitor` takes it from the
  timer and the event loop instead.
* `Scheduler`, `HealthMonitor`: armed timers expire (kernel), and the loop
  serves every readable descriptor: epoll is level-triggered and no handler
  blocks for ever. In `HealthMonitor` seconds pass for the timers (`MonitorTick`): a
  phone does not sleep for ever.
* `ConfigReload`: the daemon's loop turns. Of the other writers only a restore
  that has opened the file is fair, nobody has to edit anything. Nothing forces
  a save to succeed.
* `Lifecycle`: a process that can go on does. Nobody has to start or stop
  one, and nothing has to fail or crash.
* `Automation!FairSpec`: the daemon's pass goes on and is repeated, which is what
  `Scheduler!ServedForever` gives a task that is enabled and never backs off, and
  a command that has begun ends. The user, the package manager and failures are
  not fair.
* `Keybox`, `Status`: the daemon's task is run again and its steps go on, by the
  scheduler as above. Commands, offers, failures, kills and the user are not fair.
  The screen is on: with it off the keybox task may wait for ever, as it should.

## 4. What is proved

| Theorem | States |
|---|---|
| `HealthProofs!TypeCorrect` | types; no backoff leaves `1 .. AgeCap` once set |
| `HealthProofs!BreakerRemembers` | `BreakerMemory` |
| `HealthProofs!RestartsAreCounted` | `ReportedRestartIsCounted` |
| `HealthProofs!BudgetIsKept` | `FixedSpec => []RestartBudget` |
| `HealthProofs!BreakerHolds` | `FixedSpec => NoRestartBehindBreaker` |
| `HealthProofs!OkIsOnDisk` | `OkMeansWritten` |
| `HealthProofs!MonitorTypeCorrect`, `OpenBreakerIsWaitedOut` | `MonitorTypeOK` and `OpenBreakerWaits` of the check on its slot |
| `HealthProofs!MonitorKeepsBudget` | `RestartBudget` and `NoRestartBehindBreaker` of `MonitorSpec`, where no configuration differs in `max_restarts` |
| `HealthProofs!MonitorRefines` | `MonitorSpec => ImplementsScheduler`, the refinement |
| `SchedulerProofs!TypeCorrect`, `PeriodsFollow`, `SilenceIsBackoff` | the scheduler's invariants |
| `ConfigReloadProofs!TypeCorrect`, `WatchIsOnTheFile`, `QuietIsInStep` | the configuration's types, `WatchFollowsFile`, `InStep` |
| `LifecycleProofs!TypeCorrect`, `AtMostOneDaemon`, `PidFileIsRight`, `PidFileLoss` | the lifecycle's safety |
| `AutomationProofs!TypeCorrect`, `KnownHadLines`, `OthersKeepTheirLines`, `PendingWasApplied` | the target list's types, `KnownWereTargeted`, and the action properties `OthersLinesAreKept`, `PendingIsApplied` |
| `KeyboxProofs!KeyboxTypeCorrect`, `InstalledIsWhole`, `BackupBeforeReplacement` | the keybox types, `KeyboxIsWhole`, `ReplacedIsKept` |
| `KeyboxProofs!ValidationTypeCorrect`, `TakenIsTrusted`, `PassedReportIsTrusted` | the validation's types; every file `Accepts` takes has a trustworthy key; `AcceptedIsTrusted` |
| `PropertyProofs!RegionTypeCorrect`, `UndoneIsBooted` | the region's types, `RegionUndone` |
| `PropertyProofs!PatchTypeCorrect`, `AskedIsInEffect`, `DatesAreRight` | the types of the dates, `AskedDateHolds`, and `DatesHold` for a clock before 2100 |
| `UpkeepProofs!StatusTypeCorrect`, `BackupIsTheOriginal` | the types of the description, `BackupIsOriginal` |
| `UpkeepProofs!EachOnItsOwn`, `UpkeepTypeCorrect`, `UpkeepKeepsItsPromises` | `UpkeepSpec` implies the five specifications, `UpkeepTypeOK`, and the five components' promises together |

Assumptions are those of the modules: `Config::validate` keeps the limits,
intervals and delays above 0, `AgeCap` and `UptimeCap` are at least every backoff
and grace period, `SelectSeq` of a list of names, and of a list of certificates, is
a list of names, and of certificates (`OrderAssumption`, `DocumentsAssumption`: the
prover has no facts about `SelectSeq`), the entries of `FALLBACK_PATCHES` and the
dates in a bulletin have at most three numbers. TLC evaluates them in every run. Two
theorems have a hypothesis of their own, which is in their statement: that the
clock is before 2100 (`DatesAreRight`, `UpkeepKeepsItsPromises`), and that no two
configurations differ in `max_restarts` (`MonitorKeepsBudget`).

* **Health.** `BreakerMemory` is inductive together with `TypeOK`: a non-zero
  backoff needs `next_backoff` to stay above 0, which is typing, and its
  second conjunct is needed where a half-open breaker opens again.
  `ReportedRestartIsCounted` needs it: `ProbeAlive` sets the count to 0, but also
  the status. The budget holds only while `max_restarts` is not edited, hence
  `FixedSpec`; that no restart happens behind the breaker follows from the
  budget being spent there.
* **Monitor.** No step of the slot changes what the check keeps, so `MonitorSpec`
  implies `Health!Spec`, and what is proved of that holds here. `OpenBreakerWaits`
  needs both sides: that a breaker which is not closed remembers a restart
  (`BreakerMemory`), for only then does `HealthTask::run` ask for a backoff, and that
  from then on the seconds the one-shot has left and those the breaker has seen add up
  to the backoff, unless `early` says why not. The refinement has one lemma per action:
  `Expire` is the scheduler's, `Skip` and `Poll` are `HandleTimer`, of which a poll
  that backs off takes the disjunct with a delay in `1 .. AgeCap`, a reload is
  `Reconfigure`, which re-arms the slot exactly when `Rearms` says, and everything
  else is a stutter.
* **Scheduler.** `PeriodFollowsConfig` and `SilentOnlyAfterBackoff` are not
  inductive: one needs that a slot before its start has no periodic timer, the
  other that an armed timer is not zero. `SlotsInv` adds both.
* **Configuration.** `IInv` adds where a write-back returns to (`Returns`), that a
  restore has something to copy and that its inode, while it is the file, is empty,
  which reads as the defaults (`Restores`), that before the loop there is no watch and
  no event, and that an inode a restore still holds open is not watched any more and has
  not told of it yet (`Watches`), and what the start has loaded (`Started`), which
  becomes `InStep` when the watch is created. Two lemmas carry the steps: every
  replacement ends the watch, every rewrite of a watched file leaves an event.
* **Lifecycle.** `IInv` adds what the lock means (`LockInv`: who holds the role
  holds the lock), that a pid in the file or in a daemon-stop's hands was
  written there by its process (`FileInv`, `ReadInv`), and that what a stop
  found stale stays gone (`DeadInv`). The action property `PidFileLoss` is
  proved from it.
* **Automation.** Only what a scanner remembers tells why saving `current` is
  right, so `IInv` adds an invariant of every scanner (`JobInv`): while it adds,
  each app it has listed that qualifies is either still to do or has had its
  line; before its write it holds an app that is in the set of all apps; when it
  saves, nothing is to do. `Had`, the apps that have a line, have lost
  one or missed one in a crossed write, only grows, so what one scanner has seen is not
  undone by another one's lost update: that is why the proof needs no lock. What ties
  the rename to the list its scanner wrote is `CrossInv`: of two scanners in their
  writes both are crossed, and one that is not has its own list, or nothing yet, in
  `target.tmp` (`Own`). The two action
  properties rest on what was true when a list was read (`ReadInv`): the line to add
  was not in it, the app to remove had been missing, and a pending list at hand is the
  one in the file unless the user has saved another.

* **Keybox.** `IInv` says where each step's open file can be (a copy in a backup, a
  keybox in `keybox.tmp` or what a rename made of it), and that what is about to be
  installed is a keybox. On top of that, two parts with the history's exemptions:
  while there is no overlap, at most one user is at `keybox.tmp` and finds there
  what he has put there (`InOrder`); who is not crossed fills an empty backup with what
  `keybox.xml` holds and replaces only what is copied (`Kept`). One lemma (`FileStep`)
  says what a step has to leave alone for the others; each action is an instance.
* **Keybox validation.** `verify_chain` compares neighbours, while `VouchedFor` is
  about sets: a key is vouched for when every set of keys that is closed under
  signatures from an anchor contains it. The proof (`TrustDescends`) goes down a chain of
  any length from its last certificate, whose key is an anchor: of the positions, counted from
  that end, whose key is not in such a set the least cannot be the first, and the
  one before it verifies it. That least position is what the library's theorem on `<` gives, so
  no induction over data is needed.
* **Security patch.** What makes `AskedDateHolds` inductive is typing (the prefix test
  of `patch_file_already_matches` is on sequences) and that nothing but a write of the
  module changes what it has written: `applied` says whether the last success wrote or
  found its date, and each has its own exemption. What `devconfig.toml` has to begin
  with is free. A date from the table needs that the clock of its computation is still the clock
  (`TableDate`). `AutomaticDateIsNear` is arithmetic: between 1901 and 2100 every fourth year
  is a leap year, so year `y` begins between 17532 `y` - 24 and 17532 `y` + 12 half
  hours after 1970 (`y` counted from there), a calendar month begins within days of
  the average year's twelfths, and the approximated month is at most one away
  (`YearStart`, `YearOf`, `MonthOf`, `ApproxIsNear`). After 2100 the drift would go on, hence the hypothesis.
* **Region.** Not inductive: that the properties are the booted ones follows from the
  snapshot holding them, and this from the properties being untouched as long as
  there is no snapshot, unless something was set without one.
* **Status.** While no save has failed or been overtaken, one process saves at a
  time, the description is the original as long as there is no backup, and nobody
  gets past the save without one (`SaveInv`): so what is read is the original.
* **Upkeep.** Every step is one of one component and leaves the variables of the
  others, so it is a step or a stutter of each.

Only model-checked: the liveness properties (`BreakerRecovers`, `ServedForever`,
`UnhealthyIsRechecked`, `Settles`, `ChangesArrive`, `StopIsObeyed`, `GoneAppsGo`,
`NewAppsArrive`, `KeyboxArrives`, `OriginalComesBack`), which need fairness and `ENABLED` and are
out of the prover's reach. Every other property of a passing run is a theorem. The
properties of the runs that expect a violation are, of course, none.

## 5. What is not modelled

* Parsing, JSON, wording, logs, process names, network requests.
* The length of debounces and retries in `ConfigReload`: a pending debounce fires
  at any later step, which covers every timing.
* `restart_engine` is one step whose outcome is free; a poll of somebody else
  between `killall` and `service.sh` changes nothing the daemon keeps.
* Reused pids: `is_running` asks only whether some process has the pid.
* In `Automation`: comments, the order of lines and lines that appear twice; a change
  of `auto_added.txt` is one step, and two at once are not mixed up; the two steps of
  a save of `known_packages.txt` are one, whose outcome is free when two scanners are at
  it; what a scanner writes goes to the file in one `write(2)`; whether an app is an
  Xposed module or excluded is fixed; the app watch and its retry are one more reason
  for a pass, which may begin at any time.
* Two `config set` processes interleaving step by step: planned.
* Cryptography, XML and the network in `Keybox` and `KeyboxValidation`: a download is
  what a source offers, a signature verifies under the key that made it.
* In `Status`: what the text says, the temporary file that an update of `module.prop`
  goes through, and `push_live_description`, which hands it to
  another root manager's own store.
* Verified boot hash: a straight line (the property, the stored file, the
  attestation APK) that keeps one file written in one step.
* The components with status `not_modelled` in `PROJECT.json`, each with its
  reason.

Behaviour met while modelling that `README.md` promises otherwise, beside the five
runs of section 3; the properties that except it say so:

* README.md:61, "never installs a broken keybox", and :62, "existing keybox backed up
  before every replacement": `keybox.tmp` and the backups are one name each for all
  processes. Two that install at once, the daemon and a command, can rename each
  other's half-written file into place, and leave `keybox.xml` empty or torn until the
  next installation (`KeyboxIsWhole` excepts `overlapped`); and one can replace what
  the other has just installed without a backup of it (`ReplacedIsKept` excepts
  `crossed`).
* README.md:69, "All three dates": on TrickyStore of James the system date only is
  written, and on a legacy one the boot date is not.
* README.md:95 and :119, the live description "every 30s": on Magisk `service.sh`
  creates `.TA_enhanced` at every boot, which `is_uninstall_pending` takes for a
  pending removal, so the description is the original one for ever
  (`OriginalComesBack` holds there for that reason).
* README.md:114, "if anything dies, it restarts within 1s": a dead daemon is started
  again by the next boot or by hand only. A second instance exits at once when the old
  one is about to leave, so that none is left.
* README.md:76, "new installs added to `target.txt` instantly": the daemon and an
  automation command write through one `target.tmp`. When the command overwrites it
  between the daemon's write and its rename, the daemon installs the command's list,
  is told it was its own, and saves the app as known: it never gets its line
  (`KnownWereTargeted` excepts `crossed`, and `NewAppsArrive` an app that is `lost`).

Behaviour met that no document of the repository contradicts, kept here for its
readers:

* `restart_count` goes down only when a half-open probe succeeds: restarts spread
  over weeks add up to an open breaker.
* An open breaker whose probe finds nothing doubles its backoff, but a `Trip`
  from half-open, on the same call that turned it, sets it to `backoff_init`.
* `.health_state` is never read back: a restart of the daemon closes the breaker.
* A reload that changes an interval replaces a pending backoff, so that an open
  breaker is looked at early (`OpenBreakerWaits` excepts it).
* A poll that finds the engine dead and cannot write `.health_state` returns an
  error, which `HealthTask::run` swallows: no backoff is asked for, and after a
  one-shot the slot has no timer at all. The dead engine is not looked at again until
  a reload changes the interval (`UnhealthyIsRechecked` speaks of polls that could
  write).
* Without a file at the start no watch is ever made; a removed file that does
  not return within the retries loses it; an edit between the start's load and
  its watch is not seen.
* While `config restore` copies, `config.toml` is empty and means the defaults: a
  reload in between puts them in force until the copy raises its event, and a `config
  set` in between makes them last, with one key set, whatever the backup says.
* A failed write-back leaves `SELF_WRITE` up, and the next edit is skipped.
* The old daemon's exit handler may remove its successor's pid file.
* A write of `target.txt` puts back what its scanner read: a line or a mark that
  the user writes between the two is lost (`OthersLinesAreKept` excepts it). The
  same way a list saved while the daemon applies an older one is removed unread, and
  one whose write a command has crossed is removed unapplied (`PendingIsApplied`
  excepts both).
* A crossed write can leave `target.txt` empty, or with a mixture of two lists, until
  the next write (`OthersLinesAreKept` excepts `crossed`).
* A `known_packages.txt` that cannot be read makes every app without a line a new one.
* A new app in the same pass creates `auto_added.txt`, and the bootstrap that
  waits for the file to be missing never runs.
* `cleanup_dead_apps` removes at the first miss; CHANGELOG.md:103 tells of an
  older release that waited for three.
* `generate` keeps one backup and does not rotate it; its keybox, one self-signed
  certificate, is not accepted by the module's own validation, so the next fetch
  replaces it, and "the existing keybox" does not count when all sources fail.
* One acceptable key is enough for a file, and a revoked certificate is only
  reported: both by design (CHANGELOG.md:13-15, 25).
* The derived month is within one of the calendar's, and the table's date may be four
  months old when it is still taken; it may also replace a newer date.
* A `devconfig.toml` that mentions `securityPatch` only in a comment, or has
  `[deviceProps]` with something else on its line, never gets the line, and the write
  succeeds. One with the wanted date in a comment is taken for up to date whatever its
  line says, and `set` succeeds (`AskedDateHolds` excepts these). A failing
  `resetprop-rs` on a legacy TrickyStore is only a warning, and the properties it sets
  are what the next run takes for the device's own.
* A region snapshot that is damaged or could not be written is captured again from
  properties already changed (`RegionUndone` excepts it); a property that booted
  empty keeps the value it was given until the next boot; a system update
  leaves the snapshot as it was.
* A removal called off leaves the original description as long as the facts do not
  change: the task compares with `last_description`, not with the file. A
  description that could not be saved is not saved later in that daemon's life, and
  then a removal has nothing to put back.
* The installer's lines for system apps the phone does not have go with the first
  cleanup.

## 6. Plan

In this order; each module with its run, mutants and, where marked, proofs.

Done: health, scheduler, configuration, lifecycle, automation; keybox with
`atomic_write` at the level of names, keybox validation, security patch dates,
region, status. Next:

1. **App watch**: the 3 s debounce and 8 s retry of `daemon/mod.rs` on the
   automation slot.
2. **Configuration in detail**: `config set` against `config set` on one
   `config.toml.tmp`, as `Keybox` does it; `validate` and the migration as operators
   against a reference over bounded inputs.
3. **Module updates**: `version_newer` as an operator.
4. **Proofs**: what the modules above will promise; for the present ones, what the
   scheduler's invariants say of the monitor's slot through its refinement mapping.
