------------------------------- MODULE Keybox -------------------------------
(***************************************************************************)
(* The keybox: the daemon's task (KeyboxTask in rust/src/daemon/tasks.rs)  *)
(* and the commands `keybox fetch', `set-custom', `generate' and `backup'  *)
(* (rust/src/keybox), which fetch, check, back up and replace the same     *)
(* files without a lock.  Every file operation is a step of its own.       *)
(*                                                                         *)
(* A keybox is a model value that the validation accepts (Sound) or not;   *)
(* KeyboxValidation is about what makes it so.  The screen is on at the    *)
(* runs modelled: with the screen off, the task returns at once.           *)
(***************************************************************************)
EXTENDS Naturals, Sequences

CONSTANTS
    Keyboxes,      \* what a keybox file may hold
    Sound,         \* those that validate_full accepts
    Generated,     \* what `keybox generate' makes
    Installed,     \* the keyboxes that may be installed at first
    Sources,       \* the three sources, in the code's order
    Preferred,     \* keybox.source
    CustomUrl,     \* keybox.custom_url is not empty
    BootRetries,   \* keybox.boot_retries
    KeyboxDaemon, KeyboxCommands,
    Nil,           \* no file, no keybox, no process
    MaxOffers,     \* bound: changes of what the sources offer
    MaxCommands,   \* bound: commands run
    MaxFaults      \* bound: failing operations and kills

\* Contents of a file that are not a keybox.
Empty == "empty"
Torn  == "torn"    \* a part of one, or parts of two
Contents == Keyboxes \cup {Empty, Torn, Nil}

Target == "keybox.xml"
Bak    == "keybox.xml.bak"
Bak1   == "keybox.xml.bak.1"
Tmp    == "keybox.tmp"
Names  == {Target, Bak, Bak1, Tmp}

Users == KeyboxCommands \cup {KeyboxDaemon}
SourceSet == {Sources[i] : i \in DOMAIN Sources}

\* The loop passes over the custom source when it has no URL.
UsableSources == IF CustomUrl THEN SourceSet ELSE SourceSet \ {"custom"}

ASSUME KeyboxAssumption ==
    /\ Sound \subseteq Keyboxes /\ Generated \in Keyboxes \ Sound
    /\ Installed \subseteq Keyboxes
    /\ Keyboxes \cap {Empty, Torn, Nil} = {}
    /\ Nil \notin {Empty, Torn, "unlinked"} \cup Names
    /\ Sources \in Seq(STRING) /\ Preferred \in SourceSet
    /\ CustomUrl \in BOOLEAN
    /\ BootRetries \in Nat \ {0}
    /\ KeyboxDaemon \notin KeyboxCommands
    /\ MaxOffers \in Nat /\ MaxCommands \in Nat /\ MaxFaults \in Nat

VARIABLES
    files,        \* the content of each name, Nil when there is no such file
    handle,       \* the name of the file each process is writing, as renames move it
    fetcher,      \* where each process is in its work, with its local variables
    boot_done,    \* KeyboxTask's field
    offer,        \* what each source would deliver, Nil when it cannot
    offers, commands, faults,    \* counters of the bounds
    overlapped,   \* history: two processes have had keybox.tmp in use at once
    crossed       \* history: processes in whose installation another changed a file

keyboxVars == <<files, handle, fetcher, boot_done, offer,
                offers, commands, faults, overlapped, crossed>>
budgets == <<offers, commands, faults>>

Idle == [at |-> "idle", task |-> "none", left |-> <<>>, seen |-> Nil, data |-> Nil, tries |-> 0]

Writing == {"fill", "write"}
InstallSteps == {"check", "rotate", "copy", "fill", "open", "write", "rename"}
InTmp == {"write", "rename"}

KeyboxTypeOK ==
    /\ files \in [Names -> Contents]
    /\ handle \in [Users -> Names \cup {"unlinked", Nil}]
    /\ \A p \in Users :
         /\ fetcher[p].at \in InstallSteps \cup {"idle", "start", "source"}
         /\ fetcher[p].task \in {"none", "fetch", "set_custom", "generate", "backup"}
         /\ fetcher[p].left \in Seq(SourceSet)
         /\ fetcher[p].seen \in Contents /\ fetcher[p].data \in Keyboxes \cup {Nil}
         /\ fetcher[p].tries \in 0..BootRetries
         /\ fetcher[p].at \in Writing <=> handle[p] # Nil
    /\ boot_done \in BOOLEAN
    /\ offer \in [UsableSources -> Keyboxes \cup {Nil}]
    /\ offers \in 0..MaxOffers /\ commands \in 0..MaxCommands /\ faults \in 0..MaxFaults
    /\ overlapped \in BOOLEAN /\ crossed \subseteq Users

-----------------------------------------------------------------------------
(* Sources *)

\* build_source_order: the preferred source, then the others.
SourceOrder == <<Preferred>> \o SelectSeq(Sources, LAMBDA s : s # Preferred)

ASSUME OrderAssumption == SourceOrder \in Seq(SourceSet)

-----------------------------------------------------------------------------
(* Files *)

\* rename(2): the name `to' now stands for the file `from' named, and whoever
\* is writing that file goes on writing it under its new name.
Move(from, to) ==
    /\ files' = [files EXCEPT ![to] = files[from], ![from] = Nil]
    /\ handle' = [q \in Users |-> CASE handle[q] = from -> to
                                    [] handle[q] = to -> "unlinked"
                                    [] OTHER -> handle[q]]

\* Opening for writing creates the file or truncates it.
OpenTruncated(p, name) ==
    /\ files' = [files EXCEPT ![name] = Empty]
    /\ handle' = [handle EXCEPT ![p] = name]

\* What a file of content `old' may hold once `new' has been written over its
\* start: the tail of a longer old content remains.
Overwritten(old, new) == IF old \in {Empty, new} THEN {new} ELSE {new, Torn}

\* What the file that p has open holds, if it still has a name.
Held(p) == IF handle[p] \in Names THEN files[handle[p]] ELSE Empty

\* p's data reach the file it has open, which then holds one of results.
Deliver(p, results) ==
    /\ IF handle[p] \in Names
       THEN \E c \in results : files' = [files EXCEPT ![handle[p]] = c]
       ELSE UNCHANGED files
    /\ handle' = [handle EXCEPT ![p] = Nil]

-----------------------------------------------------------------------------
(* The course of a job *)

Goto(p, step) == fetcher' = [fetcher EXCEPT ![p].at = step]

\* The job is over; for the daemon this ends the boot phase, if it was in it.
Finish(p) ==
    /\ fetcher' = [fetcher EXCEPT ![p] = Idle]
    /\ boot_done' = (boot_done \/ p = KeyboxDaemon)

\* Mutant of GiveUp: the last attempt is not told from the others.
GiveUpNever(p) ==
    IF fetcher[p].task = "fetch"
    THEN /\ fetcher' = [fetcher EXCEPT ![p] = [Idle EXCEPT !.at = "start", !.task = "fetch",
                                                           !.tries = fetcher[p].tries - 1]]
         /\ UNCHANGED boot_done
    ELSE Finish(p)

\* fetch or the command returns an error: the boot phase tries again, up to
\* boot_retries times; anything else just ends.
GiveUp(p) ==
    IF fetcher[p].tries > 1
    THEN /\ fetcher' = [fetcher EXCEPT ![p] = [Idle EXCEPT !.at = "start", !.task = "fetch",
                                                           !.tries = fetcher[p].tries - 1]]
         /\ UNCHANGED boot_done
    ELSE Finish(p)

\* KeyboxTask::run: without a network the boot phase is skipped, with one it
\* has boot_retries attempts; later runs have one.
BootWithoutNetwork ==
    /\ fetcher[KeyboxDaemon].at = "idle" /\ ~boot_done
    /\ boot_done' = TRUE
    /\ UNCHANGED <<files, handle, fetcher, offer, budgets>>

RunTask ==
    /\ fetcher[KeyboxDaemon].at = "idle"
    /\ fetcher' = [fetcher EXCEPT ![KeyboxDaemon] =
         [Idle EXCEPT !.at = "start", !.task = "fetch",
                      !.tries = IF boot_done THEN 0 ELSE BootRetries]]
    /\ UNCHANGED <<files, handle, boot_done, offer, budgets>>

\* A command starts.  set-custom has already validated the file it was given.
Command(p) ==
    /\ commands < MaxCommands /\ fetcher[p].at = "idle"
    /\ commands' = commands + 1
    /\ \/ fetcher' = [fetcher EXCEPT ![p] = [Idle EXCEPT !.at = "start", !.task = "fetch"]]
       \/ \E k \in Sound :
            fetcher' = [fetcher EXCEPT ![p] =
                          [Idle EXCEPT !.at = "check", !.task = "set_custom", !.data = k]]
       \/ fetcher' = [fetcher EXCEPT ![p] =
                        [Idle EXCEPT !.at = "check", !.task = "generate", !.data = Generated]]
       \/ fetcher' = [fetcher EXCEPT ![p] = [Idle EXCEPT !.at = "check", !.task = "backup"]]
    /\ UNCHANGED <<files, handle, boot_done, offer, offers, faults>>

\* fetch: current_keybox_hash.  Without sha256sum nothing compares as equal.
ReadHash(p) ==
    /\ fetcher[p].at = "start"
    /\ \E seen \in {files[Target], Nil} :
         /\ seen # files[Target] => faults < MaxFaults
         /\ faults' = IF seen = files[Target] THEN faults ELSE faults + 1
         /\ fetcher' = [fetcher EXCEPT ![p].at = "source", ![p].left = SourceOrder,
                                       ![p].seen = seen]
    /\ UNCHANGED <<files, handle, boot_done, offer, offers, commands>>

\* What a turn of fetch's loop needs to stop at its source: a URL, a successful
\* download and decoding, a keybox that is accepted.
Offers(s) == s \in UsableSources /\ offer[s] \in Sound

\* Mutant of NextSource: a keybox that is not accepted ends the loop.
StopAtRejected(p) ==
    /\ fetcher[p].at = "source" /\ fetcher[p].left # <<>>
    /\ ~Offers(Head(fetcher[p].left))
    /\ fetcher' = [fetcher EXCEPT ![p].left = <<>>]
    /\ UNCHANGED <<files, handle, boot_done, offer, budgets>>

NextSource(p) ==
    /\ fetcher[p].at = "source" /\ fetcher[p].left # <<>>
    /\ ~Offers(Head(fetcher[p].left))
    /\ fetcher' = [fetcher EXCEPT ![p].left = Tail(@)]
    /\ UNCHANGED <<files, handle, boot_done, offer, budgets>>

\* The source has what is installed already.
Identical(p) ==
    /\ fetcher[p].at = "source" /\ fetcher[p].left # <<>>
    /\ Offers(Head(fetcher[p].left))
    /\ offer[Head(fetcher[p].left)] = fetcher[p].seen
    /\ Finish(p)
    /\ UNCHANGED <<files, handle, offer, budgets>>

\* The source has another one: install it.
TakeSource(p) ==
    /\ fetcher[p].at = "source" /\ fetcher[p].left # <<>>
    /\ Offers(Head(fetcher[p].left))
    /\ LET k == offer[Head(fetcher[p].left)]
       IN  /\ k # fetcher[p].seen
           /\ fetcher' = [fetcher EXCEPT ![p] = [@ EXCEPT !.at = "check", !.left = <<>>,
                                                          !.seen = Nil, !.data = k]]
    /\ UNCHANGED <<files, handle, boot_done, offer, budgets>>

\* Every source failed: that is success while an accepted keybox is in place.
OutOfSources(p) ==
    /\ fetcher[p].at = "source" /\ fetcher[p].left = <<>>
    /\ IF files[Target] \in Sound THEN Finish(p) ELSE GiveUp(p)
    /\ UNCHANGED <<files, handle, offer, budgets>>

-----------------------------------------------------------------------------
(* Backup and installation *)

\* Mutant of AfterCheck: a backup that exists is taken for the one needed.
BackupOnce(p) ==
    IF files[Target] = Nil \/ files[Bak] # Nil
    THEN "open"
    ELSE "copy"

\* install_data and backup look at what exists, generate at the target alone.
AfterCheck(p) ==
    IF files[Target] = Nil
    THEN "open"
    ELSE IF fetcher[p].task # "generate" /\ files[Bak] # Nil
         THEN "rotate"
         ELSE "copy"

Check(p) ==
    /\ fetcher[p].at = "check"
    /\ IF fetcher[p].task = "backup" /\ files[Target] = Nil
       THEN GiveUp(p)
       ELSE Goto(p, AfterCheck(p)) /\ UNCHANGED boot_done
    /\ UNCHANGED <<files, handle, offer, budgets>>

\* backup: the last backup becomes the one before.  It may have been rotated
\* away by another process since the check.
Rotate(p) ==
    /\ fetcher[p].at = "rotate"
    /\ IF files[Bak] = Nil
       THEN /\ GiveUp(p)
            /\ UNCHANGED <<files, handle>>
       ELSE /\ Move(Bak, Bak1)
            /\ Goto(p, "copy")
            /\ UNCHANGED boot_done
    /\ UNCHANGED <<offer, budgets>>

\* fs::copy: open the source and the truncated copy, then fill the copy.
CopyOpen(p) ==
    /\ fetcher[p].at = "copy"
    /\ OpenTruncated(p, Bak)
    /\ fetcher' = [fetcher EXCEPT ![p].at = "fill", ![p].seen = files[Target]]
    /\ UNCHANGED <<boot_done, offer, budgets>>

CopyFill(p) ==
    /\ fetcher[p].at = "fill"
    /\ Deliver(p, Overwritten(Held(p), fetcher[p].seen))
    /\ IF fetcher[p].task = "backup"
       THEN Finish(p)
       ELSE /\ fetcher' = [fetcher EXCEPT ![p].at = "open", ![p].seen = Nil]
            /\ UNCHANGED boot_done
    /\ UNCHANGED <<offer, budgets>>

\* Mutant of OpenTmp: the keybox is written where it is read.
OpenInPlace(p) ==
    /\ fetcher[p].at = "open"
    /\ OpenTruncated(p, Target)
    /\ Goto(p, "write")
    /\ UNCHANGED <<boot_done, offer, budgets>>

\* atomic_write: fs::write to keybox.tmp, then a rename.  The name of the
\* temporary file is the same for every process.
OpenTmp(p) ==
    /\ fetcher[p].at = "open"
    /\ OpenTruncated(p, Tmp)
    /\ Goto(p, "write")
    /\ UNCHANGED <<boot_done, offer, budgets>>

WriteTmp(p) ==
    /\ fetcher[p].at = "write"
    /\ Deliver(p, Overwritten(Held(p), fetcher[p].data))
    /\ Goto(p, "rename")
    /\ UNCHANGED <<boot_done, offer, budgets>>

RenameTmp(p) ==
    /\ fetcher[p].at = "rename"
    /\ IF files[Tmp] = Nil    \* another process has renamed it
       THEN /\ GiveUp(p)
            /\ UNCHANGED <<files, handle>>
       ELSE /\ Move(Tmp, Target)
            /\ Finish(p)
    /\ UNCHANGED <<offer, budgets>>

-----------------------------------------------------------------------------
(* Faults *)

\* A file operation fails: a full disk leaves the file as opened or in part.
OperationFails(p) ==
    /\ faults < MaxFaults /\ fetcher[p].at \in InstallSteps \ {"check"}
    /\ faults' = faults + 1
    /\ IF fetcher[p].at \in Writing
       THEN Deliver(p, {Held(p), Torn})
       ELSE UNCHANGED <<files, handle>>
    /\ GiveUp(p)
    /\ UNCHANGED <<offer, offers, commands>>

\* The process ends where it is; a new daemon begins with the boot phase.
Killed(p) ==
    /\ faults < MaxFaults /\ fetcher[p].at # "idle"
    /\ faults' = faults + 1
    /\ fetcher' = [fetcher EXCEPT ![p] = Idle]
    /\ handle' = [handle EXCEPT ![p] = Nil]
    /\ boot_done' = (boot_done /\ p # KeyboxDaemon)
    /\ UNCHANGED <<files, offer, offers, commands>>

\* What a source delivers changes.
OfferChanges ==
    /\ offers < MaxOffers
    /\ offers' = offers + 1
    /\ \E s \in UsableSources, k \in Keyboxes \cup {Nil} :
         k # offer[s] /\ offer' = [offer EXCEPT ![s] = k]
    /\ UNCHANGED <<files, handle, fetcher, boot_done, commands, faults>>

-----------------------------------------------------------------------------

\* The steps a process takes on its own once it has a job.
JobStep(p) ==
    \/ ReadHash(p) \/ NextSource(p) \/ Identical(p) \/ TakeSource(p) \/ OutOfSources(p)
    \/ Check(p) \/ Rotate(p) \/ CopyOpen(p) \/ CopyFill(p)
    \/ OpenTmp(p) \/ WriteTmp(p) \/ RenameTmp(p)

DaemonStep == RunTask \/ JobStep(KeyboxDaemon)

KeyboxInit ==
    /\ \E k \in Installed \cup {Nil} :
         files = [n \in Names |-> IF n = Target THEN k ELSE Nil]
    /\ handle = [p \in Users |-> Nil]
    /\ fetcher = [p \in Users |-> Idle]
    /\ boot_done = FALSE
    /\ offer = [s \in UsableSources |-> Nil]
    /\ offers = 0 /\ commands = 0 /\ faults = 0
    /\ overlapped = FALSE
    /\ crossed = {}

KeyboxActions ==
    \/ BootWithoutNetwork \/ RunTask \/ OfferChanges
    \/ \E p \in KeyboxCommands : Command(p)
    \/ \E p \in Users : JobStep(p) \/ OperationFails(p) \/ Killed(p)

\* The history variables, which no action looks at.  An overlap is forgotten
\* when keybox.tmp is free and keybox.xml whole again.
KeyboxHistory ==
    /\ overlapped' =
         \/ \E p, q \in Users : p # q /\ fetcher'[p].at \in InTmp /\ fetcher'[q].at \in InTmp
         \/ /\ overlapped
            /\ \/ files'[Target] \in {Empty, Torn}
               \/ \E p \in Users : fetcher'[p].at \in InTmp
    /\ crossed' =
         {p \in Users : /\ fetcher'[p].at \in InstallSteps
                        /\ p \in crossed \/ (fetcher'[p] = fetcher[p] /\ files' # files)}

KeyboxNext == KeyboxActions /\ KeyboxHistory

KeyboxSpec == KeyboxInit /\ [][KeyboxNext]_keyboxVars
KeyboxFairSpec == KeyboxSpec /\ WF_keyboxVars(DaemonStep /\ KeyboxHistory)

-----------------------------------------------------------------------------
(* Properties *)

\* keybox.xml never holds half a keybox, whatever fails and whoever is killed
\* (atomic_write, fs.rs:4-13), unless two processes have had the shared
\* temporary file in use at once: then one renames what the other has just
\* truncated, or goes on writing what has become keybox.xml.
KeyboxIsWhole == files[Target] \in {Empty, Torn} => overlapped

\* "existing keybox backed up before every replacement" (README.md:62): a
\* process that no other crosses replaces a keybox only when keybox.xml.bak
\* holds it (install_data, backup and generate_and_install), through retries,
\* failures and leftovers of killed processes.
ReplacedIsKept ==
    [][\A p \in Users :
         (/\ fetcher[p].at # "idle" /\ p \notin crossed
          /\ fetcher'[p] # fetcher[p]
          /\ files[Target] \in Keyboxes /\ files'[Target] # files[Target])
         => files'[Bak] = files[Target]]_keyboxVars

\* The keybox fetch should take: that of the first source with an accepted one.
Best == LET good == SelectSeq(SourceOrder, Offers)
        IN  IF good = <<>> THEN Nil ELSE offer[Head(good)]

\* What the first source that has an accepted keybox goes on offering gets
\* installed and stays, whatever the sources before it offer and whatever
\* failed or interfered before (KeyboxTask::run and fetch).
KeyboxArrives ==
    \A k \in Sound : <>[](Best = k) => <>[](files[Target] = k)

\* "set source to `custom` and it stays untouched" (README.md:63): with the
\* source set to custom, the daemon does not replace an accepted keybox that
\* the user has installed.  It does when there is no custom URL: fetch then
\* falls through to the other sources.
CustomStaysUntouched ==
    [][(/\ Preferred = "custom" /\ ~CustomUrl
        /\ files[Target] \in Sound
        /\ fetcher'[KeyboxDaemon] # fetcher[KeyboxDaemon])
       => files'[Target] = files[Target]]_keyboxVars
=============================================================================
