---------------------------- MODULE UpkeepProofs ----------------------------
(* The live description: its backup is the original, for any number of       *)
(* commands, texts and faults.  The components of Upkeep together: in a      *)
(* behaviour of Upkeep each of them behaves as its own specification says,   *)
(* so that what is proved of one holds there too.                            *)
EXTENDS Upkeep, KeyboxProofs, PropertyProofs, TLAPS

-----------------------------------------------------------------------------
(* The description. *)

Steps == SaveSteps \cup {"rest", "pending", "restore", "mark", "build", "update"}
Tasks == {"none", "daemon", "update", "uninstall"}
DescriberJobs == [at : Steps, task : Tasks, read : Descriptions \cup {Nowhere}]

\* What is about to be written over the description is one of ours.
Told == \A q \in Describers : describer[q].at = "update" => describer[q].read \in Texts

\* Each process has a job record, and what can be written is a description.
Describing ==
    /\ describer \in [Describers -> DescriberJobs]
    /\ facts \in Texts
    /\ description \in Descriptions
    /\ backup \in Descriptions \cup {Nowhere}
    /\ Told

LEMMA RestingIsAJob == Resting \in DescriberJobs
BY DEF Resting, DescriberJobs, Steps, Tasks, SaveSteps

LEMMA DescribingInit == StatusInit => Describing
BY RestingIsAJob DEF StatusInit, Describing, Descriptions, Resting, Told

\* A new job of one process leaves those of the others.
LEMMA OneJob ==
    ASSUME Describing, NEW q \in Describers, NEW job \in DescriberJobs,
           job.at = "update" => job.read \in Texts,
           describer' = [describer EXCEPT ![q] = job]
    PROVE  /\ describer' \in [Describers -> DescriberJobs]
           /\ Told'
           /\ describer'[q] = job
           /\ \A p \in Describers : p # q => describer'[p] = describer[p]
BY DEF Describing, Told

\* So does a step of one process, which keeps its task and what it has read.
LEMMA OneStep ==
    ASSUME Describing, NEW q \in Describers, NEW step \in Steps \ {"update"}, Step(q, step)
    PROVE  /\ describer' \in [Describers -> DescriberJobs] /\ Told'
           /\ describer'[q] = [describer[q] EXCEPT !.at = step]
           /\ describer'[q].at = step /\ describer'[q].read = describer[q].read
           /\ \A p \in Describers : p # q => describer'[p] = describer[p]
<1>1. describer[q] \in DescriberJobs
  BY DEF Describing
<1>2. [describer[q] EXCEPT !.at = step] \in DescriberJobs
  BY <1>1 DEF DescriberJobs
<1>3. describer' = [describer EXCEPT ![q] = [describer[q] EXCEPT !.at = step]]
  BY DEF Step
<1>4. [describer[q] EXCEPT !.at = step].at = step
  BY <1>1 DEF DescriberJobs
<1>5. [describer[q] EXCEPT !.at = step].read = describer[q].read
  BY <1>1 DEF DescriberJobs
<1> QED
  BY <1>2, <1>3, <1>4, <1>5, OneJob

LEMMA OneStepAndText ==
    ASSUME Describing, NEW q \in Describers, NEW step \in Steps,
           NEW text \in Descriptions \cup {Nowhere}, step = "update" => text \in Texts,
           describer' = [describer EXCEPT ![q].at = step, ![q].read = text]
    PROVE  /\ describer' \in [Describers -> DescriberJobs] /\ Told'
           /\ describer'[q].at = step /\ describer'[q].read = text
           /\ \A p \in Describers : p # q => describer'[p] = describer[p]
<1> DEFINE job == [describer[q] EXCEPT !.at = step, !.read = text]
<1>1. describer[q] \in DescriberJobs
  BY DEF Describing
<1>2. job \in DescriberJobs /\ job.at = step /\ job.read = text
  BY <1>1 DEF DescriberJobs
<1>3. describer' = [describer EXCEPT ![q] = job]
  BY DEF Describing
<1> QED
  BY <1>2, <1>3, OneJob

-----------------------------------------------------------------------------
\* Steps keep the types of what can be written.
LEMMA DescribingStep ==
    ASSUME Describing, [StatusNext]_statusVars
    PROVE  Describing'
<1> USE DEF Describing
<1>1. CASE StatusRun
  <2>1. [Resting EXCEPT !.at = IF original_saved THEN "pending" ELSE "check", !.task = "daemon"] \in DescriberJobs
    BY DEF Resting, DescriberJobs, Steps, Tasks, SaveSteps
  <2>2. StatusDaemon \in Describers
    BY DEF Describers
  <2> QED
    BY <1>1, <2>1, <2>2, OneJob DEF StatusRun, Resting
<1>2. ASSUME NEW q \in StatusCommands, StatusCommand(q) PROVE Describing'
  <2>1. /\ [Resting EXCEPT !.at = "check", !.task = "update"] \in DescriberJobs
        /\ [Resting EXCEPT !.at = "restore", !.task = "uninstall"] \in DescriberJobs
    BY DEF Resting, DescriberJobs, Steps, Tasks, SaveSteps
  <2>2. q \in Describers
    BY DEF Describers
  <2> QED
    BY <1>2, <2>1, <2>2, OneJob DEF StatusCommand, Resting
<1>3. CASE AskPending
  <2>1. StatusDaemon \in Describers /\ {"restore", "build"} \subseteq Steps \ {"update"}
    BY DEF Describers, Steps
  <2> QED
    BY <1>3, <2>1, OneStep DEF AskPending
<1>4. CASE DaemonRestarts
  <2>1. StatusDaemon \in Describers /\ Resting.at # "update"
    BY DEF Describers, Resting
  <2> QED
    BY <1>4, <2>1, RestingIsAJob, OneJob DEF DaemonRestarts
<1>5. CASE FactsChange \/ RemovalToggled
  BY <1>5 DEF FactsChange, RemovalToggled, Told
<1>6. ASSUME NEW q \in StatusCommands, MarkRemoval(q) PROVE Describing'
  <2>1. q \in Describers /\ "rest" \in Steps \ {"update"}
    BY DEF Describers, Steps
  <2> QED
    BY <1>6, <2>1, OneStep DEF MarkRemoval
<1>7. ASSUME NEW q \in Describers, StatusStep(q) PROVE Describing'
  <2>1. /\ {"read", "open", "write", "rest", "mark"} \subseteq Steps \ {"update"}
        /\ {AfterSave(q), AfterFailure(q)} \subseteq Steps \ {"update"}
    BY DEF Steps, SaveSteps, AfterSave, AfterFailure
  <2>2. describer[q].read \in Descriptions \cup {Nowhere}
    BY DEF DescriberJobs
  <2>3. CASE CheckBackup(q)
    BY <2>1, <2>3, OneStep DEF CheckBackup
  <2>4. CASE ReadDescription(q)
    BY <2>1, <2>4, OneStepAndText DEF ReadDescription
  <2>5. CASE OpenBackup(q)
    BY <2>1, <2>5, OneStep DEF OpenBackup, Descriptions
  <2>6. CASE WriteBackup(q)
    BY <2>1, <2>2, <2>6, OneStepAndText DEF WriteBackup
  <2>7. CASE Restore(q)
    <3>1. description' \in Descriptions
      BY <2>7 DEF Restore
    <3> QED
      BY <2>1, <2>7, <3>1, OneStep DEF Restore
  <2>8. CASE Build(q)
    <3>1. facts \in Descriptions /\ "update" \in Steps
      BY DEF Descriptions, Steps
    <3> QED
      BY <2>1, <2>8, <3>1, OneStep, OneStepAndText DEF Build
  <2>9. CASE Update(q)
    <3>1. description' \in Descriptions
      BY <2>9 DEF Update, Descriptions, Told
    <3>2. Resting.at # "update"
      BY DEF Resting
    <3> QED
      BY <2>9, <3>1, <3>2, RestingIsAJob, OneJob DEF Update
  <2> QED
    BY <1>7, <2>3, <2>4, <2>5, <2>6, <2>7, <2>8, <2>9 DEF StatusStep
<1>8. ASSUME NEW q \in Describers, SaveFails(q) \/ WriteFails(q) PROVE Describing'
  <2>1. {AfterSave(q), AfterFailure(q), "mark", "rest"} \subseteq Steps \ {"update"}
    BY DEF Steps, AfterSave, AfterFailure
  <2>2. CASE SaveFails(q)
    <3>1. PICK step \in {AfterSave(q), AfterFailure(q)} :
            describer' = [describer EXCEPT ![q].at = step, ![q].read = Nowhere]
      BY <2>2 DEF SaveFails
    <3>2. UNCHANGED <<facts, description, backup, last_description>>
      BY <2>2 DEF SaveFails
    <3> QED
      BY <2>1, <3>1, <3>2, OneStepAndText DEF Told
  <2>3. CASE WriteFails(q)
    BY <2>1, <2>3, OneStepAndText DEF WriteFails
  <2> QED
    BY <1>8, <2>2, <2>3
<1>9. CASE UNCHANGED statusVars
  BY <1>9 DEF statusVars, Told
<1> QED
  BY <1>1, <1>2, <1>3, <1>4, <1>5, <1>6, <1>7, <1>8, <1>9 DEF StatusNext

-----------------------------------------------------------------------------
\* The inductive invariant, while no save has failed or been overtaken: only
\* one process saves at a time, the original is there as long as there is no
\* backup of it, and nobody gets past the save without a backup.
Alone == \A p, q \in Describers :
             p # q => ~(describer[p].at \in SaveSteps /\ describer[q].at \in SaveSteps)
Fresh == backup = Nowhere => description = Original
Whole == (\A q \in Describers : describer[q].at # "write") => backup \in {Nowhere, Original}
Saved == original_saved /\ describer[StatusDaemon].at \notin SaveSteps => backup # Nowhere

Place(q) ==
    /\ describer[q].at \in {"read", "open"} => backup = Nowhere
    /\ describer[q].at = "write" => backup = Blank
    /\ describer[q].at \in {"open", "write"} => describer[q].read = Original
    /\ describer[q].at \in {"pending", "build", "update"} => backup # Nowhere

SaveInv == Alone /\ Fresh /\ Whole /\ Saved /\ \A q \in Describers : Place(q)

StatusInv == Describing /\ (~unsaved => SaveInv)

LEMMA StatusInvInit == StatusInit => StatusInv
<1> SUFFICES ASSUME StatusInit PROVE Describing /\ SaveInv
  BY DEF StatusInv
<1>1. Describing
  BY DescribingInit
<1>2. \A q \in Describers : describer[q].at = "rest"
  BY DEF StatusInit, Resting
<1>3. Alone /\ Fresh /\ Whole /\ Saved
  BY <1>2 DEF StatusInit, Alone, Fresh, Whole, Saved, SaveSteps
<1>4. \A q \in Describers : Place(q)
  BY <1>2 DEF Place
<1> QED
  BY <1>1, <1>3, <1>4 DEF SaveInv

LEMMA OverlapsOrAlone ==
    ASSUME Overlaps, ~unsaved'
    PROVE  ~unsaved /\ Alone'
BY DEF Overlaps, Alone

\* A step of one process that leaves the backup, and gets past the save only
\* if there is one.
LEMMA QuietStep ==
    ASSUME Describing, SaveInv, NEW q \in Describers, Alone', Fresh',
           backup' = backup,
           \A p \in Describers : p # q => describer'[p] = describer[p],
           describer[q].at # "write", describer'[q].at # "write",
           Place(q)',
           Saved'
    PROVE  SaveInv'
<1>1. \A p \in Describers : Place(p)'
  BY DEF SaveInv, Place
<1>2. Whole'
  BY DEF SaveInv, Whole
<1> QED
  BY <1>1, <1>2 DEF SaveInv

LEMMA DaemonStepInv ==
    ASSUME Describing, SaveInv, ~unsaved', StatusRun \/ AskPending \/ DaemonRestarts
    PROVE  SaveInv'
<1> DEFINE d == StatusDaemon
<1> USE DEF SaveInv
<1>0. d \in Describers
  BY DEF Describers
<1>1. CASE StatusRun
  <2> DEFINE step == IF original_saved THEN "pending" ELSE "check"
             job == [Resting EXCEPT !.at = step, !.task = "daemon"]
  <2>1. job \in DescriberJobs /\ job.at = step /\ job.at # "update"
    BY DEF Resting, DescriberJobs, Steps, Tasks, SaveSteps
  <2>2. describer'[d].at = step /\ \A p \in Describers : p # d => describer'[p] = describer[p]
    BY <1>0, <1>1, <2>1, OneJob DEF StatusRun
  <2>3. Alone' /\ Fresh' /\ backup' = backup
    BY <1>1, OverlapsOrAlone DEF StatusRun, Fresh
  <2>4. original_saved => backup # Nowhere
    BY <1>1 DEF StatusRun, Saved, SaveSteps
  <2>5. Place(d)' /\ Saved' /\ describer[d].at # "write" /\ describer'[d].at # "write"
    BY <1>1, <2>2, <2>3, <2>4 DEF StatusRun, Place, Saved, SaveSteps
  <2> QED
    BY <1>0, <2>2, <2>3, <2>5, QuietStep
<1>2. CASE AskPending
  <2>1. {"restore", "build"} \subseteq Steps \ {"update"}
    BY DEF Steps
  <2>2. /\ describer'[d].at \in {"restore", "build"}
        /\ \A p \in Describers : p # d => describer'[p] = describer[p]
    BY <1>0, <1>2, <2>1, OneStep DEF AskPending
  <2>3. Alone' /\ Fresh' /\ backup' = backup
    BY <1>2, <2>2 DEF AskPending, Fresh, Alone, SaveSteps
  <2>4. backup # Nowhere /\ describer[d].at # "write"
    BY <1>0, <1>2 DEF AskPending, Place
  <2>5. Place(d)' /\ Saved' /\ describer'[d].at # "write"
    BY <2>2, <2>3, <2>4 DEF Place, Saved
  <2> QED
    BY <1>0, <2>2, <2>3, <2>4, <2>5, QuietStep
<1>3. CASE DaemonRestarts
  <2>1. Resting.at = "rest"
    BY DEF Resting
  <2>2. /\ describer'[d].at = "rest" /\ describer[d].at # "write"
        /\ \A p \in Describers : p # d => describer'[p] = describer[p]
    BY <1>0, <1>3, <2>1, RestingIsAJob, OneJob DEF DaemonRestarts
  <2>3. Alone' /\ Fresh' /\ Saved' /\ backup' = backup
    BY <1>3, <2>2 DEF DaemonRestarts, Fresh, Alone, SaveSteps, Saved
  <2>4. Place(d)'
    BY <2>2 DEF Place
  <2> QED
    BY <1>0, <2>2, <2>3, <2>4, QuietStep
<1> QED
  BY <1>1, <1>2, <1>3

\* A command begins, or marks the module for removal.
LEMMA CommandInv ==
    ASSUME Describing, SaveInv, ~unsaved', NEW q \in StatusCommands,
           StatusCommand(q) \/ MarkRemoval(q)
    PROVE  SaveInv'
<1> USE DEF SaveInv
<1>0. q \in Describers /\ q # StatusDaemon /\ StatusDaemon \in Describers
  BY StatusAssumption DEF Describers
<1>1. CASE StatusCommand(q)
  <2> DEFINE updating == [Resting EXCEPT !.at = "check", !.task = "update"]
             uninstalling == [Resting EXCEPT !.at = "restore", !.task = "uninstall"]
  <2>1. /\ {updating, uninstalling} \subseteq DescriberJobs
        /\ updating.at = "check" /\ uninstalling.at = "restore"
    BY DEF Resting, DescriberJobs, Steps, Tasks, SaveSteps
  <2>2. /\ describer'[q].at \in {"check", "restore"}
        /\ \A p \in Describers : p # q => describer'[p] = describer[p]
    BY <1>0, <1>1, <2>1, OneJob DEF StatusCommand
  <2>3. Alone' /\ Fresh' /\ backup' = backup
    BY <1>1, OverlapsOrAlone DEF StatusCommand, Fresh
  <2>4. Place(q)' /\ Saved' /\ describer[q].at # "write"
    BY <1>0, <1>1, <2>2, <2>3 DEF StatusCommand, Place, Saved
  <2> QED
    BY <1>0, <2>2, <2>3, <2>4, QuietStep
<1>2. CASE MarkRemoval(q)
  <2>1. "rest" \in Steps \ {"update"}
    BY DEF Steps
  <2>2. /\ describer'[q].at = "rest" /\ describer[q].at # "write"
        /\ \A p \in Describers : p # q => describer'[p] = describer[p]
    BY <1>0, <1>2, <2>1, OneStep DEF MarkRemoval
  <2>3. Alone' /\ Fresh' /\ Saved' /\ backup' = backup
    BY <1>0, <1>2, <2>2 DEF MarkRemoval, Fresh, Alone, SaveSteps, Saved
  <2>4. Place(q)'
    BY <2>2 DEF Place
  <2> QED
    BY <1>0, <2>2, <2>3, <2>4, QuietStep
<1> QED
  BY <1>1, <1>2

\* The steps that save, restore and replace the description.
LEMMA JobInv ==
    ASSUME Describing, SaveInv, ~unsaved', NEW q \in Describers, StatusStep(q)
    PROVE  SaveInv'
<1> USE DEF SaveInv
<1>0. StatusDaemon \in Describers /\ Place(q) /\ describer[q] \in DescriberJobs
  BY DEF Describers, Describing
<1>a. /\ {"read", "open", "write", "rest", "mark"} \subseteq Steps \ {"update"}
      /\ AfterSave(q) \in {"pending", "build"} /\ AfterSave(q) \in Steps \ {"update"}
      /\ "update" \in Steps
  BY DEF Steps, SaveSteps, AfterSave
<1>b. Original \in Descriptions /\ Nowhere # Original /\ Nowhere # Blank
  BY StatusAssumption DEF Descriptions
<1>1. CASE CheckBackup(q)
  <2>1. /\ describer'[q].at = IF backup = Nowhere THEN "read" ELSE AfterSave(q)
        /\ \A p \in Describers : p # q => describer'[p] = describer[p]
    BY <1>1, <1>a, OneStep DEF CheckBackup
  <2>2. Alone' /\ Fresh' /\ backup' = backup
    BY <1>1, OverlapsOrAlone DEF CheckBackup, Fresh
  <2>3. Place(q)' /\ Saved' /\ describer[q].at # "write" /\ describer'[q].at # "write"
    BY <1>0, <1>1, <1>a, <2>1, <2>2 DEF CheckBackup, Place, Saved, SaveSteps
  <2> QED
    BY <2>1, <2>2, <2>3, QuietStep
<1>2. CASE ReadDescription(q)
  <2>1. /\ describer'[q].at = "open" /\ describer'[q].read = description
        /\ \A p \in Describers : p # q => describer'[p] = describer[p]
    BY <1>2, <1>a, OneStepAndText DEF ReadDescription, Describing
  <2>2. Alone' /\ Fresh' /\ backup' = backup
    BY <1>2, OverlapsOrAlone DEF ReadDescription, Fresh
  <2>3. Place(q)' /\ Saved' /\ describer[q].at # "write" /\ describer'[q].at # "write"
    BY <1>0, <1>2, <2>1, <2>2 DEF ReadDescription, Place, Saved, Fresh, SaveSteps
  <2> QED
    BY <2>1, <2>2, <2>3, QuietStep
<1>3. CASE OpenBackup(q)
  <2>1. /\ describer'[q].at = "write" /\ describer'[q].read = describer[q].read
        /\ \A p \in Describers : p # q => describer'[p] = describer[p]
    BY <1>3, <1>a, OneStep DEF OpenBackup
  <2>2. Alone' /\ backup' = Blank /\ description' = description
    BY <1>3, OverlapsOrAlone DEF OpenBackup
  <2>3. \A p \in Describers : p # q => describer'[p].at \notin SaveSteps
    BY <2>1, <2>2 DEF Alone, SaveSteps
  <2>4. Fresh' /\ Whole' /\ Saved'
    BY <1>b, <2>1, <2>2 DEF Fresh, Whole, Saved
  <2>5. ASSUME NEW p \in Describers PROVE Place(p)'
    BY <1>0, <1>3, <1>b, <2>1, <2>2, <2>3 DEF OpenBackup, Place, SaveSteps
  <2> QED
    BY <2>2, <2>4, <2>5
<1>4. CASE WriteBackup(q)
  <2>1. /\ describer'[q].at = AfterSave(q)
        /\ \A p \in Describers : p # q => describer'[p] = describer[p]
    BY <1>4, <1>a, OneStepAndText DEF WriteBackup
  <2>2. Alone' /\ backup' = Original
    BY <1>0, <1>4, OverlapsOrAlone DEF WriteBackup, Place
  <2>3. \A p \in Describers : p # q => describer[p].at \notin SaveSteps
    BY <1>4 DEF WriteBackup, Alone, SaveSteps
  <2>4. Fresh' /\ Whole' /\ Saved'
    BY <1>b, <2>2 DEF Fresh, Whole, Saved
  <2>5. ASSUME NEW p \in Describers PROVE Place(p)'
    BY <1>a, <1>b, <2>1, <2>2, <2>3 DEF Place, SaveSteps
  <2> QED
    BY <2>2, <2>4, <2>5
<1>5. CASE Restore(q)
  <2>1. /\ describer'[q].at \in {"mark", "rest"}
        /\ \A p \in Describers : p # q => describer'[p] = describer[p]
    BY <1>5, <1>a, OneStep DEF Restore
  <2>2. Alone' /\ Fresh' /\ Saved' /\ backup' = backup
    <3>1. /\ backup' = backup /\ original_saved' = original_saved
          /\ backup = Nowhere => description' = description
          /\ describer[q].at \notin SaveSteps
      BY <1>5 DEF Restore, SaveSteps
    <3>2. Alone'
      BY <2>1, <3>1 DEF Alone, SaveSteps
    <3>3. Saved'
      BY <1>0, <2>1, <3>1 DEF Saved, SaveSteps
    <3> QED
      BY <3>1, <3>2, <3>3 DEF Fresh
  <2>3. Place(q)' /\ describer[q].at # "write" /\ describer'[q].at # "write"
    BY <1>5, <2>1 DEF Restore, Place
  <2> QED
    BY <2>1, <2>2, <2>3, QuietStep
<1>6. CASE Build(q)
  <2>1. facts \in Texts /\ facts \in Descriptions
    BY DEF Describing, Descriptions
  <2>2. /\ describer'[q].at \in {"rest", "update"}
        /\ \A p \in Describers : p # q => describer'[p] = describer[p]
    <3>1. CASE Step(q, "rest")
      BY <1>a, <3>1, OneStep
    <3>2. CASE describer' = [describer EXCEPT ![q].at = "update", ![q].read = facts]
      BY <1>a, <2>1, <3>2, OneStepAndText
    <3> QED
      BY <1>6, <3>1, <3>2 DEF Build
  <2>3. Alone' /\ Fresh' /\ Saved' /\ backup' = backup
    <3>1. /\ backup' = backup /\ original_saved' = original_saved /\ description' = description
          /\ describer[q].at \notin SaveSteps
      BY <1>6 DEF Build, SaveSteps
    <3>2. Alone'
      BY <2>2, <3>1 DEF Alone, SaveSteps
    <3>3. Saved'
      BY <1>0, <2>2, <3>1 DEF Saved, SaveSteps
    <3> QED
      BY <3>1, <3>2, <3>3 DEF Fresh
  <2>4. Place(q)' /\ describer[q].at # "write" /\ describer'[q].at # "write"
    BY <1>0, <1>6, <2>2, <2>3 DEF Build, Place
  <2> QED
    BY <2>2, <2>3, <2>4, QuietStep
<1>7. CASE Update(q)
  <2>1. Resting.at = "rest"
    BY DEF Resting
  <2>2. /\ describer'[q].at = "rest"
        /\ \A p \in Describers : p # q => describer'[p] = describer[p]
    BY <1>7, <2>1, RestingIsAJob, OneJob DEF Update
  <2>3. Alone' /\ Fresh' /\ Saved' /\ backup' = backup
    BY <1>0, <1>7, <2>2 DEF Update, Fresh, Alone, SaveSteps, Saved, Place
  <2>4. Place(q)' /\ describer[q].at # "write"
    BY <1>7, <2>2 DEF Update, Place
  <2> QED
    BY <2>2, <2>3, <2>4, QuietStep
<1> QED
  BY <1>1, <1>2, <1>3, <1>4, <1>5, <1>6, <1>7 DEF StatusStep

LEMMA FailureInv ==
    ASSUME Describing, SaveInv, ~unsaved', NEW q \in Describers, WriteFails(q)
    PROVE  SaveInv'
<1> USE DEF SaveInv
<1>1. {"mark", "rest"} \subseteq Steps \ {"update"} /\ StatusDaemon \in Describers
  BY DEF Steps, Describers
<1>2. /\ describer'[q].at \in {"mark", "rest"}
      /\ \A p \in Describers : p # q => describer'[p] = describer[p]
  BY <1>1, OneStepAndText DEF WriteFails
<1>3. Alone' /\ Fresh' /\ Saved' /\ backup' = backup
  BY <1>1, <1>2 DEF WriteFails, Fresh, Alone, SaveSteps, Saved
<1>4. Place(q)' /\ describer[q].at # "write" /\ describer'[q].at # "write"
  BY <1>2 DEF WriteFails, Place
<1> QED
  BY <1>2, <1>3, <1>4, QuietStep

LEMMA StatusInvStep ==
    ASSUME StatusInv, [StatusNext]_statusVars
    PROVE  StatusInv'
<1>1. Describing /\ Describing'
  BY DescribingStep DEF StatusInv
<1> SUFFICES ASSUME ~unsaved' PROVE SaveInv'
  BY <1>1 DEF StatusInv
<1>2. ~unsaved
  BY DEF StatusNext, StatusRun, StatusCommand, StatusStep, AskPending, DaemonRestarts, FactsChange,
         RemovalToggled, MarkRemoval, CheckBackup, ReadDescription, OpenBackup, WriteBackup,
         Restore, Build, Update, SaveFails, WriteFails, Overlaps, statusVars
<1>3. SaveInv
  BY <1>2 DEF StatusInv
<1>4. CASE StatusRun \/ AskPending \/ DaemonRestarts
  BY <1>1, <1>3, <1>4, DaemonStepInv
<1>5. CASE \E q \in StatusCommands : StatusCommand(q) \/ MarkRemoval(q)
  BY <1>1, <1>3, <1>5, CommandInv
<1>6. CASE \E q \in Describers : StatusStep(q)
  BY <1>1, <1>3, <1>6, JobInv
<1>7. CASE \E q \in Describers : WriteFails(q)
  BY <1>1, <1>3, <1>7, FailureInv
<1>8. CASE \E q \in Describers : SaveFails(q)
  BY <1>8 DEF SaveFails
<1>9. CASE FactsChange \/ RemovalToggled \/ UNCHANGED statusVars
  BY <1>3, <1>9 DEF FactsChange, RemovalToggled, statusVars, SaveInv, Alone, Fresh, Whole, Saved,
                    Place
<1> QED
  BY <1>4, <1>5, <1>6, <1>7, <1>8, <1>9 DEF StatusNext

\* The backup holds TrickyStore's own description once no save is under way,
\* unless a save failed or was overtaken (save_original_description), for any
\* number of `status update' and uninstall commands beside the daemon.
THEOREM BackupIsTheOriginal == StatusSpec => []BackupIsOriginal
<1>1. StatusInv /\ [StatusNext]_statusVars => StatusInv'
  BY StatusInvStep
<1>2. StatusInv => BackupIsOriginal
  BY DEF StatusInv, SaveInv, Whole, BackupIsOriginal, SaveSteps
<1> QED
  BY StatusInvInit, <1>1, <1>2, PTL DEF StatusSpec

-----------------------------------------------------------------------------
(* The types of what the tasks and the commands keep beside their jobs. *)

Flags == /\ original_saved \in BOOLEAN /\ hidden \in BOOLEAN
         /\ remove \in BOOLEAN /\ unsaved \in BOOLEAN
Counts == status_runs \in 0 .. MaxStatusRuns /\ status_faults \in 0 .. MaxStatusFaults
StatusTypeInv == /\ Describing /\ Flags /\ Counts
           /\ last_description \in Texts \cup {Nowhere}

LEMMA CountUp ==
    ASSUME NEW max \in Nat, NEW n \in 0 .. max, NEW m, m = n \/ (m = n + 1 /\ n < max)
    PROVE  m \in 0 .. max
OBVIOUS

LEMMA FlagsStep ==
    ASSUME Flags, [StatusNext]_statusVars
    PROVE  Flags'
<1> USE DEF Flags
<1>1. CASE StatusRun \/ AskPending \/ DaemonRestarts \/ FactsChange \/ RemovalToggled
  BY <1>1, Zenon DEF StatusRun, AskPending, DaemonRestarts, FactsChange, RemovalToggled, Overlaps
<1>2. CASE \E q \in StatusCommands : StatusCommand(q) \/ MarkRemoval(q)
  BY <1>2, Zenon DEF StatusCommand, MarkRemoval, Overlaps
<1>3. CASE \E q \in Describers : StatusStep(q)
  BY <1>3, Zenon DEF StatusStep, CheckBackup, ReadDescription, OpenBackup, WriteBackup, Restore,
                     Build, Update, Overlaps
<1>4. CASE \E q \in Describers : SaveFails(q) \/ WriteFails(q)
  BY <1>4, Zenon DEF SaveFails, WriteFails
<1>5. CASE UNCHANGED statusVars
  BY <1>5, Zenon DEF statusVars
<1> QED
  BY <1>1, <1>2, <1>3, <1>4, <1>5, Zenon DEF StatusNext

LEMMA CountsStep ==
    ASSUME Counts, [StatusNext]_statusVars
    PROVE  Counts'
<1>1. /\ \/ status_runs' = status_runs
         \/ status_runs' = status_runs + 1 /\ status_runs < MaxStatusRuns
      /\ \/ status_faults' = status_faults
         \/ status_faults' = status_faults + 1 /\ status_faults < MaxStatusFaults
  BY Zenon DEF StatusNext, StatusRun, StatusCommand, StatusStep, AskPending, DaemonRestarts,
               FactsChange, RemovalToggled, MarkRemoval, CheckBackup, ReadDescription, OpenBackup,
               WriteBackup, Restore, Build, Update, SaveFails, WriteFails, statusVars
<1> QED
  BY <1>1, CountUp, StatusAssumption DEF Counts

LEMMA StatusTypeInvStep ==
    ASSUME StatusTypeInv, [StatusNext]_statusVars
    PROVE  StatusTypeInv'
<1>1. Describing' /\ Flags' /\ Counts'
  BY DescribingStep, FlagsStep, CountsStep DEF StatusTypeInv
<1>2. last_description' \in Texts \cup {Nowhere}
  <2>1. CASE last_description' = last_description
    BY <2>1 DEF StatusTypeInv
  <2>2. CASE DaemonRestarts
    BY <2>2 DEF DaemonRestarts
  <2>3. ASSUME NEW q \in Describers, Update(q)
        PROVE  last_description' \in Texts \cup {Nowhere}
    BY <2>3 DEF Update, StatusTypeInv, Describing, Told
  <2> QED
    BY <2>1, <2>2, <2>3, Zenon
       DEF StatusNext, StatusRun, StatusCommand, StatusStep, AskPending, FactsChange,
           RemovalToggled, MarkRemoval, CheckBackup, ReadDescription, OpenBackup, WriteBackup,
           Restore, Build, SaveFails, WriteFails, statusVars
<1> QED
  BY <1>1, <1>2 DEF StatusTypeInv

\* Each process is at one of its steps, and what it carries, what the files
\* hold and what the daemon remembers are descriptions (StatusTask::run).
THEOREM StatusTypeCorrect == StatusSpec => []StatusTypeOK
<1>1. ASSUME StatusInit PROVE StatusTypeInv
  <2>1. Flags
    BY <1>1, Zenon DEF StatusInit, Flags
  <2>2. Counts
    <3>1. status_runs = 0 /\ status_faults = 0
      BY <1>1 DEF StatusInit
    <3> QED
      BY <3>1, StatusAssumption DEF Counts
  <2>3. last_description = Nowhere
    BY <1>1 DEF StatusInit
  <2> QED
    BY <1>1, <2>1, <2>2, <2>3, DescribingInit DEF StatusTypeInv
<1>2. StatusTypeInv /\ [StatusNext]_statusVars => StatusTypeInv'
  BY StatusTypeInvStep
<1>3. StatusTypeInv => StatusTypeOK
  BY DEF StatusTypeInv, Flags, Counts, Describing, DescriberJobs, Steps, Tasks, StatusTypeOK
<1> QED
  BY <1>1, <1>2, <1>3, PTL DEF StatusSpec

-----------------------------------------------------------------------------
(* The five components together. *)

\* No step of one component is one of another's: in a behaviour of Upkeep each
\* component behaves as its own specification says (UpkeepSpec).
THEOREM EachOnItsOwn ==
    UpkeepSpec => KeyboxSpec /\ ValidationSpec /\ PatchSpec /\ RegionSpec /\ StatusSpec
<1>1. UpkeepInit => KeyboxInit /\ ValidationInit /\ PatchInit /\ RegionInit /\ StatusInit
  BY DEF UpkeepInit
<1>2. ASSUME [UpkeepNext]_upkeepVars
      PROVE  /\ [KeyboxNext]_keyboxVars
             /\ [ValidationNext]_validationVars
             /\ [PatchNext]_patchVars
             /\ [RegionNext]_regionVars
             /\ [StatusNext]_statusVars
  <2>1. CASE UpkeepNext
    BY <2>1, Zenon DEF UpkeepNext
  <2>2. CASE UNCHANGED upkeepVars
    BY <2>2, Zenon DEF upkeepVars
  <2> QED
    BY <1>2, <2>1, <2>2
<1> QED
  BY <1>1, <1>2, PTL
     DEF UpkeepSpec, KeyboxSpec, ValidationSpec, PatchSpec, RegionSpec, StatusSpec

\* Whatever the five components do, their files, reports, properties and
\* counters keep their types (the daemon's tasks keybox, security_patch and
\* status, keybox::validate and region::apply).
THEOREM UpkeepTypeCorrect == UpkeepSpec => []UpkeepTypeOK
BY EachOnItsOwn, KeyboxTypeCorrect, ValidationTypeCorrect, PatchTypeCorrect, RegionTypeCorrect,
   StatusTypeCorrect, PTL DEF UpkeepTypeOK

\* And so do the promises that the other theorems make of them one by one, for
\* a clock before 2100 (save, validate, write_patch_dates, apply, StatusTask).
THEOREM UpkeepKeepsItsPromises ==
    ASSUME \A instant \in Instants : instant < EndOfYears
    PROVE  UpkeepSpec => /\ [](KeyboxIsWhole /\ AcceptedIsTrusted /\ DatesHold)
                         /\ [](RegionUndone /\ BackupIsOriginal)
                         /\ ReplacedIsKept
<1>1. PatchSpec => []DatesHold
  BY DatesAreRight
<1> QED
  BY EachOnItsOwn, <1>1, InstalledIsWhole, BackupBeforeReplacement, PassedReportIsTrusted,
     UndoneIsBooted, BackupIsTheOriginal, PTL
=============================================================================
