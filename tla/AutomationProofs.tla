-------------------------- MODULE AutomationProofs --------------------------
(* Safety of the target list, for any apps, any number of automation         *)
(* commands beside the daemon, and any number of changes and failures.       *)
EXTENDS Automation, TLAPS

\* The apps that have, or once had, a line, or missed it in a crossed write:
\* target.txt is never replaced in a way that makes an app leave them.
Had == Listed(target) \cup lost

LEMMA RetargetType ==
    ASSUME TypeOK, NEW new \in Lists, NEW missed \in SUBSET Apps, Retarget(new, missed)
    PROVE  /\ target' \in Lists /\ lost' \subseteq Apps
           /\ Had \subseteq Had'
           /\ Listed(new) \cup missed \subseteq Had'
BY DEF TypeOK, Retarget, Listed, Had, Lists

LEMMA EmptyIsList == Empty \in Lists
BY DEF Empty, Lists, Marks

LEMMA AtIsJob ==
    ASSUME NEW stage \in Stages
    PROVE  At(stage) \in Jobs
BY EmptyIsList DEF At, Jobs, Writes

\* What is written is a list, and one with the line that is to be added.
LEMMA NewListType ==
    ASSUME NEW s \in Scanners, job[s] \in Jobs,
           job[s].write \in {"add", "remove"} => job[s].pkg \in Apps
    PROVE  /\ NewList(s) \in Lists
           /\ job[s].write = "add" => job[s].pkg \in Listed(NewList(s))
<1>1. job[s].lines \in Lists
  BY DEF Jobs
<1>2. CASE job[s].write = "add"
  BY <1>1, <1>2 DEF NewList, Lists, Marks, Listed
<1>3. CASE job[s].write = "remove"
  BY <1>1, <1>3 DEF NewList, Lists, Marks
<1>4. CASE job[s].write \notin {"add", "remove"}
  BY <1>1, <1>4 DEF NewList
<1> QED
  BY <1>2, <1>3, <1>4

\* Nothing shows behind what is written to an empty file.
LEMMA OverEmpty ==
    ASSUME NEW new \in Lists
    PROVE  Over(Empty, new) = {new}
<1>1. ASSUME NEW list \in Over(Empty, new) PROVE list = new
  <2>1. list \in Lists /\ \A a \in Apps : list[a] = new[a]
    BY <1>1 DEF Over, Empty
  <2> QED
    BY <2>1 DEF Lists
<1> QED
  BY <1>1 DEF Over

\* What is known of a scanner's local variables at each stage: the app it is
\* at, and, while it checks, that what it has listed and dealt with had its line.
Checking(s) == job[s].pc \in {"add", "record", "save"} \/ job[s].write = "add"
JobInv(s) ==
    /\ job[s].write # "none" => job[s].pc \in {"open", "fill", "rename"}
    /\ (job[s].pc \in {"record", "forget"} \/ job[s].write \in {"add", "remove"})
          => job[s].pkg \in Apps
    /\ Checking(s) => job[s].current \cap Eligible \subseteq Had \cup job[s].todo
    /\ job[s].pc = "record" => job[s].pkg \in Had
    /\ job[s].pc = "save" => job[s].todo = {}

\* A scanner whose write is not crossed writes by itself, and target.tmp holds
\* what it has written so far.
Own(s) ==
    s \notin crossed =>
        /\ job[s].pc = "fill" => handle[s] = "tmp" /\ tmp = Empty
        /\ job[s].pc = "rename" => tmp = NewList(s)
CrossInv ==
    /\ \A s \in Scanners : Own(s)
    /\ \A s, t \in Scanners : s # t /\ Writing(s) /\ Writing(t) => s \in crossed

IInv ==
    /\ TypeOK
    /\ known \cap Eligible \subseteq Had
    /\ \A s \in Scanners : JobInv(s)
    /\ CrossInv

LEMMA IInvInit == Init => IInv
<1> SUFFICES ASSUME Init PROVE IInv
  OBVIOUS
<1>1. At("idle") \in Jobs /\ At("idle").pc = "idle" /\ At("idle").write = "none"
  BY AtIsJob DEF Stages, At
<1>2. TypeOK
  <2>1. installed \subseteq Apps /\ data \subseteq Apps /\ gone \subseteq Apps
    BY DEF Init
  <2>2. target \in Lists /\ known \subseteq Apps /\ lost \subseteq Apps
    BY AutomationAssumption DEF Init
  <2>3. job \in [Scanners -> Jobs]
    BY <1>1 DEF Init
  <2>4. changes \in 0 .. MaxChanges /\ failures \in 0 .. MaxFailures
    BY AutomationAssumption DEF Init
  <2>5. handle \in [Scanners -> Handles] /\ crossed \subseteq Scanners
    BY DEF Init, Handles
  <2> QED
    BY <2>1, <2>2, <2>3, <2>4, <2>5, Zenon DEF Init, TypeOK
<1>3. known \cap Eligible \subseteq Had
  BY DEF Init, Had
<1>4. \A s \in Scanners : JobInv(s)
  BY <1>1 DEF Init, JobInv, Checking
<1>5. CrossInv
  BY <1>1 DEF Init, CrossInv, Own, Writing
<1> QED
  BY <1>2, <1>3, <1>4, <1>5 DEF IInv

\* What a step of a scanner has to do: leave a job of the right type that keeps
\* JobInv, take no app out of Had, and save only apps that are in it.
Kept(s) ==
    /\ job' = [job EXCEPT ![s] = job'[s]]
    /\ job'[s] \in Jobs
    /\ JobInv(s)'
    /\ Had \subseteq Had'
    /\ known' \cap Eligible \subseteq Had'

\* A step after which the scanner is not writing.
Rests(s) == Kept(s) /\ ~Writing(s)'

LEMMA OthersKept ==
    ASSUME IInv, NEW s \in Scanners, Kept(s)
    PROVE  /\ job' \in [Scanners -> Jobs]
           /\ \A t \in Scanners \ {s} : job'[t] = job[t]
           /\ \A t \in Scanners : JobInv(t)'
<1>1. job' \in [Scanners -> Jobs]
  BY DEF IInv, TypeOK, Kept
<1>2. \A t \in Scanners \ {s} : job'[t] = job[t]
  BY DEF Kept, IInv, TypeOK
<1>3. ASSUME NEW t \in Scanners, t # s PROVE JobInv(t)'
  <2>1. job'[t] = job[t] /\ JobInv(t) /\ Had \subseteq Had'
    BY <1>2, <1>3 DEF IInv, Kept
  <2> QED
    BY <2>1 DEF JobInv, Checking
<1> QED
  BY <1>1, <1>2, <1>3 DEF Kept

\* A scanner that ends a loop has no local variables to speak of.
LEMMA LeaveKept ==
    ASSUME IInv, NEW s \in Scanners, NEW to \in {"idle", "list", "all"},
           Leave(s, to), UNCHANGED entries,
           known' \cap Eligible \subseteq Had
    PROVE  Rests(s)
<1>1. At(to) \in Jobs /\ At(to).pc = to /\ At(to).write = "none"
  BY AtIsJob DEF Stages, At
<1>2. job' = [job EXCEPT ![s] = At(to)] /\ job'[s] = At(to)
  BY DEF Leave, IInv, TypeOK
<1>3. Had' = Had
  BY DEF Had, entries, Listed
<1> QED
  BY <1>1, <1>2, <1>3 DEF Rests, Kept, JobInv, Checking, Writing

\* A scanner that goes on, with target.txt and known_packages.txt as they are.
LEMMA OnKept ==
    ASSUME IInv, NEW s \in Scanners, NEW new \in Jobs,
           job' = [job EXCEPT ![s] = new], UNCHANGED <<entries, known>>,
           new.write # "none" => new.pc = "open",
           new.pc = "forget" \/ new.write \in {"add", "remove"} => new.pkg \in Apps,
           new.pc \in {"add", "save"} \/ new.write = "add" =>
               new.current \cap Eligible \subseteq Had \cup new.todo,
           new.pc \notin {"record", "fill", "rename"},
           new.pc = "save" => new.todo = {}
    PROVE  Rests(s)
<1>1. job'[s] = new
  BY DEF IInv, TypeOK
<1>2. Had' = Had
  BY DEF Had, entries, Listed
<1> QED
  BY <1>1, <1>2 DEF Rests, Kept, JobInv, Checking, Writing, IInv

-----------------------------------------------------------------------------
\* The steps of a write: opening and filling target.tmp, ...
LEMMA OpenFillKept ==
    ASSUME IInv, NEW s \in Scanners, OpenTmp(s) \/ FillTmp(s)
    PROVE  Kept(s) /\ target' \in Lists /\ lost' \subseteq Apps /\ (tmp' = None \/ tmp' \in Lists)
<1>0. job[s] \in Jobs /\ JobInv(s) /\ TypeOK /\ known \cap Eligible \subseteq Had
  BY DEF IInv, TypeOK
<1>1. PICK to \in {"fill", "rename"} : job' = [job EXCEPT ![s].pc = to]
  BY DEF OpenTmp, FillTmp
<1> DEFINE new == [job[s] EXCEPT !.pc = to]
<1>2. /\ new \in Jobs /\ new.pc = to /\ new.write = job[s].write /\ new.pkg = job[s].pkg
      /\ new.current = job[s].current /\ new.todo = job[s].todo
  BY <1>0 DEF Jobs, Stages
<1>3. job' = [job EXCEPT ![s] = new] /\ job'[s] = new /\ known' = known
  BY <1>0, <1>1 DEF TypeOK, OpenTmp, FillTmp, records
<1> HIDE DEF new
<1>4. target' \in Lists /\ lost' \subseteq Apps /\ Had \subseteq Had'
      /\ (tmp' = None \/ tmp' \in Lists)
  <2>1. CASE UNCHANGED entries /\ (tmp' = None \/ tmp' \in Lists)
    BY <1>0, <2>1 DEF TypeOK, entries, Had, Listed
  <2>2. CASE \E list \in Lists : Retarget(list, {}) /\ UNCHANGED tmp
    BY <1>0, <2>2, RetargetType DEF TypeOK
  <2> QED
    BY <1>0, <2>1, <2>2, EmptyIsList DEF OpenTmp, FillTmp, Over, TypeOK
<1> QED
  BY <1>0, <1>1, <1>2, <1>3, <1>4 DEF Kept, JobInv, Checking

\* ... and the rename, which leaves a list with the line that was to be added,
\* or an app that has missed it.
LEMMA RenameKept ==
    ASSUME IInv, NEW s \in Scanners, NEW to \in {"applied", "record", "forget"}, Rename(s, to),
           to = "record" => job[s].write = "add",
           to = "forget" => job[s].write = "remove"
    PROVE  Rests(s) /\ target' \in Lists /\ lost' \subseteq Apps /\ tmp' = None
<1>0. job[s] \in Jobs /\ JobInv(s) /\ Own(s) /\ TypeOK /\ known \cap Eligible \subseteq Had
  BY DEF IInv, TypeOK, CrossInv
<1> DEFINE new == [job[s] EXCEPT !.pc = to, !.write = "none", !.lines = Empty]
           missed == IF s \in crossed /\ job[s].write = "add" THEN {job[s].pkg} ELSE {}
<1>1. /\ new \in Jobs /\ new.pc = to /\ new.write = "none" /\ new.pkg = job[s].pkg
      /\ new.current = job[s].current /\ new.todo = job[s].todo
  BY <1>0, EmptyIsList DEF Jobs, Stages, Writes
<1>2. job' = [job EXCEPT ![s] = new] /\ job'[s] = new /\ known' = known
  BY <1>0 DEF TypeOK, Rename, records
<1>3. job[s].pc = "rename" /\ tmp \in Lists /\ Retarget(tmp, missed) /\ tmp' = None
  BY <1>0 DEF Rename, TypeOK
<1>4. missed \in SUBSET Apps
  BY <1>0 DEF JobInv
<1>5. job[s].write = "add" => job[s].pkg \in Listed(tmp) \cup missed
  BY <1>0, <1>3, NewListType DEF JobInv, Own
<1> HIDE DEF new, missed
<1>6. target' \in Lists /\ lost' \subseteq Apps /\ Had \subseteq Had'
      /\ Listed(tmp) \cup missed \subseteq Had'
  BY <1>0, <1>3, <1>4, RetargetType
<1>7. JobInv(s)'
  <2>1. CASE to = "record"
    BY <1>0, <1>1, <1>2, <1>5, <1>6, <2>1 DEF JobInv, Checking
  <2>2. CASE to = "forget"
    BY <1>0, <1>1, <1>2, <2>2 DEF JobInv, Checking
  <2>3. CASE to = "applied"
    BY <1>1, <1>2, <2>3 DEF JobInv, Checking
  <2> QED
    BY <2>1, <2>2, <2>3
<1>8. ~Writing(s)'
  BY <1>1, <1>2 DEF Writing
<1> QED
  BY <1>0, <1>1, <1>2, <1>3, <1>6, <1>7, <1>8 DEF Rests, Kept


\* The steps of check_new_packages.
LEMMA CheckKept ==
    ASSUME IInv, NEW s \in Scanners, Check(s)
    PROVE  Rests(s)
<1> USE DEF Jobs, Stages, Writes
<1>0. job[s] \in Jobs /\ JobInv(s)
  BY DEF IInv, TypeOK
<1>t. known \cap Eligible \subseteq Had /\ target \in Lists
  BY DEF IInv, TypeOK
<1>1. CASE ListThirdParty(s)
  <2> DEFINE new == [job[s] EXCEPT !.pc = "load", !.current = installed \cap ThirdParty]
  <2>1. new \in Jobs /\ new.pc = "load" /\ new.write = "none"
    BY <1>0, <1>1, AutomationAssumption DEF ListThirdParty, JobInv
  <2>2. job' = [job EXCEPT ![s] = new] /\ UNCHANGED <<entries, known>>
    BY <1>1 DEF ListThirdParty, records
  <2> HIDE DEF new
  <2> QED
    BY <2>1, <2>2, OnKept
<1>2. CASE LoadKnown(s)
  <2>1. PICK loaded \in {known, {}} :
          job' = [job EXCEPT ![s].pc = "add", ![s].legacy = loaded,
                             ![s].todo = job[s].current \ loaded]
    BY <1>2 DEF LoadKnown
  <2> DEFINE new == [job[s] EXCEPT !.pc = "add", !.legacy = loaded,
                                   !.todo = job[s].current \ loaded]
  <2>2. new \in Jobs /\ new.pc = "add" /\ new.todo = job[s].current \ loaded
        /\ new.current = job[s].current /\ new.write = "none"
    BY <1>0, <1>2 DEF IInv, TypeOK, JobInv, LoadKnown
  <2>3. job' = [job EXCEPT ![s] = new] /\ UNCHANGED <<entries, known>>
    BY <1>2, <2>1 DEF LoadKnown, records
  <2> HIDE DEF new
  <2> QED
    BY <2>2, <2>3, <1>t, OnKept
<1>3. CASE PassOver(s)
  <2>1. PICK a \in job[s].todo \cap (Unwanted \cup Listed(target)) :
          job' = [job EXCEPT ![s].todo = @ \ {a}]
    BY <1>3 DEF PassOver
  <2> DEFINE new == [job[s] EXCEPT !.todo = @ \ {a}]
  <2>2. new \in Jobs /\ new.pc = "add" /\ new.todo = job[s].todo \ {a}
        /\ new.current = job[s].current /\ new.write = "none"
    BY <1>0, <1>3 DEF PassOver, JobInv
  <2>3. job' = [job EXCEPT ![s] = new] /\ UNCHANGED <<entries, known>>
    BY <1>3, <2>1 DEF PassOver, records
  <2>4. job[s].current \cap Eligible \subseteq Had \cup job[s].todo
    BY <1>0, <1>3 DEF PassOver, JobInv, Checking
  <2>5. a \in Had \/ a \notin Eligible
    BY <2>1 DEF Had, Eligible
  <2> HIDE DEF new
  <2> QED
    BY <2>2, <2>3, <2>4, <2>5, OnKept
<1>4. CASE ReadToAdd(s)
  <2>1. PICK a \in job[s].todo \ (Unwanted \cup Listed(target)) :
          job' = [job EXCEPT ![s].pc = "open", ![s].write = "add", ![s].pkg = a,
                             ![s].lines = target]
    BY <1>4 DEF ReadToAdd
  <2> DEFINE new == [job[s] EXCEPT !.pc = "open", !.write = "add", !.pkg = a, !.lines = target]
  <2>2. new \in Jobs /\ new.pc = "open" /\ new.todo = job[s].todo
        /\ new.current = job[s].current /\ new.pkg = a /\ a \in Apps
    BY <1>0, <1>t
  <2>3. job' = [job EXCEPT ![s] = new] /\ UNCHANGED <<entries, known>>
    BY <1>4, <2>1 DEF ReadToAdd, records
  <2>4. job[s].current \cap Eligible \subseteq Had \cup job[s].todo
    BY <1>0, <1>4 DEF ReadToAdd, JobInv, Checking
  <2> HIDE DEF new
  <2> QED
    BY <2>2, <2>3, <2>4, OnKept
<1>5. CASE WriteAdded(s)
  BY <1>5, RenameKept DEF WriteAdded
<1>6. CASE Record(s)
  <2> DEFINE new == [job[s] EXCEPT !.pc = "add", !.todo = @ \ {job[s].pkg}, !.pkg = None]
  <2>1. new \in Jobs /\ new.pc = "add" /\ new.todo = job[s].todo \ {job[s].pkg}
        /\ new.current = job[s].current /\ new.write = "none"
    BY <1>0, <1>6 DEF Record, JobInv
  <2>2. job' = [job EXCEPT ![s] = new] /\ UNCHANGED <<entries, known>>
    BY <1>6 DEF Record
  <2>3. job[s].current \cap Eligible \subseteq Had \cup job[s].todo /\ job[s].pkg \in Had
    BY <1>0, <1>6 DEF Record, JobInv, Checking
  <2> HIDE DEF new
  <2> QED
    BY <2>1, <2>2, <2>3, OnKept
<1>7. CASE Bootstrap(s)
  <2> DEFINE new == [job[s] EXCEPT !.pc = "save"]
  <2>1. new \in Jobs /\ new.pc = "save" /\ new.todo = {} /\ new.current = job[s].current
        /\ new.write = "none"
    BY <1>0, <1>7 DEF Bootstrap, JobInv
  <2>2. job' = [job EXCEPT ![s] = new] /\ UNCHANGED <<entries, known>>
    BY <1>7 DEF Bootstrap
  <2>3. job[s].current \cap Eligible \subseteq Had
    BY <1>0, <1>7 DEF Bootstrap, JobInv, Checking
  <2> HIDE DEF new
  <2> QED
    BY <2>1, <2>2, <2>3, OnKept
<1>8. CASE SaveKnown(s)
  <2>1. ASSUME NEW t \in Scanners, job[t].pc = "save"
        PROVE  job[t].current \cap Eligible \subseteq Had
    BY <2>1 DEF IInv, JobInv, Checking
  <2>2. known' \cap Eligible \subseteq Had
    BY <1>8, <2>1 DEF SaveKnown, Together
  <2>3. \E to \in {"all", "idle"} : Leave(s, to)
    BY <1>8 DEF SaveKnown, Checked
  <2> QED
    BY <1>8, <2>2, <2>3, LeaveKept DEF SaveKnown
<1>9. CASE CheckFails(s) \/ AddFails(s)
  <2>1. \E to \in {"all", "idle"} : Leave(s, to)
    BY <1>9 DEF CheckFails, AddFails, Checked
  <2>2. UNCHANGED <<entries, known>>
    BY <1>9 DEF CheckFails, AddFails, WriteFails, records
  <2> QED
    BY <1>t, <2>1, <2>2, LeaveKept
<1> QED
  BY <1>1, <1>2, <1>3, <1>4, <1>5, <1>6, <1>7, <1>8, <1>9 DEF Check

\* The steps of cleanup_dead_apps.
LEMMA CleanupKept ==
    ASSUME IInv, NEW s \in Scanners, Cleanup(s)
    PROVE  Rests(s)
<1> USE DEF Jobs, Stages, Writes
<1>0. job[s] \in Jobs /\ JobInv(s)
  BY DEF IInv, TypeOK
<1>t. known \cap Eligible \subseteq Had /\ target \in Lists /\ installed \subseteq Apps
  BY DEF IInv, TypeOK
<1>1. CASE ListAll(s)
  <2> DEFINE new == [job[s] EXCEPT !.pc = "targets", !.current = installed]
  <2>1. new \in Jobs /\ new.pc = "targets" /\ new.write = "none"
    BY <1>0, <1>1, <1>t DEF ListAll, JobInv
  <2>2. job' = [job EXCEPT ![s] = new] /\ UNCHANGED <<entries, known>>
    BY <1>1 DEF ListAll, records
  <2> HIDE DEF new
  <2> QED
    BY <2>1, <2>2, OnKept
<1>2. CASE ReadTargets(s)
  <2> DEFINE new == [job[s] EXCEPT !.pc = "cleanup", !.todo = Listed(target)]
  <2>1. new \in Jobs /\ new.pc = "cleanup" /\ new.write = "none"
    BY <1>0, <1>2 DEF Listed, ReadTargets, JobInv
  <2>2. job' = [job EXCEPT ![s] = new] /\ UNCHANGED <<entries, known>>
    BY <1>2 DEF ReadTargets, records
  <2> HIDE DEF new
  <2> QED
    BY <2>1, <2>2, OnKept
<1>3. CASE Keep(s)
  <2>1. PICK a \in job[s].todo : job' = [job EXCEPT ![s].todo = @ \ {a}]
    BY <1>3 DEF Keep
  <2> DEFINE new == [job[s] EXCEPT !.todo = @ \ {a}]
  <2>2. new \in Jobs /\ new.pc = "cleanup" /\ new.write = "none"
    BY <1>0, <1>3 DEF Keep, JobInv
  <2>3. job' = [job EXCEPT ![s] = new] /\ UNCHANGED <<entries, known>>
    BY <1>3, <2>1 DEF Keep, records
  <2> HIDE DEF new
  <2> QED
    BY <2>2, <2>3, OnKept
<1>4. CASE ReadToRemove(s)
  <2>1. PICK a \in job[s].todo \cap Listed(target) :
          job' = [job EXCEPT ![s].pc = "open", ![s].write = "remove", ![s].pkg = a,
                             ![s].lines = target]
    BY <1>4 DEF ReadToRemove
  <2> DEFINE new == [job[s] EXCEPT !.pc = "open", !.write = "remove", !.pkg = a,
                                   !.lines = target]
  <2>2. new \in Jobs /\ new.pc = "open" /\ new.write = "remove" /\ new.pkg \in Apps
    BY <1>0, <1>t
  <2>3. job' = [job EXCEPT ![s] = new] /\ UNCHANGED <<entries, known>>
    BY <1>4, <2>1 DEF ReadToRemove, records
  <2> HIDE DEF new
  <2> QED
    BY <2>2, <2>3, OnKept
<1>5. CASE WriteRemoved(s)
  BY <1>5, RenameKept DEF WriteRemoved
<1>6. CASE Forget(s)
  <2> DEFINE new == [job[s] EXCEPT !.pc = "cleanup", !.todo = @ \ {job[s].pkg}, !.pkg = None]
  <2>1. new \in Jobs /\ new.pc = "cleanup" /\ new.write = "none"
    BY <1>0, <1>6 DEF Forget, JobInv
  <2>2. job' = [job EXCEPT ![s] = new] /\ UNCHANGED <<entries, known>>
    BY <1>6 DEF Forget
  <2> HIDE DEF new
  <2> QED
    BY <2>1, <2>2, OnKept
<1>7. CASE EndCleanup(s) \/ CleanupFails(s) \/ RemoveFails(s)
  <2>1. Leave(s, "idle") /\ UNCHANGED <<entries, known>>
    BY <1>7 DEF EndCleanup, CleanupFails, RemoveFails, WriteFails, records
  <2> QED
    BY <1>t, <2>1, LeaveKept
<1> QED
  BY <1>1, <1>2, <1>3, <1>4, <1>5, <1>6, <1>7 DEF Cleanup

-----------------------------------------------------------------------------
(***************************************************************************)
(* Who has written target.tmp: a step that ends a write, or has nothing to *)
(* do with one, crosses nobody; a write that finds another under way marks *)
(* both.                                                                   *)
(***************************************************************************)

LEMMA QuietCross ==
    ASSUME IInv, NEW s \in Scanners, Rests(s), tmp' = tmp,
           crossed' = crossed \/ crossed' = crossed \ {s},
           \A t \in Scanners \ {s} : handle'[t] = handle[t]
    PROVE  CrossInv'
<1>1. \A t \in Scanners \ {s} : job'[t] = job[t]
  BY OthersKept DEF Rests
<1>2. ~Writing(s)'
  BY DEF Rests
<1>3. ASSUME NEW t \in Scanners, t # s PROVE Own(t)'
  <2>1. job'[t] = job[t] /\ handle'[t] = handle[t] /\ Own(t) /\ tmp' = tmp
        /\ (t \notin crossed' => t \notin crossed)
    BY <1>1, <1>3 DEF IInv, CrossInv
  <2>2. NewList(t)' = NewList(t)
    BY <2>1 DEF NewList
  <2> QED
    BY <2>1, <2>2 DEF Own
<1>4. Own(s)'
  BY <1>2 DEF Own, Writing
<1>5. ASSUME NEW t \in Scanners, NEW u \in Scanners, t # u, Writing(t)', Writing(u)'
      PROVE  t \in crossed'
  <2>1. t # s /\ u # s
    BY <1>2, <1>5
  <2>2. Writing(t) /\ Writing(u)
    BY <1>1, <1>5, <2>1 DEF Writing
  <2>3. t \in crossed
    BY <1>5, <2>2 DEF IInv, CrossInv
  <2> QED
    BY <2>1, <2>3
<1> QED
  BY <1>3, <1>4, <1>5 DEF CrossInv

\* The write that a rename ends was either the only one, or crossed all others.
LEMMA RenameCross ==
    ASSUME IInv, NEW s \in Scanners, NEW to, Rename(s, to), Rests(s),
           crossed' = crossed \/ crossed' = crossed \ {s}
    PROVE  CrossInv'
<1>1. \A t \in Scanners \ {s} : job'[t] = job[t]
  BY OthersKept DEF Rests
<1>2. Writing(s) /\ ~Writing(s)'
  BY DEF Rests, Rename, Writing
<1>3. ASSUME NEW t \in Scanners, Writing(t)' PROVE t # s /\ Writing(t) /\ t \in crossed'
  <2>1. t # s
    BY <1>2, <1>3
  <2>2. Writing(t)
    BY <1>1, <1>3, <2>1 DEF Writing
  <2>3. t \in crossed
    BY <1>2, <2>1, <2>2 DEF IInv, CrossInv
  <2> QED
    BY <2>1, <2>2, <2>3
<1> QED
  BY <1>3 DEF CrossInv, Own, Writing

LEMMA OpenCross ==
    ASSUME IInv, NEW s \in Scanners, OpenTmp(s)
    PROVE  CrossInv' /\ handle' \in [Scanners -> Handles] /\ crossed' \subseteq Scanners
<1> DEFINE others == {t \in Scanners \ {s} : Writing(t)}
<1>0. TypeOK
  BY DEF IInv
<1>1. \A t \in Scanners \ {s} : job'[t] = job[t]
  BY OpenFillKept, OthersKept
<1>2. job'[s].pc = "fill" /\ handle'[s] = "tmp" /\ tmp' = Empty
  BY <1>0 DEF OpenTmp, TypeOK, Jobs
<1>3. crossed' = IF others = {} THEN crossed \ {s} ELSE crossed \cup others \cup {s}
  BY DEF OpenTmp
<1>4. ASSUME NEW t \in Scanners, t # s, Writing(t)' PROVE t \in others /\ t \in crossed'
  <2>1. t \in others
    BY <1>1, <1>4 DEF Writing
  <2> QED
    BY <1>3, <2>1
<1> HIDE DEF others
<1>5. Own(s)'
  BY <1>2 DEF Own
<1>6. ASSUME NEW t \in Scanners, t # s PROVE Own(t)'
  BY <1>4, <1>6 DEF Own, Writing
<1>7. ASSUME NEW t \in Scanners, NEW u \in Scanners, t # u, Writing(t)', Writing(u)'
      PROVE  t \in crossed'
  <2>1. CASE t = s
    BY <1>3, <1>4, <1>7, <2>1
  <2>2. CASE t # s
    BY <1>4, <1>7, <2>2
  <2> QED
    BY <2>1, <2>2
<1>8. handle' \in [Scanners -> Handles] /\ crossed' \subseteq Scanners
  BY <1>0, <1>3 DEF OpenTmp, TypeOK, Handles, others
<1> QED
  BY <1>5, <1>6, <1>7, <1>8 DEF CrossInv

LEMMA FillCross ==
    ASSUME IInv, NEW s \in Scanners, FillTmp(s)
    PROVE  CrossInv' /\ handle' \in [Scanners -> Handles] /\ crossed' \subseteq Scanners
<1>0. TypeOK /\ job[s] \in Jobs /\ JobInv(s) /\ Own(s)
  BY DEF IInv, TypeOK, CrossInv
<1>1. \A t \in Scanners \ {s} : job'[t] = job[t]
  BY OpenFillKept, OthersKept
<1>2. /\ job[s].pc = "fill" /\ job'[s].pc = "rename" /\ job'[s].write = job[s].write
      /\ job'[s].pkg = job[s].pkg /\ job'[s].lines = job[s].lines
  BY <1>0 DEF FillTmp, TypeOK, Jobs
<1>3. crossed' = crossed
  BY DEF FillTmp
<1>4. ASSUME NEW t \in Scanners, Writing(t)' PROVE Writing(t) /\ Writing(s)
  BY <1>1, <1>2, <1>4 DEF Writing
<1>5. Own(s)'
  <2>1. NewList(s)' = NewList(s)
    BY <1>2 DEF NewList
  <2>2. CASE s \notin crossed
    <3>1. handle[s] = "tmp" /\ tmp = Empty
      BY <1>0, <1>2, <2>2 DEF Own
    <3>2. tmp' \in Over(Empty, NewList(s))
      BY <3>1 DEF FillTmp
    <3>3. NewList(s) \in Lists
      BY <1>0, NewListType DEF JobInv
    <3>4. tmp' = NewList(s)
      BY <3>2, <3>3, OverEmpty
    <3> QED
      BY <1>2, <2>1, <3>4 DEF Own
  <2> QED
    BY <1>3, <2>2 DEF Own
<1>6. ASSUME NEW t \in Scanners, t # s PROVE Own(t)'
  BY <1>3, <1>4, <1>6 DEF Own, Writing, IInv, CrossInv
<1>7. \A t, u \in Scanners : t # u /\ Writing(t)' /\ Writing(u)' => t \in crossed'
  BY <1>3, <1>4 DEF IInv, CrossInv
<1>8. handle' \in [Scanners -> Handles] /\ crossed' \subseteq Scanners
  BY <1>0, <1>3 DEF FillTmp, TypeOK, Handles
<1> QED
  BY <1>5, <1>6, <1>7, <1>8 DEF CrossInv

-----------------------------------------------------------------------------
\* The variables that are not a scanner's own, but for the two of the
\* package manager and the user's.
FilesOK ==
    /\ target \in Lists /\ lost \subseteq Apps
    /\ tmp = None \/ tmp \in Lists
    /\ handle \in [Scanners -> Handles] /\ crossed \subseteq Scanners
    /\ known \subseteq Apps
    /\ auto_added = None \/ auto_added \subseteq Apps
    /\ changes \in 0 .. MaxChanges /\ failures \in 0 .. MaxFailures

LEMMA FailsType ==
    ASSUME TypeOK, Fails \/ Change \/ UNCHANGED bounds
    PROVE  changes' \in 0 .. MaxChanges /\ failures' \in 0 .. MaxFailures
BY AutomationAssumption DEF TypeOK, Fails, Change, bounds

\* Which of the steps of the two routines touch target.tmp.
LEMMA ScannerTemps ==
    ASSUME IInv, NEW s \in Scanners, Check(s) \/ Cleanup(s)
    PROVE  CrossInv' /\ (tmp' = None \/ tmp' \in Lists)
           /\ handle' \in [Scanners -> Handles] /\ crossed' \subseteq Scanners
           /\ crossed \ {s} \subseteq crossed'
<1>0. TypeOK /\ Rests(s)
  BY CheckKept, CleanupKept DEF IInv
<1>1. CASE WriteAdded(s) \/ WriteRemoved(s)
  <2>1. PICK to \in {"record", "forget"} : Rename(s, to)
    BY <1>1 DEF WriteAdded, WriteRemoved
  <2>2. CrossInv'
    BY <1>0, <1>1, <2>1, RenameCross DEF WriteAdded, WriteRemoved
  <2>3. tmp' = None
    BY <2>1 DEF Rename
  <2>4. handle' \in [Scanners -> Handles]
    BY <1>0, <2>1 DEF Rename, Moved, TypeOK, Handles
  <2>5. crossed' = crossed \ {s} /\ crossed' \subseteq Scanners
    BY <1>0, <1>1 DEF WriteAdded, WriteRemoved, TypeOK
  <2> QED
    BY <2>2, <2>3, <2>4, <2>5
<1>2. CASE UNCHANGED temps
  <2>1. tmp' = tmp /\ handle' = handle /\ crossed' = crossed
    BY <1>2 DEF temps
  <2> QED
    BY <1>0, <2>1, QuietCross DEF TypeOK
<1>3. CASE WriteFails(s)
  <2>1. /\ tmp' = tmp /\ crossed' = crossed \ {s}
        /\ handle' = [handle EXCEPT ![s] = "none"]
    BY <1>3 DEF WriteFails
  <2>2. /\ \A t \in Scanners \ {s} : handle'[t] = handle[t]
        /\ handle' \in [Scanners -> Handles] /\ crossed' \subseteq Scanners
    BY <1>0, <2>1 DEF TypeOK, Handles
  <2> QED
    BY <1>0, <2>1, <2>2, QuietCross DEF TypeOK
<1> QED
  BY <1>1, <1>2, <1>3
     DEF Check, ListThirdParty, LoadKnown, PassOver, ReadToAdd, Record, Bootstrap, SaveKnown,
         CheckFails, AddFails, Cleanup, ListAll, ReadTargets, Keep, ReadToRemove, Forget,
         EndCleanup, CleanupFails, RemoveFails

\* A scanner's step leaves the files well typed.
LEMMA ScannerType ==
    ASSUME IInv, NEW s \in Scanners, Check(s) \/ Cleanup(s)
    PROVE  FilesOK' /\ UNCHANGED <<phone, inbox>>
<1>0. TypeOK /\ job[s] \in Jobs /\ JobInv(s)
  BY DEF IInv, TypeOK
<1>1. Fails \/ UNCHANGED bounds
  BY DEF Check, ListThirdParty, LoadKnown, PassOver, ReadToAdd, WriteAdded, Record,
         Bootstrap, SaveKnown, CheckFails, AddFails, Cleanup, ListAll, ReadTargets, Keep,
         ReadToRemove, WriteRemoved, Forget, EndCleanup, CleanupFails, RemoveFails,
         Rename, WriteFails
<1>2. UNCHANGED <<phone, inbox>>
  BY DEF Check, ListThirdParty, LoadKnown, PassOver, ReadToAdd, WriteAdded, Record,
         Bootstrap, SaveKnown, CheckFails, AddFails, Cleanup, ListAll, ReadTargets, Keep,
         ReadToRemove, WriteRemoved, Forget, EndCleanup, CleanupFails, RemoveFails,
         Rename, WriteFails
<1>3. target' \in Lists /\ lost' \subseteq Apps
  <2>1. CASE UNCHANGED entries
    BY <1>0, <2>1 DEF TypeOK, entries
  <2>2. CASE WriteAdded(s) \/ WriteRemoved(s)
    BY <2>2, RenameKept DEF WriteAdded, WriteRemoved
  <2> QED
    BY <2>1, <2>2
    DEF Check, ListThirdParty, LoadKnown, PassOver, ReadToAdd, Record,
        Bootstrap, SaveKnown, CheckFails, AddFails, Cleanup, ListAll, ReadTargets, Keep,
        ReadToRemove, Forget, EndCleanup, CleanupFails, RemoveFails, WriteFails
<1>4. known' \subseteq Apps
  <2>1. CASE SaveKnown(s)
    <3>1. \A t \in Scanners : job[t].current \subseteq Apps
      BY <1>0 DEF TypeOK, Jobs
    <3> QED
      BY <2>1, <3>1 DEF SaveKnown, Together
  <2>2. CASE UNCHANGED known
    BY <1>0, <2>2 DEF TypeOK
  <2> QED
    BY <2>1, <2>2
    DEF Check, ListThirdParty, LoadKnown, PassOver, ReadToAdd, WriteAdded, Record,
        Bootstrap, CheckFails, AddFails, Cleanup, ListAll, ReadTargets, Keep,
        ReadToRemove, WriteRemoved, Forget, EndCleanup, CleanupFails, RemoveFails, records,
        Rename, WriteFails
<1>5. auto_added' = None \/ auto_added' \subseteq Apps
  <2>1. CASE UNCHANGED auto_added
    BY <1>0, <2>1 DEF TypeOK
  <2>2. CASE Record(s)
    BY <1>0, <2>2 DEF Record, TypeOK, JobInv
  <2>3. CASE Bootstrap(s)
    BY <1>0, <2>3 DEF Bootstrap, TypeOK, Listed
  <2>4. CASE Forget(s)
    BY <1>0, <2>4 DEF Forget, TypeOK
  <2> QED
    BY <2>1, <2>2, <2>3, <2>4
    DEF Check, ListThirdParty, LoadKnown, PassOver, ReadToAdd, WriteAdded,
        SaveKnown, CheckFails, AddFails, Cleanup, ListAll, ReadTargets, Keep,
        ReadToRemove, WriteRemoved, EndCleanup, CleanupFails, RemoveFails, records,
        Rename, WriteFails
<1> QED
  BY <1>0, <1>1, <1>2, <1>3, <1>4, <1>5, FailsType, ScannerTemps DEF FilesOK

\* The invariant from the parts the lemmas speak of.
LEMMA ScannerStep ==
    ASSUME IInv, NEW s \in Scanners, Scan(s)
    PROVE  IInv'
<1>1. CASE Check(s) \/ Cleanup(s)
  <2>1. Kept(s)
    BY <1>1, CheckKept, CleanupKept DEF Rests
  <2>2. FilesOK' /\ UNCHANGED <<phone, inbox>> /\ CrossInv'
    BY <1>1, ScannerType, ScannerTemps
  <2>3. job' \in [Scanners -> Jobs] /\ \A t \in Scanners : JobInv(t)'
    BY <2>1, OthersKept
  <2>4. TypeOK'
    BY <2>2, <2>3 DEF IInv, TypeOK, FilesOK, phone, inbox
  <2> QED
    BY <2>1, <2>2, <2>3, <2>4 DEF IInv, Kept
<1>2. CASE OpenTmp(s) \/ FillTmp(s)
  <2>1. /\ Kept(s) /\ target' \in Lists /\ lost' \subseteq Apps
        /\ (tmp' = None \/ tmp' \in Lists)
    BY <1>2, OpenFillKept
  <2>2. CrossInv' /\ handle' \in [Scanners -> Handles] /\ crossed' \subseteq Scanners
    BY <1>2, OpenCross, FillCross
  <2>3. UNCHANGED <<phone, inbox, records, bounds>>
    BY <1>2 DEF OpenTmp, FillTmp
  <2>4. job' \in [Scanners -> Jobs] /\ \A t \in Scanners : JobInv(t)'
    BY <2>1, OthersKept
  <2>5. TypeOK'
    BY <2>1, <2>2, <2>3, <2>4 DEF IInv, TypeOK, phone, inbox, records, bounds
  <2> QED
    BY <2>1, <2>2, <2>4, <2>5 DEF IInv, Kept
<1> QED
  BY <1>1, <1>2 DEF Scan

\* A scanner that begins, or the daemon before its check: no list is taken away
\* but by another one, and no local variable matters yet.
Begins ==
    \/ BeginPass \/ ReadPending \/ ReadPendingFails \/ ApplyFails \/ RemovePending
    \/ \E s \in Commands : BeginCommand(s)

LEMMA BeginFrame ==
    ASSUME IInv, Begins
    PROVE  \E s \in Scanners :
              /\ Rests(s) /\ UNCHANGED <<phone, entries, tmp, records>>
              /\ crossed' = crossed \/ crossed' = crossed \ {s}
              /\ handle' \in [Scanners -> Handles]
              /\ \A t \in Scanners \ {s} : handle'[t] = handle[t]
<1>0. TypeOK /\ known \cap Eligible \subseteq Had /\ Daemon \in Scanners
  BY DEF IInv, Scanners
<1>1. UNCHANGED <<phone, entries, tmp, records>>
  BY DEF Begins, BeginPass, ReadPending, ReadPendingFails, ApplyFails, RemovePending,
         BeginCommand, WriteFails, temps
<1>2. CASE BeginPass \/ ReadPendingFails \/ RemovePending
  <2>1. Leave(Daemon, "list")
    BY <1>2 DEF BeginPass, ReadPendingFails, RemovePending
  <2>2. /\ handle' = handle
        /\ crossed' = crossed \/ crossed' = crossed \ {Daemon}
    BY <1>2 DEF BeginPass, ReadPendingFails, RemovePending, temps
  <2> QED
    BY <1>0, <1>1, <2>1, <2>2, LeaveKept DEF records, TypeOK
<1>3. CASE ApplyFails
  <2>1. /\ Leave(Daemon, "list") /\ crossed' = crossed \ {Daemon}
        /\ handle' = [handle EXCEPT ![Daemon] = "none"]
    BY <1>3 DEF ApplyFails, WriteFails
  <2>2. /\ \A t \in Scanners \ {Daemon} : handle'[t] = handle[t]
        /\ handle' \in [Scanners -> Handles]
    BY <1>0, <2>1 DEF TypeOK, Handles
  <2> QED
    BY <1>0, <1>1, <2>1, <2>2, LeaveKept DEF records
<1>4. CASE ReadPending
  <2> DEFINE new == [job[Daemon] EXCEPT !.pc = "open", !.write = "apply", !.lines = pending]
  <2>1. new \in Jobs /\ new.pc = "open" /\ new.write = "apply"
    BY <1>0, <1>4 DEF ReadPending, TypeOK, Jobs, Stages, Writes
  <2>2. job' = [job EXCEPT ![Daemon] = new] /\ handle' = handle /\ crossed' = crossed
    BY <1>4 DEF ReadPending, temps
  <2> HIDE DEF new
  <2> QED
    BY <1>0, <1>1, <2>1, <2>2, OnKept DEF records, TypeOK
<1>5. CASE \E s \in Commands : BeginCommand(s)
  <2>1. PICK s \in Commands : BeginCommand(s)
    BY <1>5
  <2>2. s \in Scanners /\ \E to \in {"list", "all"} : Leave(s, to)
    BY <2>1 DEF BeginCommand, Scanners
  <2>3. handle' = handle /\ crossed' = crossed
    BY <2>1 DEF BeginCommand, temps
  <2> QED
    BY <1>0, <1>1, <2>2, <2>3, LeaveKept DEF records, TypeOK
<1> QED
  BY <1>2, <1>3, <1>4, <1>5 DEF Begins

LEMMA BeginStep ==
    ASSUME IInv, Begins
    PROVE  IInv'
<1>0. TypeOK
  BY DEF IInv
<1>1. PICK s \in Scanners :
         /\ Rests(s) /\ UNCHANGED <<phone, entries, tmp, records>>
         /\ crossed' = crossed \/ crossed' = crossed \ {s}
         /\ handle' \in [Scanners -> Handles]
         /\ \A t \in Scanners \ {s} : handle'[t] = handle[t]
  BY BeginFrame
<1>2. CrossInv'
  BY <1>1, QuietCross
<1>3. job' \in [Scanners -> Jobs] /\ \A t \in Scanners : JobInv(t)'
  BY <1>1, OthersKept DEF Rests
<1>4. changes' \in 0 .. MaxChanges /\ failures' \in 0 .. MaxFailures
  BY <1>0, FailsType DEF Begins, BeginPass, ReadPending, ReadPendingFails, ApplyFails,
                         WriteFails, RemovePending, BeginCommand, bounds
<1>5. /\ pending' = None \/ pending' \in Lists
      /\ put' = None \/ put' \in Lists
      /\ unread' \in BOOLEAN
  BY <1>0 DEF TypeOK, inbox, Begins, BeginPass, ReadPending, ReadPendingFails, ApplyFails,
              RemovePending, BeginCommand
<1>6. crossed' \subseteq Scanners
  BY <1>0, <1>1 DEF TypeOK
<1>7. TypeOK'
  BY <1>0, <1>1, <1>3, <1>4, <1>5, <1>6 DEF TypeOK, phone, entries, records
<1> QED
  BY <1>1, <1>2, <1>3, <1>7 DEF IInv, Rests, Kept

\* The user's list in place of target.txt, or what another scanner has written.
LEMMA ApplyStep ==
    ASSUME IInv, ApplyPending
    PROVE  IInv' /\ Rests(Daemon)
<1>0. TypeOK /\ Daemon \in Scanners
  BY DEF IInv, Scanners
<1>1. Rename(Daemon, "applied") /\ crossed' = crossed
  BY DEF ApplyPending
<1>2. Rests(Daemon) /\ target' \in Lists /\ lost' \subseteq Apps /\ tmp' = None
  BY <1>0, <1>1, RenameKept
<1>3. CrossInv'
  BY <1>0, <1>1, <1>2, RenameCross
<1>4. job' \in [Scanners -> Jobs] /\ \A t \in Scanners : JobInv(t)'
  BY <1>0, <1>2, OthersKept DEF Rests
<1>5. handle' \in [Scanners -> Handles]
  BY <1>0, <1>1 DEF Rename, Moved, TypeOK, Handles
<1>6. put' \in Lists /\ UNCHANGED <<pending, unread, phone, records, bounds>>
  BY <1>0 DEF ApplyPending, Rename, TypeOK
<1>7. TypeOK'
  BY <1>0, <1>1, <1>2, <1>4, <1>5, <1>6 DEF TypeOK, phone, records, bounds
<1> QED
  BY <1>2, <1>3, <1>4, <1>7 DEF IInv, Rests, Kept

\* The package manager and the user change no local variable; the user's own
\* save of target.txt may take the file from under a scanner's hand.
LEMMA OutsideStep ==
    ASSUME IInv, PackageManager \/ User
    PROVE  IInv'
<1>0. TypeOK /\ known \cap Eligible \subseteq Had
  BY DEF IInv
<1>1. UNCHANGED <<job, records, tmp, crossed, put>>
  BY DEF PackageManager, User, Install, Uninstall, SaveList, WriteList, temps, inbox
<1>2. target' \in Lists /\ lost' \subseteq Apps /\ Had \subseteq Had'
  <2>1. CASE \E new \in UserLists : WriteList(new)
    BY <1>0, <2>1, RetargetType, AutomationAssumption DEF WriteList
  <2>2. CASE UNCHANGED entries
    BY <1>0, <2>2 DEF TypeOK, Had, entries, Listed
  <2> QED
    BY <2>1, <2>2 DEF PackageManager, User, Install, Uninstall, SaveList
<1>3. installed' \subseteq Apps /\ data' \subseteq Apps /\ gone' \subseteq Apps
  <2>1. CASE PackageManager
    BY <1>0, <2>1 DEF PackageManager, Install, Uninstall, TypeOK
  <2>2. CASE User
    BY <1>0, <2>2 DEF User, SaveList, WriteList, phone, TypeOK
  <2> QED
    BY <2>1, <2>2
<1>4. (pending' = None \/ pending' \in Lists) /\ unread' \in BOOLEAN
  BY <1>0, AutomationAssumption
     DEF TypeOK, inbox, PackageManager, User, Install, Uninstall, SaveList, WriteList
<1>5. changes' \in 0 .. MaxChanges /\ failures' \in 0 .. MaxFailures
  BY <1>0, FailsType DEF PackageManager, User, Install, Uninstall, SaveList, WriteList
<1>6. /\ handle' \in [Scanners -> Handles]
      /\ \A s \in Scanners : handle[s] = "tmp" => handle'[s] = "tmp"
  BY <1>0 DEF TypeOK, Handles, temps, PackageManager, User, Install, Uninstall, SaveList,
              WriteList
<1>7. TypeOK'
  BY <1>0, <1>1, <1>2, <1>3, <1>4, <1>5, <1>6 DEF TypeOK, records
<1>8. ASSUME NEW s \in Scanners PROVE JobInv(s)'
  BY <1>1, <1>2 DEF IInv, JobInv, Checking
<1>9. CrossInv'
  <2>1. ASSUME NEW s \in Scanners PROVE Own(s)'
    BY <1>1, <1>6 DEF IInv, CrossInv, Own, NewList
  <2> QED
    BY <1>1, <2>1 DEF IInv, CrossInv, Writing
<1> QED
  BY <1>0, <1>1, <1>2, <1>7, <1>8, <1>9 DEF IInv, records

LEMMA IInvStep == IInv /\ [Next]_vars => IInv'
<1> SUFFICES ASSUME IInv, [Next]_vars PROVE IInv'
  OBVIOUS
<1>1. CASE Pass
  BY <1>1, BeginStep, ApplyStep, ScannerStep DEF Pass, Begins, Scanners
<1>2. CASE \E s \in Commands : Command(s)
  BY <1>2, BeginStep, ScannerStep DEF Command, Begins, Scanners
<1>3. CASE PackageManager \/ User
  BY <1>3, OutsideStep
<1>4. CASE UNCHANGED vars
  <2>1. UNCHANGED <<installed, data, gone, target, lost, tmp, handle, crossed, pending, unread,
                    put, known, auto_added, job, changes, failures>>
    BY <1>4 DEF vars, phone, entries, temps, inbox, records, bounds
  <2>2. TypeOK' /\ Had' = Had /\ known' = known
    BY <2>1 DEF IInv, TypeOK, Had, Listed
  <2>3. \A s \in Scanners : JobInv(s)'
    BY <2>1, <2>2 DEF IInv, JobInv, Checking
  <2>4. CrossInv'
    BY <2>1 DEF IInv, CrossInv, Own, NewList, Writing
  <2> QED
    BY <2>2, <2>3, <2>4 DEF IInv
<1> QED
  BY <1>1, <1>2, <1>3, <1>4 DEF Next

LEMMA Invariant == Spec => []IInv
BY IInvInit, IInvStep, PTL DEF Spec

\* The files and every scanner's local variables keep their types: the app a
\* scanner writes a line for is always an app.
THEOREM TypeCorrect == Spec => []TypeOK
<1>1. IInv => TypeOK
  BY DEF IInv
<1> QED
  BY <1>1, Invariant, PTL

\* However many scanners run beside each other, whatever fails and whatever the
\* user writes, no app is taken for known that never had its line, unless it
\* missed it in a write of target.tmp that another scanner crossed.
THEOREM KnownHadLines == Spec => []KnownWereTargeted
<1>1. IInv => KnownWereTargeted
  BY DEF IInv, KnownWereTargeted, Had
<1> QED
  BY <1>1, Invariant, PTL

-----------------------------------------------------------------------------
(***************************************************************************)
(* What a write does to the lines of others, and when a pending list is    *)
(* removed: both follow from what a scanner has read before.               *)
(***************************************************************************)

\* The line to add was not in the list read; an app that is not in the list a
\* cleanup goes by has been missing, and so has the one it removes.
LineInv(s) ==
    /\ job[s].write = "add" => job[s].lines[job[s].pkg] = "none"
    /\ job[s].pc \in {"targets", "cleanup", "forget"} \/ job[s].write = "remove" =>
          Apps \ job[s].current \subseteq gone
    /\ job[s].write = "remove" => job[s].pkg \in gone

\* The list the daemon has at hand is the pending one, or an older one, and an
\* uncrossed write has put it in place.
PendingInv ==
    /\ job[Daemon].write = "apply" => unread \/ job[Daemon].lines = pending
    /\ job[Daemon].pc = "applied" => unread \/ Daemon \in crossed \/ put = pending

ReadInv ==
    /\ Apps \ installed \subseteq gone
    /\ \A s \in Scanners : LineInv(s)
    /\ PendingInv

LEMMA ReadInit == Init => ReadInv
<1> SUFFICES ASSUME Init PROVE ReadInv
  OBVIOUS
<1>1. \A s \in Scanners : job[s].pc = "idle" /\ job[s].write = "none"
  BY DEF Init, At
<1>2. Daemon \in Scanners
  BY DEF Scanners
<1> QED
  BY <1>1, <1>2 DEF Init, ReadInv, LineInv, PendingInv

\* A scanner's step keeps what is known of its own list.
LEMMA OwnLines ==
    ASSUME IInv, ReadInv, NEW s \in Scanners, Check(s) \/ Cleanup(s)
    PROVE  LineInv(s)' /\ job'[s].write # "apply" /\ job'[s].pc # "applied"
<1>0. /\ job[s] \in Jobs /\ JobInv(s) /\ LineInv(s)
      /\ job \in [Scanners -> Jobs] /\ target \in Lists
      /\ UNCHANGED <<installed, gone>>
  BY ScannerType DEF IInv, TypeOK, ReadInv, phone
<1>1. CASE ListThirdParty(s) \/ LoadKnown(s) \/ PassOver(s) \/ Record(s) \/ Bootstrap(s)
  <2>1. job'[s].pc \in {"load", "add", "save"} /\ job'[s].write = "none"
    <3>1. CASE ListThirdParty(s)
      BY <1>0, <3>1 DEF ListThirdParty, Jobs, JobInv
    <3>2. CASE LoadKnown(s)
      <4>1. PICK loaded \in {known, {}} :
              job' = [job EXCEPT ![s].pc = "add", ![s].legacy = loaded,
                                 ![s].todo = job[s].current \ loaded]
        BY <3>2 DEF LoadKnown
      <4> QED
        BY <1>0, <3>2, <4>1 DEF LoadKnown, Jobs, JobInv
    <3>3. CASE PassOver(s)
      BY <1>0, <3>3 DEF PassOver, Jobs, JobInv
    <3>4. CASE Record(s)
      BY <1>0, <3>4 DEF Record, Jobs, JobInv
    <3>5. CASE Bootstrap(s)
      BY <1>0, <3>5 DEF Bootstrap, Jobs, JobInv
    <3> QED
      BY <1>1, <3>1, <3>2, <3>3, <3>4, <3>5
  <2> QED
    BY <2>1 DEF LineInv
<1>2. CASE WriteAdded(s)
  <2>1. job'[s].pc = "record" /\ job'[s].write = "none"
    BY <1>0, <1>2 DEF WriteAdded, Rename, Jobs
  <2> QED
    BY <2>1 DEF LineInv
<1>3. CASE ReadToAdd(s)
  <2>1. PICK a \in job[s].todo \ (Unwanted \cup Listed(target)) :
          job' = [job EXCEPT ![s].pc = "open", ![s].write = "add", ![s].pkg = a,
                             ![s].lines = target]
    BY <1>3 DEF ReadToAdd
  <2>2. a \in Apps /\ target[a] = "none"
    BY <1>0, <2>1 DEF Listed, Jobs
  <2>3. /\ job'[s].pc = "open" /\ job'[s].write = "add" /\ job'[s].pkg = a
        /\ job'[s].lines = target
    BY <1>0, <2>1 DEF Jobs
  <2> QED
    BY <2>2, <2>3 DEF LineInv
<1>4. CASE Leave(s, "idle") \/ Leave(s, "all")
  <2>1. job'[s].pc \in {"idle", "all"} /\ job'[s].write = "none"
    BY <1>0, <1>4 DEF Leave, At
  <2> QED
    BY <2>1 DEF LineInv
<1>5. CASE ListAll(s)
  <2>1. /\ job'[s].pc = "targets" /\ job'[s].write = "none"
        /\ job'[s].current = installed
    BY <1>0, <1>5 DEF ListAll, Jobs, JobInv
  <2> QED
    BY <1>0, <2>1 DEF LineInv, ReadInv
<1>6. CASE ReadTargets(s) \/ Keep(s) \/ Forget(s) \/ WriteRemoved(s)
  <2>1. /\ job'[s].pc \in {"cleanup", "forget"} /\ job'[s].write = "none"
        /\ job'[s].current = job[s].current
        /\ job[s].pc \in {"targets", "cleanup", "forget"} \/ job[s].write = "remove"
    <3>1. CASE ReadTargets(s)
      BY <1>0, <3>1 DEF ReadTargets, Jobs, JobInv
    <3>2. CASE Keep(s)
      <4>1. PICK a \in job[s].todo : job' = [job EXCEPT ![s].todo = @ \ {a}]
        BY <3>2 DEF Keep
      <4> QED
        BY <1>0, <3>2, <4>1 DEF Keep, Jobs, JobInv
    <3>3. CASE Forget(s)
      BY <1>0, <3>3 DEF Forget, Jobs, JobInv
    <3>4. CASE WriteRemoved(s)
      BY <1>0, <3>4 DEF WriteRemoved, Rename, Jobs
    <3> QED
      BY <1>6, <3>1, <3>2, <3>3, <3>4
  <2> QED
    BY <1>0, <2>1 DEF LineInv
<1>7. CASE ReadToRemove(s)
  <2>1. PICK a \in job[s].todo \cap Listed(target) :
          /\ ~LooksAlive(s, a)
          /\ job' = [job EXCEPT ![s].pc = "open", ![s].write = "remove", ![s].pkg = a,
                                ![s].lines = target]
    BY <1>7 DEF ReadToRemove
  <2>2. a \in gone /\ Apps \ job[s].current \subseteq gone
    BY <1>0, <1>7, <2>1 DEF ReadToRemove, LooksAlive, LineInv, Jobs
  <2>3. /\ job'[s].pc = "open" /\ job'[s].write = "remove" /\ job'[s].pkg = a
        /\ job'[s].current = job[s].current
    BY <1>0, <2>1 DEF Jobs
  <2> QED
    BY <1>0, <2>2, <2>3 DEF LineInv
<1> QED
  BY <1>1, <1>2, <1>3, <1>4, <1>5, <1>6, <1>7
     DEF Check, Cleanup, SaveKnown, CheckFails, AddFails, RemoveFails, Checked, EndCleanup,
         CleanupFails

\* One scanner's step is nobody else's.
LEMMA OneScanner ==
    ASSUME IInv, ReadInv, NEW s \in Scanners, Kept(s), gone' = gone, LineInv(s)'
    PROVE  /\ \A t \in Scanners : LineInv(t)'
           /\ \A t \in Scanners \ {s} : job'[t] = job[t]
<1>1. \A t \in Scanners \ {s} : job'[t] = job[t]
  BY OthersKept
<1>2. ASSUME NEW t \in Scanners, t # s PROVE LineInv(t)'
  <2>1. LineInv(t) /\ job'[t] = job[t] /\ gone' = gone
    BY <1>1, <1>2 DEF ReadInv
  <2> QED
    BY <2>1, Zenon DEF LineInv
<1> QED
  BY <1>1, <1>2

LEMMA ReadScanner ==
    ASSUME IInv, ReadInv, NEW s \in Scanners, Check(s) \/ Cleanup(s)
    PROVE  ReadInv'
<1>1. LineInv(s)' /\ job'[s].write # "apply" /\ job'[s].pc # "applied"
  BY OwnLines
<1>2. UNCHANGED <<installed, gone, pending, unread, put>>
  BY ScannerType DEF phone, inbox
<1>3. Kept(s) /\ crossed \ {s} \subseteq crossed'
  BY CheckKept, CleanupKept, ScannerTemps DEF Rests
<1>4. /\ \A t \in Scanners : LineInv(t)'
      /\ \A t \in Scanners \ {s} : job'[t] = job[t]
  BY <1>1, <1>2, <1>3, OneScanner
<1>5. PendingInv'
  <2>1. CASE s = Daemon
    BY <1>1, <2>1 DEF PendingInv
  <2>2. CASE s # Daemon
    <3>1. job'[Daemon] = job[Daemon] /\ (Daemon \in crossed => Daemon \in crossed')
      BY <1>3, <1>4, <2>2 DEF Scanners
    <3> QED
      BY <1>2, <3>1 DEF PendingInv, ReadInv
  <2> QED
    BY <2>1, <2>2
<1> QED
  BY <1>2, <1>4, <1>5 DEF ReadInv

\* Writing to target.tmp changes nothing of what was read.
LEMMA ReadWrite ==
    ASSUME IInv, ReadInv, NEW s \in Scanners, OpenTmp(s) \/ FillTmp(s)
    PROVE  ReadInv'
<1>0. job[s] \in Jobs /\ JobInv(s) /\ LineInv(s) /\ job \in [Scanners -> Jobs]
  BY DEF IInv, TypeOK, ReadInv
<1>1. /\ job'[s].pc \in {"fill", "rename"} /\ job[s].pc \in {"open", "fill"}
      /\ job'[s].write = job[s].write
      /\ job'[s].pkg = job[s].pkg /\ job'[s].lines = job[s].lines
      /\ job'[s].current = job[s].current
  BY <1>0 DEF OpenTmp, FillTmp, Jobs
<1>2. UNCHANGED <<installed, gone, pending, unread, put>>
  BY DEF OpenTmp, FillTmp, phone, inbox
<1>3. crossed \ {s} \subseteq crossed'
  BY DEF OpenTmp, FillTmp
<1>4. LineInv(s)'
  BY <1>0, <1>1, <1>2 DEF LineInv
<1>5. /\ \A t \in Scanners : LineInv(t)'
      /\ \A t \in Scanners \ {s} : job'[t] = job[t]
  BY <1>2, <1>4, OpenFillKept, OneScanner
<1>6. PendingInv'
  <2>1. CASE s = Daemon
    BY <1>1, <1>2, <2>1 DEF PendingInv, ReadInv
  <2>2. CASE s # Daemon
    <3>1. job'[Daemon] = job[Daemon] /\ (Daemon \in crossed => Daemon \in crossed')
      BY <1>3, <1>5, <2>2 DEF Scanners
    <3> QED
      BY <1>2, <3>1 DEF PendingInv, ReadInv
  <2> QED
    BY <2>1, <2>2
<1> QED
  BY <1>2, <1>5, <1>6 DEF ReadInv

\* A pass or a command begins, with or without a pending list.
LEMMA ReadBegin ==
    ASSUME IInv, ReadInv, Begins \/ ApplyPending
    PROVE  ReadInv'
<1>0. Daemon \in Scanners /\ job \in [Scanners -> Jobs] /\ Daemon \notin Commands
  BY AutomationAssumption DEF IInv, TypeOK, Scanners
<1>1. UNCHANGED <<installed, gone>>
  BY DEF Begins, BeginPass, ReadPending, ReadPendingFails, ApplyPending, Rename, ApplyFails,
         WriteFails, RemovePending, BeginCommand, phone
<1>2. CASE BeginPass \/ ReadPendingFails \/ ApplyFails \/ RemovePending
  <2>1. job' = [job EXCEPT ![Daemon] = At("list")]
    BY <1>2 DEF BeginPass, ReadPendingFails, ApplyFails, RemovePending, Leave
  <2>2. job'[Daemon].pc = "list" /\ job'[Daemon].write = "none"
    BY <1>0, <2>1 DEF At
  <2>3. LineInv(Daemon)' /\ PendingInv'
    BY <2>2 DEF LineInv, PendingInv
  <2>4. ASSUME NEW t \in Scanners, t # Daemon PROVE LineInv(t)'
    <3>1. LineInv(t) /\ job'[t] = job[t] /\ gone' = gone
      BY <1>0, <1>1, <2>1, <2>4 DEF ReadInv
    <3> QED
      BY <3>1, Zenon DEF LineInv
  <2> QED
    BY <1>1, <2>3, <2>4 DEF ReadInv
<1>3. CASE ReadPending
  <2> DEFINE new == [job[Daemon] EXCEPT !.pc = "open", !.write = "apply", !.lines = pending]
  <2>1. job' = [job EXCEPT ![Daemon] = new] /\ pending' = pending
    BY <1>3 DEF ReadPending
  <2>2. job'[Daemon].pc = "open" /\ job'[Daemon].write = "apply" /\ job'[Daemon].lines = pending
    BY <1>0, <2>1 DEF Jobs
  <2> HIDE DEF new
  <2>3. LineInv(Daemon)' /\ PendingInv'
    BY <2>1, <2>2 DEF LineInv, PendingInv
  <2>4. ASSUME NEW t \in Scanners, t # Daemon PROVE LineInv(t)'
    <3>1. LineInv(t) /\ job'[t] = job[t] /\ gone' = gone
      BY <1>0, <1>1, <2>1, <2>4 DEF ReadInv
    <3> QED
      BY <3>1, Zenon DEF LineInv
  <2> QED
    BY <1>1, <2>3, <2>4 DEF ReadInv
<1>4. CASE ApplyPending
  <2>1. Kept(Daemon)
    BY <1>4, ApplyStep DEF Rests
  <2>2. /\ job[Daemon].write = "apply" /\ job[Daemon].pc = "rename"
        /\ job'[Daemon].pc = "applied" /\ job'[Daemon].write = "none"
    BY <1>0, <1>4 DEF ApplyPending, Rename, Jobs
  <2>3. put' = tmp /\ UNCHANGED <<crossed, pending, unread>>
    BY <1>4 DEF ApplyPending
  <2>4. LineInv(Daemon)'
    BY <2>2 DEF LineInv
  <2>5. PendingInv'
    <3>1. unread \/ job[Daemon].lines = pending
      BY <2>2 DEF ReadInv, PendingInv
    <3>2. Daemon \in crossed \/ tmp = job[Daemon].lines
      BY <1>0, <2>2 DEF IInv, CrossInv, Own, NewList
    <3> QED
      BY <2>2, <2>3, <3>1, <3>2 DEF PendingInv
  <2> QED
    BY <1>0, <1>1, <2>1, <2>4, <2>5, OneScanner DEF ReadInv
<1>5. CASE \E s \in Commands : BeginCommand(s)
  <2>1. PICK s \in Commands, to \in {"list", "all"} :
          /\ job' = [job EXCEPT ![s] = At(to)]
          /\ UNCHANGED <<pending, unread, put, crossed>>
    BY <1>5 DEF BeginCommand, Leave, inbox, temps
  <2>2. s \in Scanners /\ s # Daemon
    BY <1>0 DEF Scanners
  <2>3. LineInv(s)'
    BY <1>0, <2>1, <2>2 DEF At, LineInv
  <2>4. ASSUME NEW t \in Scanners, t # s PROVE LineInv(t)'
    <3>1. LineInv(t) /\ job'[t] = job[t] /\ gone' = gone
      BY <1>0, <1>1, <2>1, <2>4 DEF ReadInv
    <3> QED
      BY <3>1, Zenon DEF LineInv
  <2>5. job'[Daemon] = job[Daemon]
    BY <1>0, <2>1, <2>2
  <2> QED
    BY <1>1, <2>1, <2>3, <2>4, <2>5 DEF ReadInv, PendingInv
<1> QED
  BY <1>2, <1>3, <1>4, <1>5 DEF Begins

LEMMA ReadStep == IInv /\ ReadInv /\ [Next]_vars => ReadInv'
<1> SUFFICES ASSUME IInv, ReadInv, [Next]_vars PROVE ReadInv'
  OBVIOUS
<1>1. CASE Pass
  BY <1>1, ReadBegin, ReadScanner, ReadWrite DEF Pass, Begins, Scan, Scanners
<1>2. CASE \E s \in Commands : Command(s)
  BY <1>2, ReadBegin, ReadScanner, ReadWrite DEF Command, Begins, Scan, Scanners
<1>3. CASE PackageManager \/ User
  <2>1. /\ job' = job /\ gone \subseteq gone' /\ Apps \ installed' \subseteq gone'
        /\ crossed' = crossed /\ put' = put
        /\ unread' \/ UNCHANGED <<pending, unread>>
    BY <1>3 DEF PackageManager, User, Install, Uninstall, SaveList, WriteList, phone, inbox,
                temps, ReadInv
  <2>2. ASSUME NEW s \in Scanners PROVE LineInv(s)'
    BY <2>1 DEF ReadInv, LineInv
  <2>3. PendingInv'
    <3>1. CASE unread'
      BY <3>1 DEF PendingInv
    <3>2. CASE UNCHANGED <<pending, unread>>
      BY <2>1, <3>2 DEF ReadInv, PendingInv
    <3> QED
      BY <2>1, <3>1, <3>2
  <2> QED
    BY <2>1, <2>2, <2>3 DEF ReadInv
<1>4. CASE UNCHANGED vars
  BY <1>4 DEF vars, phone, inbox, temps, ReadInv, LineInv, PendingInv
<1> QED
  BY <1>1, <1>2, <1>3, <1>4 DEF Next

LEMMA ReadInvariant == Spec => [](IInv /\ ReadInv)
BY IInvInit, IInvStep, ReadInit, ReadStep, PTL DEF Spec

\* What a scanner's own write does to one line: until the rename nothing, since
\* the file it fills is target.tmp, and what it renames is the list it read with
\* one line changed.
LEMMA WriteKeeps ==
    ASSUME IInv, ReadInv, NEW s \in Scanners \ crossed,
           FillTmp(s) \/ WriteAdded(s) \/ WriteRemoved(s),
           NEW a \in Listed(target) \ gone
    PROVE  target'[a] = target[a] \/ job[s].lines[a] # target[a]
<1>0. /\ a \in Apps /\ target[a] # "none"
      /\ job[s] \in Jobs /\ job[s].lines \in Lists /\ LineInv(s) /\ Own(s)
  BY DEF IInv, TypeOK, CrossInv, Jobs, ReadInv, Listed
<1>1. CASE FillTmp(s)
  <2>1. handle[s] = "tmp"
    BY <1>0, <1>1 DEF FillTmp, Own
  <2> QED
    BY <1>1, <2>1 DEF FillTmp, entries
<1>2. CASE WriteAdded(s) \/ WriteRemoved(s)
  <2>1. target' = NewList(s) /\ job[s].write \in {"add", "remove"}
    BY <1>0, <1>2 DEF WriteAdded, WriteRemoved, Rename, Retarget, Own
  <2>2. CASE a # job[s].pkg
    BY <1>0, <2>1, <2>2 DEF NewList, Lists
  <2>3. CASE a = job[s].pkg
    BY <1>0, <2>1, <2>3 DEF LineInv
  <2> QED
    BY <2>2, <2>3
<1> QED
  BY <1>1, <1>2

\* A scanner that writes target.tmp by itself takes away or changes no line of
\* an app that has always been there, unless somebody else has written the list
\* since it was read.
THEOREM OthersKeepTheirLines == Spec => OthersLinesAreKept
<1>1. IInv /\ ReadInv =>
        [\A s \in Scanners \ crossed : FillTmp(s) \/ WriteAdded(s) \/ WriteRemoved(s) =>
           \A a \in Listed(target) \ gone :
              target'[a] = target[a] \/ job[s].lines[a] # target[a]]_vars
  BY WriteKeeps
<1> QED
  BY <1>1, ReadInvariant, PTL DEF OthersLinesAreKept

\* A pending list is removed only once what it holds has been put in place of
\* target.txt, but when the user saved another one between the daemon's read and
\* its removal, or another scanner's write crossed the daemon's.
THEOREM PendingWasApplied == Spec => PendingIsApplied
<1>1. ASSUME IInv, ReadInv, [Next]_vars, pending # None, pending' = None
      PROVE  unread \/ Daemon \in crossed \/ put = pending
  <2>1. CASE RemovePending
    <3>1. job[Daemon].pc = "applied" /\ PendingInv
      BY <1>1, <2>1 DEF RemovePending, ReadInv
    <3> QED
      BY <3>1, Zenon DEF PendingInv
  <2>2. CASE UNCHANGED pending
    BY <1>1, <2>2
  <2>3. CASE \E new \in UserLists : SaveList(new)
    BY <1>1, <2>3, AutomationAssumption DEF SaveList
  <2>4. ASSUME NEW s \in Scanners, Scan(s) PROVE UNCHANGED pending
    <3>1. CASE Check(s) \/ Cleanup(s)
      BY <1>1, <2>4, <3>1, ScannerType DEF inbox
    <3> QED
      BY <2>4, <3>1 DEF Scan, OpenTmp, FillTmp, inbox
  <2> QED
    BY <1>1, <2>1, <2>2, <2>3, <2>4
       DEF Next, Pass, Command, PackageManager, User, Scanners, BeginPass, ReadPending,
           ReadPendingFails, ApplyPending, ApplyFails, BeginCommand, Install, Uninstall,
           WriteList, vars, inbox
<1>2. IInv /\ ReadInv /\ [Next]_vars =>
        [pending # None /\ pending' = None
           => unread \/ Daemon \in crossed \/ put = pending]_vars
  BY <1>1
<1> QED
  BY <1>2, ReadInvariant, PTL DEF Spec, PendingIsApplied
=============================================================================
