---------------------------- MODULE KeyboxProofs ----------------------------
(* The installed keybox is whole and the one it replaces is kept, for any    *)
(* number of processes, keyboxes, sources and faults; and what the           *)
(* validation takes has a key to trust, for any files and certificates.      *)
EXTENDS Keybox, KeyboxValidation, WellFoundedInduction, TLAPS

(* What the proofs need of the types: the variables are functions and the    *)
(* jobs records.  What a source list may hold is of no concern here.         *)
Shaped(job) ==
    job = [at |-> job.at, task |-> job.task, left |-> job.left, seen |-> job.seen,
           data |-> job.data, tries |-> job.tries]

Shapes ==
    /\ files = [n \in Names |-> files[n]]
    /\ handle = [p \in Users |-> handle[p]]
    /\ fetcher = [p \in Users |-> fetcher[p]]
    /\ \A p \in Users : Shaped(fetcher[p])

\* Process p has taken a step, to a job of the right shape.
ActsAs(p, job) ==
    /\ fetcher' = [q \in Users |-> IF q = p THEN job ELSE fetcher[q]]
    /\ Shaped(job)

LEMMA IdleShaped == Shaped(Idle) /\ Idle.at = "idle"
BY DEF Shaped, Idle

LEMMA ThreeFields ==
    ASSUME NEW job, Shaped(job), NEW step, NEW task, NEW tries
    PROVE  LET next == [job EXCEPT !.at = step, !.task = task, !.tries = tries]
           IN  Shaped(next) /\ next.at = step
<1> DEFINE first == [job EXCEPT !.at = step]
           second == [first EXCEPT !.task = task]
           third == [second EXCEPT !.tries = tries]
<1>1. [job EXCEPT !.at = step, !.task = task, !.tries = tries] = third
  BY DEF Shaped
<1>2. Shaped(first) /\ first.at = step
  BY DEF Shaped
<1> HIDE DEF first
<1>3. Shaped(second) /\ second.at = step
  BY <1>2 DEF Shaped
<1> HIDE DEF second
<1>4. Shaped(third) /\ third.at = step
  BY <1>3 DEF Shaped
<1> HIDE DEF third
<1> QED
  BY <1>1, <1>4

LEMMA StartShaped ==
    ASSUME NEW left
    PROVE  LET again == [Idle EXCEPT !.at = "start", !.task = "fetch", !.tries = left]
           IN  Shaped(again) /\ again.at = "start"
BY IdleShaped, ThreeFields

\* The jobs that the commands begin with.
Plain(step, task) == [Idle EXCEPT !.at = step, !.task = task]
Given(step, task, data) == [Idle EXCEPT !.at = step, !.task = task, !.data = data]

LEMMA PlainShaped ==
    ASSUME NEW step, NEW task
    PROVE  /\ Shaped(Plain(step, task))
           /\ Plain(step, task).at = step /\ Plain(step, task).task = task
<1> DEFINE first == [Idle EXCEPT !.at = step]
           second == [first EXCEPT !.task = task]
<1>1. Plain(step, task) = second
  BY IdleShaped DEF Shaped, Plain
<1>2. Shaped(first) /\ first.at = step
  BY IdleShaped DEF Shaped
<1> HIDE DEF first
<1>3. Shaped(second) /\ second.at = step /\ second.task = task
  BY <1>2 DEF Shaped
<1> HIDE DEF second
<1> QED
  BY <1>1, <1>3

LEMMA GivenShaped ==
    ASSUME NEW step, NEW task, NEW data
    PROVE  /\ Shaped(Given(step, task, data))
           /\ Given(step, task, data).at = step /\ Given(step, task, data).data = data
<1> DEFINE first == [Idle EXCEPT !.at = step]
           second == [first EXCEPT !.task = task]
           third == [second EXCEPT !.data = data]
<1>1. Given(step, task, data) = third
  BY IdleShaped DEF Shaped, Given
<1>2. Shaped(first) /\ first.at = step
  BY IdleShaped DEF Shaped
<1> HIDE DEF first
<1>3. Shaped(second) /\ second.at = step
  BY <1>2 DEF Shaped
<1> HIDE DEF second
<1>4. Shaped(third) /\ third.at = step /\ third.data = data
  BY <1>3 DEF Shaped
<1> HIDE DEF third
<1> QED
  BY <1>1, <1>4

\* The jobs of fetch.
Looking(job, order, seen) == [job EXCEPT !.at = "source", !.left = order, !.seen = seen]
Taking(job, k) == [job EXCEPT !.at = "check", !.left = <<>>, !.seen = Nil, !.data = k]

LEMMA LookingShaped ==
    ASSUME NEW job, Shaped(job), NEW order, NEW seen
    PROVE  Shaped(Looking(job, order, seen)) /\ Looking(job, order, seen).at = "source"
<1> DEFINE first == [job EXCEPT !.at = "source"]
           second == [first EXCEPT !.left = order]
           third == [second EXCEPT !.seen = seen]
<1>1. Looking(job, order, seen) = third
  BY DEF Shaped, Looking
<1>2. Shaped(first) /\ first.at = "source"
  BY DEF Shaped
<1> HIDE DEF first
<1>3. Shaped(second) /\ second.at = "source"
  BY <1>2 DEF Shaped
<1> HIDE DEF second
<1>4. Shaped(third) /\ third.at = "source"
  BY <1>3 DEF Shaped
<1> HIDE DEF third
<1> QED
  BY <1>1, <1>4

LEMMA TakingShaped ==
    ASSUME NEW job, Shaped(job), NEW k
    PROVE  Shaped(Taking(job, k)) /\ Taking(job, k).at = "check" /\ Taking(job, k).data = k
<1> DEFINE none == <<>>
           first == [job EXCEPT !.at = "check"]
           second == [first EXCEPT !.left = none]
           third == [second EXCEPT !.seen = Nil]
           fourth == [third EXCEPT !.data = k]
<1>1. Taking(job, k) = fourth
  BY DEF Shaped, Taking
<1> HIDE DEF none
<1>2. Shaped(first) /\ first.at = "check"
  BY DEF Shaped
<1> HIDE DEF first
<1>3. Shaped(second) /\ second.at = "check"
  BY <1>2 DEF Shaped
<1> HIDE DEF second
<1>4. Shaped(third) /\ third.at = "check"
  BY <1>3 DEF Shaped
<1> HIDE DEF third
<1>5. Shaped(fourth) /\ fourth.at = "check" /\ fourth.data = k
  BY <1>4 DEF Shaped
<1> HIDE DEF fourth
<1> QED
  BY <1>1, <1>5

\* The job of a copy.
Copying(job, seen) == [job EXCEPT !.at = "fill", !.seen = seen]
Copied(job) == [job EXCEPT !.at = "open", !.seen = Nil]

LEMMA CopyShaped ==
    ASSUME NEW job, Shaped(job), NEW seen
    PROVE  /\ Shaped(Copying(job, seen))
           /\ Copying(job, seen).at = "fill" /\ Copying(job, seen).seen = seen
           /\ Copying(job, seen).task = job.task /\ Copying(job, seen).data = job.data
           /\ Shaped(Copied(job)) /\ Copied(job).at = "open"
           /\ Copied(job).task = job.task /\ Copied(job).data = job.data
<1>1. ASSUME NEW step, NEW text PROVE Shaped([job EXCEPT !.at = step, !.seen = text])
  <2> DEFINE first == [job EXCEPT !.at = step]
             second == [first EXCEPT !.seen = text]
  <2>1. [job EXCEPT !.at = step, !.seen = text] = second
    BY DEF Shaped
  <2>2. Shaped(first)
    BY DEF Shaped
  <2> HIDE DEF first
  <2>3. Shaped(second)
    BY <2>2 DEF Shaped
  <2> HIDE DEF second
  <2> QED
    BY <2>1, <2>3
<1>2. /\ Copying(job, seen).at = "fill" /\ Copying(job, seen).seen = seen
      /\ Copying(job, seen).task = job.task /\ Copying(job, seen).data = job.data
  BY DEF Shaped, Copying
<1>3. Copied(job).at = "open" /\ Copied(job).task = job.task /\ Copied(job).data = job.data
  BY DEF Shaped, Copied
<1>4. Shaped(Copying(job, seen)) /\ Shaped(Copied(job))
  BY <1>1 DEF Copying, Copied
<1> QED
  BY <1>2, <1>3, <1>4

\* The ways in which a step changes the job of its process.
LEMMA NewJob ==
    ASSUME Shapes, NEW p \in Users, NEW job, Shaped(job),
           fetcher' = [fetcher EXCEPT ![p] = job]
    PROVE  ActsAs(p, job)
BY DEF Shapes, ActsAs

LEMMA GotoJob ==
    ASSUME Shapes, NEW p \in Users, NEW step, Goto(p, step)
    PROVE  ActsAs(p, [fetcher[p] EXCEPT !.at = step])
<1>1. Shaped([fetcher[p] EXCEPT !.at = step])
  BY DEF Shapes, Shaped
<1> QED
  BY <1>1, NewJob DEF Goto

LEMMA FinishJob ==
    ASSUME Shapes, NEW p \in Users, Finish(p)
    PROVE  ActsAs(p, Idle)
BY IdleShaped, NewJob DEF Finish

\* A job given up is over or starts again; either way it is not an installation.
LEMMA GiveUpJob ==
    ASSUME Shapes, NEW p \in Users, GiveUp(p)
    PROVE  \E job : ActsAs(p, job) /\ job.at \in {"idle", "start"}
<1> DEFINE left == fetcher[p].tries - 1
           again == [Idle EXCEPT !.at = "start", !.task = "fetch", !.tries = left]
<1>1. Shaped(again) /\ again.at = "start"
  BY StartShaped
<1>2. CASE fetcher[p].tries > 1
  <2>1. fetcher' = [fetcher EXCEPT ![p] = again]
    BY <1>2 DEF GiveUp
  <2> HIDE DEF again
  <2>2. ActsAs(p, again)
    BY <1>1, <2>1, NewJob
  <2> QED
    BY <1>1, <2>2
<1>3. CASE ~(fetcher[p].tries > 1)
  BY <1>3, FinishJob, IdleShaped DEF GiveUp
<1> QED
  BY <1>2, <1>3

-----------------------------------------------------------------------------
(* What the file operations change. *)

LEMMA MoveEffect ==
    ASSUME Shapes, NEW from \in Names, NEW to \in Names, from # to,
           files[from] # Nil, Move(from, to)
    PROVE  /\ files' = [n \in Names |-> files'[n]] /\ handle' = [q \in Users |-> handle'[q]]
           /\ files'[to] = files[from] /\ files' # files
           /\ \A n \in Names \ {from, to} : files'[n] = files[n]
           /\ \A q \in Users : handle'[q] = CASE handle[q] = from -> to
                                               [] handle[q] = to -> "unlinked"
                                               [] OTHER -> handle[q]
<1>1. /\ files' = [n \in Names |-> files'[n]]
      /\ files'[to] = files[from] /\ files'[from] = Nil
      /\ \A n \in Names \ {from, to} : files'[n] = files[n]
  BY DEF Move, Shapes
<1>2. files' # files
  BY <1>1
<1>3. /\ handle' = [q \in Users |-> handle'[q]]
      /\ \A q \in Users : handle'[q] = CASE handle[q] = from -> to
                                          [] handle[q] = to -> "unlinked"
                                          [] OTHER -> handle[q]
  BY Zenon DEF Move
<1> QED
  BY <1>1, <1>2, <1>3

LEMMA OpenEffect ==
    ASSUME Shapes, NEW p \in Users, NEW name \in Names, OpenTruncated(p, name)
    PROVE  /\ files' = [n \in Names |-> files'[n]] /\ handle' = [q \in Users |-> handle'[q]]
           /\ files'[name] = Empty /\ handle'[p] = name
           /\ \A n \in Names \ {name} : files'[n] = files[n]
           /\ \A q \in Users \ {p} : handle'[q] = handle[q]
<1>1. /\ handle' = [q \in Users |-> handle'[q]] /\ handle'[p] = name
      /\ \A q \in Users \ {p} : handle'[q] = handle[q]
  BY DEF OpenTruncated, Shapes
<1>2. /\ files' = [n \in Names |-> files'[n]] /\ files'[name] = Empty
      /\ \A n \in Names \ {name} : files'[n] = files[n]
  BY DEF OpenTruncated, Shapes
<1> QED
  BY <1>1, <1>2

LEMMA DeliverEffect ==
    ASSUME Shapes, NEW p \in Users, NEW results, Deliver(p, results)
    PROVE  /\ files' = [n \in Names |-> files'[n]] /\ handle' = [q \in Users |-> handle'[q]]
           /\ handle[p] \in Names => files'[handle[p]] \in results
           /\ \A n \in Names \ {handle[p]} : files'[n] = files[n]
           /\ \A q \in Users \ {p} : handle'[q] = handle[q]
<1>1. handle' = [q \in Users |-> handle'[q]] /\ \A q \in Users \ {p} : handle'[q] = handle[q]
  BY DEF Deliver, Shapes
<1>2. CASE handle[p] \in Names
  <2>1. PICK c \in results : files' = [files EXCEPT ![handle[p]] = c]
    BY <1>2 DEF Deliver
  <2> QED
    BY <1>1, <1>2, <2>1 DEF Shapes
<1>3. CASE handle[p] \notin Names
  BY <1>1, <1>3 DEF Deliver, Shapes
<1> QED
  BY <1>2, <1>3

-----------------------------------------------------------------------------
(* The inductive invariant. *)

\* A copy goes to a backup, a new keybox to keybox.tmp or what became of it.
HandleOf(p) ==
    /\ fetcher[p].at = "fill" => handle[p] \in {Bak, Bak1, "unlinked"}
    /\ fetcher[p].at = "write" => handle[p] \in {Tmp, Target, "unlinked"}

\* What is installed is a keybox.
DataOf(p) ==
    /\ fetcher[p].at \in InstallSteps /\ fetcher[p].task # "backup" => fetcher[p].data \in Keyboxes
    /\ fetcher[p].at \in {"open", "write", "rename"} => fetcher[p].task # "backup"

\* Who has keybox.tmp to himself finds there what he has put there.
TmpOf(p) ==
    /\ fetcher[p].at = "write" => handle[p] = Tmp /\ files[Tmp] = Empty
    /\ fetcher[p].at = "rename" => files[Tmp] = fetcher[p].data

OneInTmp == \A p, q \in Users : p # q => ~(fetcher[p].at \in InTmp /\ fetcher[q].at \in InTmp)
TargetWhole == files[Target] \notin {Empty, Torn}
InOrder == OneInTmp /\ TargetWhole /\ \A p \in Users : TmpOf(p)

\* Who is not crossed copies what is installed, and replaces only what is copied.
Kept(p) ==
    /\ fetcher[p].at = "fill" =>
          handle[p] = Bak /\ files[Bak] = Empty /\ fetcher[p].seen = files[Target]
    /\ fetcher[p].at = "write" => handle[p] = Tmp
    /\ fetcher[p].at \in {"open", "write", "rename"} =>
          files[Target] = Nil \/ files[Bak] = files[Target]

Roles == \A p \in Users : HandleOf(p) /\ DataOf(p)

IInv ==
    /\ Shapes /\ Roles
    /\ ~overlapped => InOrder
    /\ \A p \in Users : p \notin crossed => Kept(p)

LEMMA IInvInit == KeyboxInit => IInv
<1> SUFFICES ASSUME KeyboxInit PROVE IInv
  OBVIOUS
<1>1. \A p \in Users : fetcher[p] = Idle /\ fetcher[p].at = "idle"
  BY IdleShaped DEF KeyboxInit
<1>2. Shapes
  BY <1>1, IdleShaped DEF KeyboxInit, Shapes
<1>3. Roles /\ OneInTmp /\ \A p \in Users : TmpOf(p) /\ Kept(p)
  BY <1>1 DEF Roles, HandleOf, DataOf, OneInTmp, TmpOf, Kept, InstallSteps, InTmp
<1>4. TargetWhole
  BY KeyboxAssumption DEF KeyboxInit, TargetWhole, Names
<1> QED
  BY <1>2, <1>3, <1>4 DEF IInv, InOrder

\* An overlap is forgotten only when nothing of it is left.
LEMMA Forgotten ==
    ASSUME overlapped, ~overlapped', KeyboxHistory
    PROVE  InOrder'
BY DEF KeyboxHistory, InOrder, OneInTmp, TargetWhole, TmpOf, InTmp

LEMMA NotOverlapping ==
    ASSUME ~overlapped', KeyboxHistory
    PROVE  OneInTmp'
BY DEF KeyboxHistory, OneInTmp

\* A process that another has crossed is known to be.
LEMMA NotCrossed ==
    ASSUME KeyboxHistory, NEW q \in Users, q \notin crossed', fetcher'[q].at \in InstallSteps
    PROVE  q \notin crossed /\ (fetcher'[q] = fetcher[q] => files' = files)
BY DEF KeyboxHistory

-----------------------------------------------------------------------------
(* What is common to the steps of one process. *)

LEMMA ActsShapes ==
    ASSUME Shapes, NEW p \in Users, NEW job, ActsAs(p, job)
    PROVE  /\ fetcher' = [q \in Users |-> fetcher'[q]]
           /\ \A q \in Users : Shaped(fetcher[q])'
           /\ fetcher'[p] = job
           /\ \A q \in Users \ {p} : fetcher'[q] = fetcher[q]
<1>1. /\ fetcher' = [q \in Users |-> fetcher'[q]]
      /\ fetcher'[p] = job
      /\ \A q \in Users \ {p} : fetcher'[q] = fetcher[q]
  BY DEF ActsAs
<1>2. \A q \in Users : Shaped(fetcher[q])'
  BY <1>1 DEF Shapes, ActsAs, Shaped
<1> QED
  BY <1>1, <1>2

\* Whose job stays the same keeps what he has, unless he is crossed.
LEMMA OthersKeep ==
    ASSUME IInv, KeyboxHistory, NEW q \in Users, fetcher'[q] = fetcher[q],
           fetcher[q].at \in Writing /\ files' = files => handle'[q] = handle[q],
           q \notin crossed'
    PROVE  Kept(q)'
<1>1. CASE fetcher[q].at \notin InstallSteps
  BY <1>1 DEF Kept, InstallSteps
<1>2. CASE fetcher[q].at \in InstallSteps
  <2>1. q \notin crossed /\ files' = files
    BY <1>2, NotCrossed
  <2>2. Kept(q)
    BY <2>1 DEF IInv
  <2> QED
    BY <2>1, <2>2 DEF Kept, Writing
<1> QED
  BY <1>1, <1>2

\* A step that changes no file, and does not lead into a write.
LEMMA Thinking ==
    ASSUME IInv, KeyboxHistory, NEW p \in Users, NEW job, ActsAs(p, job),
           files' = files, handle' = handle,
           job.at \notin {"fill", "write", "rename"},
           job.at \in InstallSteps /\ job.task # "backup" => job.data \in Keyboxes,
           job.at = "open" => job.task # "backup" /\ files[Target] = Nil
    PROVE  IInv'
<1>1. /\ fetcher'[p] = job /\ \A q \in Users \ {p} : fetcher'[q] = fetcher[q]
      /\ Shapes'
  BY ActsShapes DEF IInv, Shapes
<1>2. Roles'
  BY <1>1 DEF IInv, Roles, HandleOf, DataOf
<1>3. ASSUME ~overlapped' PROVE InOrder'
  <2>1. CASE overlapped
    BY <1>3, <2>1, Forgotten
  <2>2. CASE ~overlapped
    BY <1>1, <1>3, <2>2, NotOverlapping DEF IInv, InOrder, TargetWhole, TmpOf
  <2> QED
    BY <2>1, <2>2
<1>4. ASSUME NEW q \in Users, q \notin crossed' PROVE Kept(q)'
  <2>1. CASE q = p
    BY <1>1, <2>1 DEF Kept
  <2>2. CASE q # p
    BY <1>1, <1>4, <2>2, OthersKeep
  <2> QED
    BY <2>1, <2>2
<1> QED
  BY <1>1, <1>2, <1>3, <1>4 DEF IInv

\* A step that concerns no process.
LEMMA Aside ==
    ASSUME IInv, KeyboxHistory, UNCHANGED <<files, handle, fetcher>>
    PROVE  IInv'
<1>1. Shapes' /\ Roles'
  BY DEF IInv, Shapes, Roles, HandleOf, DataOf, Shaped
<1>2. ASSUME ~overlapped' PROVE InOrder'
  <2>1. CASE overlapped
    BY <1>2, <2>1, Forgotten
  <2>2. CASE ~overlapped
    BY <2>2 DEF IInv, InOrder, OneInTmp, TargetWhole, TmpOf
  <2> QED
    BY <2>1, <2>2
<1>3. ASSUME NEW q \in Users, q \notin crossed' PROVE Kept(q)'
  BY <1>3, OthersKeep
<1> QED
  BY <1>1, <1>2, <1>3 DEF IInv

\* A job given up.
LEMMA GivenUp ==
    ASSUME IInv, KeyboxHistory, NEW p \in Users, GiveUp(p), files' = files, handle' = handle
    PROVE  IInv'
<1>1. PICK job : ActsAs(p, job) /\ job.at \in {"idle", "start"}
  BY GiveUpJob DEF IInv
<1> QED
  BY <1>1, Thinking DEF InstallSteps

-----------------------------------------------------------------------------
(* The steps, one lemma for each kind. *)

\* The daemon's task and the commands begin.
LEMMA BeginInv ==
    ASSUME IInv, KeyboxHistory,
           RunTask \/ \E p \in KeyboxCommands : Command(p)
    PROVE  IInv'
<1>1. CASE RunTask
  <2> DEFINE left == IF boot_done THEN 0 ELSE BootRetries
             job == [Idle EXCEPT !.at = "start", !.task = "fetch", !.tries = left]
  <2>1. fetcher' = [fetcher EXCEPT ![KeyboxDaemon] = job] /\ files' = files /\ handle' = handle
    BY <1>1 DEF RunTask
  <2>2. Shaped(job) /\ job.at = "start"
    BY StartShaped
  <2> HIDE DEF job
  <2>3. ActsAs(KeyboxDaemon, job)
    BY <2>1, <2>2, NewJob DEF IInv, Users
  <2> QED
    BY <2>1, <2>2, <2>3, Thinking DEF InstallSteps, Users
<1>2. ASSUME NEW p \in KeyboxCommands, Command(p) PROVE IInv'
  <2>1. p \in Users /\ Shapes /\ files' = files /\ handle' = handle
    BY <1>2 DEF Command, Users, IInv
  <2>2. \E job : /\ fetcher' = [fetcher EXCEPT ![p] = job]
                 /\ Shaped(job) /\ job.at \in {"start", "check"}
                 /\ job.at = "check" => job.task = "backup" \/ job.data \in Keyboxes
    <3>1. CASE fetcher' = [fetcher EXCEPT ![p] = Plain("start", "fetch")]
      <4>1. Shaped(Plain("start", "fetch")) /\ Plain("start", "fetch").at = "start"
        BY PlainShaped
      <4> QED
        BY <3>1, <4>1
    <3>2. CASE \E k \in Sound : fetcher' = [fetcher EXCEPT ![p] = Given("check", "set_custom", k)]
      <4> PICK k \in Sound : fetcher' = [fetcher EXCEPT ![p] = Given("check", "set_custom", k)]
        BY <3>2
      <4> DEFINE job == Given("check", "set_custom", k)
      <4>1. Shaped(job) /\ job.at = "check" /\ job.data \in Keyboxes
        BY GivenShaped, KeyboxAssumption
      <4> QED
        BY <4>1
    <3>3. CASE fetcher' = [fetcher EXCEPT ![p] = Given("check", "generate", Generated)]
      <4> DEFINE job == Given("check", "generate", Generated)
      <4>1. Shaped(job) /\ job.at = "check" /\ job.data \in Keyboxes
        BY GivenShaped, KeyboxAssumption
      <4> QED
        BY <3>3, <4>1
    <3>4. CASE fetcher' = [fetcher EXCEPT ![p] = Plain("check", "backup")]
      <4>1. /\ Shaped(Plain("check", "backup"))
            /\ Plain("check", "backup").at = "check" /\ Plain("check", "backup").task = "backup"
        BY PlainShaped
      <4> QED
        BY <3>4, <4>1
    <3> QED
      BY <1>2, <3>1, <3>2, <3>3, <3>4, Zenon DEF Command, Plain, Given
  <2>3. PICK job : /\ fetcher' = [fetcher EXCEPT ![p] = job]
                   /\ Shaped(job) /\ job.at \in {"start", "check"}
                   /\ job.at = "check" => job.task = "backup" \/ job.data \in Keyboxes
    BY <2>2
  <2>4. ActsAs(p, job)
    BY <2>1, <2>3, NewJob
  <2>5. /\ job.at \notin {"fill", "write", "rename"} /\ job.at # "open"
        /\ job.at \in InstallSteps /\ job.task # "backup" => job.data \in Keyboxes
    BY <2>3 DEF InstallSteps
  <2> QED
    BY <2>1, <2>4, <2>5, Thinking
<1> QED
  BY <1>1, <1>2

\* A keybox is looked for and checked, and a missing one is not backed up.
LEMMA LookInv ==
    ASSUME IInv, KeyboxHistory, NEW p \in Users,
           ReadHash(p) \/ NextSource(p) \/ Identical(p) \/ TakeSource(p) \/ OutOfSources(p) \/ Check(p)
    PROVE  IInv'
<1>0. Shapes /\ Shaped(fetcher[p]) /\ DataOf(p) /\ files' = files /\ handle' = handle
  BY DEF IInv, Shapes, Roles, ReadHash, NextSource, Identical, TakeSource, OutOfSources, Check
<1>1. CASE ReadHash(p)
  <2>1. PICK seen : fetcher' = [fetcher EXCEPT ![p].at = "source", ![p].left = SourceOrder,
                                               ![p].seen = seen]
    BY <1>1 DEF ReadHash
  <2> DEFINE job == Looking(fetcher[p], SourceOrder, seen)
  <2>2. fetcher' = [fetcher EXCEPT ![p] = job]
    BY <1>0, <2>1 DEF Shapes, Looking
  <2>3. Shaped(job) /\ job.at = "source"
    BY <1>0, LookingShaped
  <2> HIDE DEF job
  <2>4. ActsAs(p, job)
    BY <1>0, <2>2, <2>3, NewJob
  <2> QED
    BY <1>0, <2>3, <2>4, Thinking DEF InstallSteps
<1>2. CASE NextSource(p)
  <2> DEFINE job(rest) == [fetcher[p] EXCEPT !.left = rest]
  <2>1. ASSUME NEW rest PROVE Shaped(job(rest)) /\ job(rest).at = fetcher[p].at
    BY <1>0 DEF Shaped
  <2>2. fetcher' = [fetcher EXCEPT ![p] = job(Tail(fetcher[p].left))] /\ fetcher[p].at = "source"
    BY <1>0, <1>2 DEF NextSource, Shapes
  <2> HIDE DEF job
  <2>3. ActsAs(p, job(Tail(fetcher[p].left)))
    BY <1>0, <2>1, <2>2, NewJob
  <2> QED
    BY <1>0, <2>1, <2>2, <2>3, Thinking DEF InstallSteps
<1>3. CASE Finish(p)
  BY <1>0, <1>3, FinishJob, IdleShaped, Thinking DEF InstallSteps
<1>4. CASE TakeSource(p)
  <2>1. PICK k \in Keyboxes : fetcher' = [fetcher EXCEPT ![p] = Taking(fetcher[p], k)]
    BY <1>0, <1>4, KeyboxAssumption DEF TakeSource, Offers, Shapes, Taking
  <2> DEFINE job == Taking(fetcher[p], k)
  <2>2. Shaped(job) /\ job.at = "check" /\ job.data = k
    BY <1>0, TakingShaped
  <2> HIDE DEF job
  <2>3. ActsAs(p, job)
    BY <1>0, <2>1, <2>2, NewJob DEF job
  <2> QED
    BY <1>0, <2>2, <2>3, Thinking
<1>5. CASE Check(p) /\ ~GiveUp(p)
  <2> DEFINE job == [fetcher[p] EXCEPT !.at = AfterCheck(p)]
  <2>1. Goto(p, AfterCheck(p)) /\ fetcher[p].at = "check"
    BY <1>5 DEF Check
  <2>2. job.at = AfterCheck(p) /\ job.task = fetcher[p].task /\ job.data = fetcher[p].data
    BY <1>0 DEF Shaped
  <2>3. ActsAs(p, job)
    BY <1>0, <2>1, GotoJob
  <2> HIDE DEF job
  <2>4. AfterCheck(p) \in {"open", "rotate", "copy"}
    BY DEF AfterCheck
  <2>5. AfterCheck(p) = "open" => fetcher[p].task # "backup" /\ files[Target] = Nil
    BY <1>5 DEF AfterCheck, Check
  <2>6. fetcher[p].task # "backup" => fetcher[p].data \in Keyboxes
    BY <1>0, <2>1 DEF DataOf, InstallSteps
  <2> QED
    BY <1>0, <2>2, <2>3, <2>4, <2>5, <2>6, Thinking
<1>6. CASE GiveUp(p)
  BY <1>0, <1>6, GivenUp
<1> QED
  BY <1>1, <1>2, <1>3, <1>4, <1>5, <1>6 DEF Identical, OutOfSources

\* What a step on the files has to respect.  If keybox.tmp is in one process's
\* hands it must be this one's; for the others nothing changes that they rely on.
LEMMA FileStep ==
    ASSUME IInv, KeyboxHistory, NEW p \in Users, NEW job, ActsAs(p, job),
           files' = [n \in Names |-> files'[n]], handle' = [q \in Users |-> handle'[q]],
           \A q \in Users : HandleOf(q)',
           DataOf(p)', p \notin crossed' => Kept(p)',
           \A q \in Users \ {p} :
              fetcher[q].at \in Writing /\ handle'[q] # handle[q] =>
                 files' # files /\ (fetcher[q].at = "write" => fetcher[p].at \in InTmp),
           ~overlapped /\ ~overlapped' =>
              /\ TargetWhole' /\ TmpOf(p)'
              /\ files'[Tmp] = files[Tmp] \/ fetcher[p].at \in InTmp \/ job.at \in InTmp
    PROVE  IInv'
<1>1. /\ fetcher'[p] = job /\ \A q \in Users \ {p} : fetcher'[q] = fetcher[q]
      /\ Shapes'
  BY ActsShapes DEF IInv, Shapes
<1>2. Roles'
  BY <1>1 DEF IInv, Roles, DataOf
<1>3. ASSUME ~overlapped' PROVE InOrder'
  <2>1. CASE overlapped
    BY <1>3, <2>1, Forgotten
  <2>2. CASE ~overlapped
    <3>1. OneInTmp' /\ InOrder
      BY <1>3, <2>2, NotOverlapping DEF IInv
    <3>2. ASSUME NEW q \in Users \ {p} PROVE TmpOf(q)'
      <4>1. CASE fetcher[q].at \notin InTmp
        BY <1>1, <4>1 DEF TmpOf, InTmp
      <4>2. CASE fetcher[q].at \in InTmp
        <5>1. fetcher[p].at \notin InTmp /\ job.at \notin InTmp /\ fetcher'[q] = fetcher[q]
          BY <1>1, <3>1, <4>2 DEF InOrder, OneInTmp
        <5>2. files'[Tmp] = files[Tmp]
          BY <1>3, <2>2, <5>1
        <5>3. fetcher[q].at = "write" => handle'[q] = handle[q]
          BY <5>1 DEF Writing
        <5>4. TmpOf(q)
          BY <3>1 DEF InOrder
        <5> QED
          BY <5>1, <5>2, <5>3, <5>4 DEF TmpOf
      <4> QED
        BY <4>1, <4>2
    <3> QED
      BY <1>3, <2>2, <3>1, <3>2 DEF InOrder
  <2> QED
    BY <2>1, <2>2
<1>4. ASSUME NEW q \in Users, q \notin crossed' PROVE Kept(q)'
  <2>1. CASE q = p
    BY <1>4, <2>1
  <2>2. CASE q # p
    BY <1>1, <1>4, <2>2, OthersKeep
  <2> QED
    BY <2>1, <2>2
<1> QED
  BY <1>1, <1>2, <1>3, <1>4 DEF IInv

\* What a process that is not crossed could rely on, and one alone with keybox.tmp.
LEMMA Mine ==
    ASSUME IInv, KeyboxHistory, NEW p \in Users
    PROVE  /\ Shapes /\ Shaped(fetcher[p]) /\ HandleOf(p) /\ DataOf(p)
           /\ p \notin crossed' /\ fetcher[p].at \in InstallSteps /\ fetcher'[p].at \in InstallSteps
              => Kept(p)
           /\ ~overlapped => TargetWhole /\ TmpOf(p)
BY NotCrossed DEF IInv, Shapes, Roles, InOrder

LEMMA RotateInv ==
    ASSUME IInv, KeyboxHistory, NEW p \in Users, Rotate(p)
    PROVE  IInv'
<1>1. CASE files[Bak] = Nil
  BY <1>1, GivenUp DEF Rotate
<1>2. CASE files[Bak] # Nil
  <2> DEFINE job == [fetcher[p] EXCEPT !.at = "copy"]
  <2>1. Move(Bak, Bak1) /\ Goto(p, "copy") /\ fetcher[p].at = "rotate"
    BY <1>2 DEF Rotate
  <2>2. job.at = "copy" /\ job.task = fetcher[p].task /\ job.data = fetcher[p].data
    BY Mine DEF Shaped
  <2>3. ActsAs(p, job)
    BY <2>1, GotoJob, Mine
  <2> HIDE DEF job
  <2>4. fetcher'[p] = job /\ \A q \in Users \ {p} : fetcher'[q] = fetcher[q]
    BY <2>3, ActsShapes, Mine
  <2>5. /\ files' = [n \in Names |-> files'[n]] /\ handle' = [q \in Users |-> handle'[q]]
        /\ files' # files /\ files'[Target] = files[Target] /\ files'[Tmp] = files[Tmp]
        /\ \A q \in Users : handle'[q] = CASE handle[q] = Bak -> Bak1
                                            [] handle[q] = Bak1 -> "unlinked"
                                            [] OTHER -> handle[q]
    BY <1>2, <2>1, MoveEffect, Mine DEF Names, Target, Tmp, Bak, Bak1
  <2>6. ASSUME NEW q \in Users
        PROVE  HandleOf(q)' /\ (fetcher[q].at = "write" => handle'[q] = handle[q])
    BY <2>2, <2>4, <2>5, Mine DEF HandleOf, Target, Tmp, Bak, Bak1
  <2>7. DataOf(p)' /\ Kept(p)' /\ TmpOf(p)'
    BY <2>1, <2>2, <2>4, Mine DEF DataOf, Kept, TmpOf, InstallSteps
  <2>8. ~overlapped => TargetWhole'
    BY <2>5, Mine DEF TargetWhole
  <2> QED
    BY <2>3, <2>5, <2>6, <2>7, <2>8, FileStep
<1> QED
  BY <1>1, <1>2

LEMMA CopyOpenInv ==
    ASSUME IInv, KeyboxHistory, NEW p \in Users, CopyOpen(p)
    PROVE  IInv'
<1> DEFINE job == Copying(fetcher[p], files[Target])
<1>1. OpenTruncated(p, Bak) /\ fetcher[p].at = "copy"
  BY DEF CopyOpen
<1>2. /\ Shaped(job) /\ job.at = "fill" /\ job.seen = files[Target]
      /\ job.task = fetcher[p].task /\ job.data = fetcher[p].data
  BY CopyShaped, Mine
<1>3. fetcher' = [fetcher EXCEPT ![p] = job]
  BY Mine DEF CopyOpen, Copying, Shapes
<1> HIDE DEF job
<1>4. ActsAs(p, job)
  BY <1>2, <1>3, NewJob, Mine
<1>5. fetcher'[p] = job /\ \A q \in Users \ {p} : fetcher'[q] = fetcher[q]
  BY <1>4, ActsShapes, Mine
<1>6. /\ files' = [n \in Names |-> files'[n]] /\ handle' = [q \in Users |-> handle'[q]]
      /\ files'[Bak] = Empty /\ handle'[p] = Bak
      /\ files'[Target] = files[Target] /\ files'[Tmp] = files[Tmp]
      /\ \A q \in Users \ {p} : handle'[q] = handle[q]
  BY <1>1, OpenEffect, Mine DEF Names, Target, Tmp, Bak, Bak1
<1>7. \A q \in Users : HandleOf(q)'
  BY <1>2, <1>5, <1>6, Mine DEF HandleOf
<1>8. DataOf(p)' /\ Kept(p)' /\ TmpOf(p)'
  BY <1>1, <1>2, <1>5, <1>6, Mine DEF DataOf, Kept, TmpOf, InstallSteps
<1>9. ~overlapped => TargetWhole'
  BY <1>6, Mine DEF TargetWhole
<1> QED
  BY <1>4, <1>6, <1>7, <1>8, <1>9, FileStep

\* What is copied over an empty file is all that it then holds.
LEMMA CopyFillInv ==
    ASSUME IInv, KeyboxHistory, NEW p \in Users, CopyFill(p)
    PROVE  IInv'
<1>1. fetcher[p].at = "fill" /\ Deliver(p, Overwritten(Held(p), fetcher[p].seen))
  BY DEF CopyFill
<1>2. handle[p] \in {Bak, Bak1, "unlinked"}
  BY <1>1, Mine DEF HandleOf
<1>3. /\ files' = [n \in Names |-> files'[n]] /\ handle' = [q \in Users |-> handle'[q]]
      /\ handle[p] \in Names => files'[handle[p]] \in Overwritten(Held(p), fetcher[p].seen)
      /\ \A n \in Names \ {handle[p]} : files'[n] = files[n]
      /\ \A q \in Users \ {p} : handle'[q] = handle[q]
  BY <1>1, DeliverEffect, Mine
<1>4. files'[Target] = files[Target] /\ files'[Tmp] = files[Tmp]
  BY <1>2, <1>3 DEF Names, Target, Tmp, Bak, Bak1
<1>5. PICK job : /\ ActsAs(p, job) /\ job.at \in {"idle", "open"}
                 /\ job.at = "open" => /\ fetcher[p].task # "backup" /\ job.task = fetcher[p].task
                                       /\ job.data = fetcher[p].data
  <2>1. CASE fetcher[p].task = "backup"
    BY <2>1, FinishJob, IdleShaped, Mine DEF CopyFill
  <2>2. CASE fetcher[p].task # "backup"
    <3>1. fetcher' = [fetcher EXCEPT ![p] = Copied(fetcher[p])]
      BY <2>2, Mine DEF CopyFill, Copied, Shapes
    <3>2. /\ Shaped(Copied(fetcher[p])) /\ Copied(fetcher[p]).at = "open"
          /\ Copied(fetcher[p]).task = fetcher[p].task /\ Copied(fetcher[p]).data = fetcher[p].data
      BY CopyShaped, Mine
    <3>3. ActsAs(p, Copied(fetcher[p]))
      BY <3>1, <3>2, NewJob, Mine
    <3> QED
      BY <2>2, <3>2, <3>3
  <2> QED
    BY <2>1, <2>2
<1>6. fetcher'[p] = job /\ \A q \in Users \ {p} : fetcher'[q] = fetcher[q]
  BY <1>5, ActsShapes, Mine
<1>7. \A q \in Users : HandleOf(q)'
  BY <1>3, <1>5, <1>6, Mine DEF HandleOf
<1>8. DataOf(p)' /\ TmpOf(p)'
  BY <1>1, <1>5, <1>6, Mine DEF DataOf, TmpOf, InstallSteps
<1>9. p \notin crossed' => Kept(p)'
  <2> SUFFICES ASSUME p \notin crossed', job.at = "open" PROVE files'[Bak] = files[Target]
    BY <1>4, <1>5, <1>6 DEF Kept
  <2>1. handle[p] = Bak /\ files[Bak] = Empty /\ fetcher[p].seen = files[Target]
    BY <1>1, <1>6, Mine DEF Kept, InstallSteps
  <2>2. Held(p) = Empty /\ handle[p] \in Names
    BY <2>1 DEF Held, Names
  <2> QED
    BY <1>3, <2>1, <2>2 DEF Overwritten
<1>10. ~overlapped => TargetWhole'
  BY <1>4, Mine DEF TargetWhole
<1> QED
  BY <1>3, <1>4, <1>5, <1>7, <1>8, <1>9, <1>10, FileStep

\* keybox.tmp is opened, filled and renamed; alone with it, a process renames
\* what it has written.
LEMMA OpenTmpInv ==
    ASSUME IInv, KeyboxHistory, NEW p \in Users, OpenTmp(p)
    PROVE  IInv'
<1> DEFINE job == [fetcher[p] EXCEPT !.at = "write"]
<1>1. OpenTruncated(p, Tmp) /\ fetcher[p].at = "open"
  BY DEF OpenTmp
<1>2. job.at = "write" /\ job.task = fetcher[p].task /\ job.data = fetcher[p].data
  BY Mine DEF Shaped
<1>3. ActsAs(p, job)
  BY GotoJob, Mine DEF OpenTmp
<1> HIDE DEF job
<1>4. fetcher'[p] = job /\ \A q \in Users \ {p} : fetcher'[q] = fetcher[q]
  BY <1>3, ActsShapes, Mine
<1>5. /\ files' = [n \in Names |-> files'[n]] /\ handle' = [q \in Users |-> handle'[q]]
      /\ files'[Tmp] = Empty /\ handle'[p] = Tmp
      /\ files'[Target] = files[Target] /\ files'[Bak] = files[Bak]
      /\ \A q \in Users \ {p} : handle'[q] = handle[q]
  BY <1>1, OpenEffect, Mine DEF Names, Target, Tmp, Bak, Bak1
<1>6. \A q \in Users : HandleOf(q)'
  BY <1>2, <1>4, <1>5, Mine DEF HandleOf
<1>7. DataOf(p)' /\ TmpOf(p)'
  BY <1>1, <1>2, <1>4, <1>5, Mine DEF DataOf, TmpOf, InstallSteps
<1>8. p \notin crossed' => Kept(p)'
  BY <1>1, <1>2, <1>4, <1>5, Mine DEF Kept, InstallSteps
<1>9. ~overlapped => TargetWhole'
  BY <1>5, Mine DEF TargetWhole
<1> QED
  BY <1>2, <1>3, <1>5, <1>6, <1>7, <1>8, <1>9, FileStep DEF InTmp

LEMMA WriteTmpInv ==
    ASSUME IInv, KeyboxHistory, NEW p \in Users, WriteTmp(p)
    PROVE  IInv'
<1> DEFINE job == [fetcher[p] EXCEPT !.at = "rename"]
<1>1. fetcher[p].at = "write" /\ Deliver(p, Overwritten(Held(p), fetcher[p].data))
  BY DEF WriteTmp
<1>2. job.at = "rename" /\ job.task = fetcher[p].task /\ job.data = fetcher[p].data
  BY Mine DEF Shaped
<1>3. ActsAs(p, job)
  BY GotoJob, Mine DEF WriteTmp
<1> HIDE DEF job
<1>4. fetcher'[p] = job /\ \A q \in Users \ {p} : fetcher'[q] = fetcher[q]
  BY <1>3, ActsShapes, Mine
<1>5. /\ files' = [n \in Names |-> files'[n]] /\ handle' = [q \in Users |-> handle'[q]]
      /\ handle[p] \in Names => files'[handle[p]] \in Overwritten(Held(p), fetcher[p].data)
      /\ \A n \in Names \ {handle[p]} : files'[n] = files[n]
      /\ \A q \in Users \ {p} : handle'[q] = handle[q]
  BY <1>1, DeliverEffect, Mine
<1>6. \A q \in Users : HandleOf(q)'
  BY <1>2, <1>4, <1>5, Mine DEF HandleOf
<1>7. DataOf(p)'
  BY <1>1, <1>2, <1>4, Mine DEF DataOf, InstallSteps
<1>8. p \notin crossed' => Kept(p)'
  <2> SUFFICES ASSUME p \notin crossed' PROVE Kept(p)'
    OBVIOUS
  <2>1. handle[p] = Tmp /\ (files[Target] = Nil \/ files[Bak] = files[Target])
    BY <1>1, <1>2, <1>4, Mine DEF Kept, InstallSteps
  <2>2. files'[Target] = files[Target] /\ files'[Bak] = files[Bak]
    BY <1>5, <2>1 DEF Names, Target, Tmp, Bak, Bak1
  <2> QED
    BY <1>2, <1>4, <2>1, <2>2 DEF Kept
<1>9. ~overlapped => TargetWhole' /\ TmpOf(p)'
  <2> SUFFICES ASSUME ~overlapped PROVE TargetWhole' /\ TmpOf(p)'
    OBVIOUS
  <2>1. handle[p] = Tmp /\ files[Tmp] = Empty
    BY <1>1, Mine DEF TmpOf
  <2>2. Held(p) = Empty /\ handle[p] \in Names
    BY <2>1 DEF Held, Names
  <2>3. files'[Tmp] = fetcher[p].data
    BY <1>5, <2>1, <2>2 DEF Overwritten
  <2>4. files'[Target] = files[Target]
    BY <1>5, <2>1 DEF Names, Target, Tmp, Bak, Bak1
  <2> QED
    BY <1>2, <1>4, <2>3, <2>4, Mine DEF TargetWhole, TmpOf
<1> QED
  BY <1>1, <1>3, <1>5, <1>6, <1>7, <1>8, <1>9, FileStep DEF InTmp

LEMMA RenameTmpInv ==
    ASSUME IInv, KeyboxHistory, NEW p \in Users, RenameTmp(p)
    PROVE  IInv'
<1>1. CASE files[Tmp] = Nil
  BY <1>1, GivenUp DEF RenameTmp
<1>2. CASE files[Tmp] # Nil
  <2>1. Move(Tmp, Target) /\ Finish(p) /\ fetcher[p].at = "rename"
    BY <1>2 DEF RenameTmp
  <2>2. ActsAs(p, Idle) /\ Idle.at = "idle"
    BY <2>1, FinishJob, IdleShaped, Mine
  <2>3. fetcher'[p].at = "idle" /\ \A q \in Users \ {p} : fetcher'[q] = fetcher[q]
    BY <2>2, ActsShapes, Mine
  <2>4. /\ files' = [n \in Names |-> files'[n]] /\ handle' = [q \in Users |-> handle'[q]]
        /\ files' # files /\ files'[Target] = files[Tmp]
        /\ \A q \in Users : handle'[q] = CASE handle[q] = Tmp -> Target
                                            [] handle[q] = Target -> "unlinked"
                                            [] OTHER -> handle[q]
    BY <1>2, <2>1, MoveEffect, Mine DEF Names, Target, Tmp, Bak, Bak1
  <2>5. ASSUME NEW q \in Users
        PROVE  HandleOf(q)'
    BY <2>3, <2>4, Mine DEF HandleOf, Target, Tmp, Bak, Bak1
  <2>6. DataOf(p)' /\ Kept(p)' /\ TmpOf(p)'
    BY <2>3 DEF DataOf, Kept, TmpOf, InstallSteps
  <2>7. ~overlapped => TargetWhole'
    <3> SUFFICES ASSUME ~overlapped PROVE TargetWhole'
      OBVIOUS
    <3>1. files[Tmp] = fetcher[p].data /\ fetcher[p].data \in Keyboxes
      BY <2>1, Mine DEF TmpOf, DataOf, InstallSteps
    <3> QED
      BY <2>4, <3>1, KeyboxAssumption DEF TargetWhole
  <2> QED
    BY <2>1, <2>2, <2>4, <2>5, <2>6, <2>7, FileStep DEF InTmp
<1> QED
  BY <1>1, <1>2

\* A failing write may leave part of the keybox, in keybox.tmp or in a backup.
LEMMA FailsInv ==
    ASSUME IInv, KeyboxHistory, NEW p \in Users, OperationFails(p)
    PROVE  IInv'
<1>1. CASE fetcher[p].at \notin Writing
  BY <1>1, GivenUp DEF OperationFails
<1>2. CASE fetcher[p].at \in Writing
  <2>1. Deliver(p, {Held(p), Torn}) /\ GiveUp(p)
    BY <1>2 DEF OperationFails
  <2>2. PICK job : ActsAs(p, job) /\ job.at \in {"idle", "start"}
    BY <2>1, GiveUpJob, Mine
  <2>3. fetcher'[p] = job /\ \A q \in Users \ {p} : fetcher'[q] = fetcher[q]
    BY <2>2, ActsShapes, Mine
  <2>4. /\ files' = [n \in Names |-> files'[n]] /\ handle' = [q \in Users |-> handle'[q]]
        /\ \A n \in Names \ {handle[p]} : files'[n] = files[n]
        /\ \A q \in Users \ {p} : handle'[q] = handle[q]
    BY <2>1, DeliverEffect, Mine
  <2>5. \A q \in Users : HandleOf(q)'
    BY <2>2, <2>3, <2>4, Mine DEF HandleOf
  <2>6. DataOf(p)' /\ Kept(p)' /\ TmpOf(p)'
    BY <2>2, <2>3 DEF DataOf, Kept, TmpOf, InstallSteps
  <2>7. ~overlapped => /\ TargetWhole'
                       /\ files'[Tmp] = files[Tmp] \/ fetcher[p].at \in InTmp
    <3>1. CASE fetcher[p].at = "fill"
      <4>1. files'[Target] = files[Target] /\ files'[Tmp] = files[Tmp]
        BY <2>4, <3>1, Mine DEF HandleOf, Names, Target, Tmp, Bak, Bak1
      <4> QED
        BY <4>1, Mine DEF TargetWhole
    <3>2. CASE fetcher[p].at = "write" /\ ~overlapped
      <4>1. files'[Target] = files[Target]
        BY <2>4, <3>2, Mine DEF TmpOf, Names, Target, Tmp, Bak, Bak1
      <4> QED
        BY <3>2, <4>1, Mine DEF TargetWhole, InTmp
    <3> QED
      BY <1>2, <3>1, <3>2 DEF Writing
  <2> QED
    BY <2>2, <2>4, <2>5, <2>6, <2>7, FileStep
<1> QED
  BY <1>1, <1>2

LEMMA KilledInv ==
    ASSUME IInv, KeyboxHistory, NEW p \in Users, Killed(p)
    PROVE  IInv'
<1>1. ActsAs(p, Idle) /\ Idle.at = "idle"
  BY NewJob, IdleShaped, Mine DEF Killed
<1>2. fetcher'[p].at = "idle" /\ \A q \in Users \ {p} : fetcher'[q] = fetcher[q]
  BY <1>1, ActsShapes, Mine
<1>3. /\ files' = files /\ handle' = [q \in Users |-> handle'[q]]
      /\ \A q \in Users \ {p} : handle'[q] = handle[q]
  BY Mine DEF Killed, Shapes
<1>4. files' = [n \in Names |-> files'[n]]
  BY <1>3, Mine DEF Shapes
<1>5. \A q \in Users : HandleOf(q)'
  BY <1>2, <1>3, Mine DEF HandleOf
<1>6. DataOf(p)' /\ Kept(p)' /\ TmpOf(p)'
  BY <1>2 DEF DataOf, Kept, TmpOf, InstallSteps
<1>7. ~overlapped => TargetWhole'
  BY <1>3, Mine DEF TargetWhole
<1> QED
  BY <1>1, <1>3, <1>4, <1>5, <1>6, <1>7, FileStep

LEMMA IInvStep ==
    ASSUME IInv, [KeyboxNext]_keyboxVars
    PROVE  IInv'
<1>1. CASE KeyboxNext
  <2>1. KeyboxHistory
    BY <1>1 DEF KeyboxNext
  <2>2. CASE BootWithoutNetwork \/ OfferChanges
    BY <2>1, <2>2, Aside DEF BootWithoutNetwork, OfferChanges
  <2>3. CASE RunTask \/ \E p \in KeyboxCommands : Command(p)
    BY <2>1, <2>3, BeginInv
  <2>4. ASSUME NEW p \in Users, JobStep(p) PROVE IInv'
    BY <2>1, <2>4, LookInv, RotateInv, CopyOpenInv, CopyFillInv, OpenTmpInv, WriteTmpInv,
       RenameTmpInv DEF JobStep
  <2>5. ASSUME NEW p \in Users, OperationFails(p) \/ Killed(p) PROVE IInv'
    BY <2>1, <2>5, FailsInv, KilledInv
  <2> QED
    BY <1>1, <2>2, <2>3, <2>4, <2>5 DEF KeyboxNext, KeyboxActions
<1>2. CASE UNCHANGED keyboxVars
  BY <1>2 DEF keyboxVars, IInv, Shapes, Shaped, Roles, HandleOf, DataOf, InOrder, OneInTmp,
              TargetWhole, TmpOf, Kept
<1> QED
  BY <1>1, <1>2

\* keybox.xml never holds half a keybox, whatever fails and whoever is killed,
\* unless two processes have had keybox.tmp in use at once (atomic_write), for
\* any number of processes and retries.
THEOREM InstalledIsWhole == KeyboxSpec => []KeyboxIsWhole
<1>1. IInv /\ [KeyboxNext]_keyboxVars => IInv'
  BY IInvStep
<1>2. IInv => KeyboxIsWhole
  BY DEF IInv, InOrder, TargetWhole, KeyboxIsWhole
<1> QED
  BY IInvInit, <1>1, <1>2, PTL DEF KeyboxSpec

-----------------------------------------------------------------------------
(* The backup of what is replaced. *)

\* A process whose own step replaces the keybox has copied it.
LEMMA ReplacesKept ==
    ASSUME IInv, NEW p \in Users, Kept(p), JobStep(p) \/ OperationFails(p) \/ Killed(p),
           files[Target] \in Keyboxes, files'[Target] # files[Target]
    PROVE  files'[Bak] = files[Target]
<1>1. Shapes /\ HandleOf(p)
  BY DEF IInv, Roles
<1>2. files[Target] # Nil
  BY KeyboxAssumption
<1>3. CASE \E results : Deliver(p, results) /\ fetcher[p].at \in Writing
  <2>1. \A n \in Names \ {handle[p]} : files'[n] = files[n]
    BY <1>1, <1>3, DeliverEffect
  <2>2. handle[p] # Target
    BY <1>3 DEF Kept, Writing, Target, Tmp, Bak
  <2> QED
    BY <2>1, <2>2 DEF Names
<1>4. CASE OpenTruncated(p, Tmp) \/ OpenTruncated(p, Bak)
  <2>1. files'[Target] = files[Target]
    BY <1>1, <1>4, OpenEffect DEF Names, Target, Tmp, Bak
  <2> QED
    BY <2>1
<1>5. CASE Move(Bak, Bak1) /\ files[Bak] # Nil
  <2>1. files'[Target] = files[Target]
    BY <1>1, <1>5, MoveEffect DEF Names, Target, Tmp, Bak, Bak1
  <2> QED
    BY <2>1
<1>6. CASE Move(Tmp, Target) /\ files[Tmp] # Nil /\ fetcher[p].at = "rename"
  <2>1. files'[Bak] = files[Bak]
    BY <1>1, <1>6, MoveEffect DEF Names, Target, Tmp, Bak, Bak1
  <2> QED
    BY <1>2, <1>6, <2>1 DEF Kept
<1>7. CASE files' = files
  BY <1>7
<1> QED
  BY <1>3, <1>4, <1>5, <1>6, <1>7 DEF JobStep, OperationFails, Killed, ReadHash, NextSource,
     Identical, TakeSource, OutOfSources, Check, Rotate, CopyOpen, CopyFill, OpenTmp, WriteTmp,
     RenameTmp, Writing

\* A step is a step of one process.
LEMMA OnlyOneActs ==
    ASSUME IInv, NEW p \in Users, JobStep(p) \/ OperationFails(p) \/ Killed(p),
           NEW q \in Users, q # p
    PROVE  fetcher'[q] = fetcher[q]
<1>1. fetcher = [r \in Users |-> fetcher[r]]
  BY DEF IInv, Shapes
<1>2. \E job : fetcher' = [fetcher EXCEPT ![p] = job]
  <2>1. CASE GiveUp(p) \/ Finish(p)
    BY <2>1 DEF GiveUp, Finish
  <2>2. CASE \E step : Goto(p, step)
    BY <1>1, <2>2 DEF Goto
  <2>3. CASE ReadHash(p) \/ NextSource(p) \/ TakeSource(p)
    BY <1>1, <2>3 DEF ReadHash, NextSource, TakeSource
  <2>4. CASE CopyOpen(p) \/ CopyFill(p) \/ Killed(p)
    BY <1>1, <2>1, <2>4 DEF CopyOpen, CopyFill, Killed
  <2> QED
    BY <2>1, <2>2, <2>3, <2>4 DEF JobStep, OperationFails, Identical, OutOfSources, Check, Rotate,
       OpenTmp, WriteTmp, RenameTmp
<1> QED
  BY <1>1, <1>2

\* A process that no other crosses replaces a keybox only when keybox.xml.bak
\* holds it (install_data, backup and generate_and_install), for any number of
\* processes, retries and failures.
THEOREM BackupBeforeReplacement == KeyboxSpec => ReplacedIsKept
<1> DEFINE Replaces ==
      \A p \in Users :
        (/\ fetcher[p].at # "idle" /\ p \notin crossed
         /\ fetcher'[p] # fetcher[p]
         /\ files[Target] \in Keyboxes /\ files'[Target] # files[Target])
        => files'[Bak] = files[Target]
<1>1. IInv /\ [KeyboxNext]_keyboxVars => IInv'
  BY IInvStep
<1>2. IInv /\ [KeyboxNext]_keyboxVars => [Replaces]_keyboxVars
  <2> SUFFICES ASSUME IInv, KeyboxNext, NEW p \in Users, p \notin crossed,
                      fetcher'[p] # fetcher[p], files[Target] \in Keyboxes,
                      files'[Target] # files[Target]
               PROVE  files'[Bak] = files[Target]
    OBVIOUS
  <2>1. PICK q \in Users : JobStep(q) \/ OperationFails(q) \/ Killed(q)
    BY DEF KeyboxNext, KeyboxActions, BootWithoutNetwork, RunTask, OfferChanges, Command
  <2>2. q = p
    BY <2>1, OnlyOneActs
  <2>3. Kept(p)
    BY DEF IInv
  <2> QED
    BY <2>1, <2>2, <2>3, ReplacesKept
<1>3. KeyboxSpec => [][Replaces]_keyboxVars
  BY IInvInit, <1>1, <1>2, PTL DEF KeyboxSpec
<1> QED
  BY <1>3 DEF ReplacedIsKept

-----------------------------------------------------------------------------
(* The types. *)

Jobs == [at : InstallSteps \cup {"idle", "start", "source"},
         task : {"none", "fetch", "set_custom", "generate", "backup"},
         left : Seq(SourceSet), seen : Contents, data : Keyboxes \cup {Nil},
         tries : 0 .. BootRetries]
Handles == Names \cup {"unlinked", Nil}

Types ==
    /\ files \in [Names -> Contents] /\ handle \in [Users -> Handles]
    /\ fetcher \in [Users -> Jobs]

\* Who is writing has a file open, and nobody else has.
Holders == \A p \in Users : fetcher[p].at \in Writing <=> handle[p] # Nil

\* The rest of the state, but for the history variables.
Others ==
    /\ boot_done \in BOOLEAN
    /\ offer \in [UsableSources -> Keyboxes \cup {Nil}]
    /\ offers \in 0 .. MaxOffers /\ commands \in 0 .. MaxCommands /\ faults \in 0 .. MaxFaults

LEMMA IdleType == Idle \in Jobs
<1>1. Nil \in Contents /\ 0 \in 0 .. BootRetries /\ <<>> \in Seq(SourceSet)
  BY KeyboxAssumption DEF Contents
<1> QED
  BY <1>1 DEF Idle, Jobs

\* The fields that the steps of a job change keep their types.
LEMMA FieldTypes ==
    ASSUME NEW job \in Jobs, NEW at \in InstallSteps \cup {"idle", "start", "source"}
    PROVE  /\ [job EXCEPT !.at = at] \in Jobs
           /\ \A seen \in Contents : [job EXCEPT !.at = at, !.seen = seen] \in Jobs
           /\ \A seen \in Contents, left \in Seq(SourceSet) :
                [job EXCEPT !.at = at, !.left = left, !.seen = seen] \in Jobs
           /\ \A task \in {"none", "fetch", "set_custom", "generate", "backup"} :
                /\ [job EXCEPT !.at = at, !.task = task] \in Jobs
                /\ \A data \in Keyboxes \cup {Nil} :
                     [job EXCEPT !.at = at, !.task = task, !.data = data] \in Jobs
                /\ \A tries \in 0 .. BootRetries :
                     [job EXCEPT !.at = at, !.task = task, !.tries = tries] \in Jobs
           /\ \A left \in Seq(SourceSet) : [job EXCEPT !.left = left] \in Jobs
           /\ \A seen \in Contents, left \in Seq(SourceSet), data \in Keyboxes \cup {Nil} :
                [job EXCEPT !.at = at, !.left = left, !.seen = seen, !.data = data] \in Jobs
BY DEF Jobs

\* Process p has a new job and may have changed its file.
LEMMA JobStepType ==
    ASSUME Types, Holders, NEW p \in Users, NEW job \in Jobs,
           fetcher' = [fetcher EXCEPT ![p] = job],
           files' \in [Names -> Contents], handle' \in [Users -> Handles],
           job.at \in Writing <=> handle'[p] # Nil,
           \A q \in Users \ {p} : handle'[q] = Nil <=> handle[q] = Nil
    PROVE  Types' /\ Holders'
<1>1. fetcher' \in [Users -> Jobs] /\ fetcher'[p] = job
      /\ \A q \in Users \ {p} : fetcher'[q] = fetcher[q]
  BY DEF Types
<1>2. Types'
  BY <1>1 DEF Types
<1>3. ASSUME NEW q \in Users PROVE fetcher'[q].at \in Writing <=> handle'[q] # Nil
  <2>1. CASE q = p
    BY <1>1, <2>1
  <2>2. CASE q # p
    BY <1>1, <2>2 DEF Holders
  <2> QED
    BY <2>1, <2>2
<1> QED
  BY <1>2, <1>3 DEF Holders

\* Process p has a new job, which does not write, and no file was touched.
LEMMA JobOnlyType ==
    ASSUME Types, Holders, NEW p \in Users, NEW job \in Jobs,
           fetcher' = [fetcher EXCEPT ![p] = job], UNCHANGED <<files, handle>>,
           fetcher[p].at \notin Writing, job.at \notin Writing
    PROVE  Types' /\ Holders'
BY JobStepType DEF Types, Holders

LEMMA MoveType ==
    ASSUME Types, NEW from \in Names, NEW to \in Names, from # to, Move(from, to)
    PROVE  /\ files' \in [Names -> Contents] /\ handle' \in [Users -> Handles]
           /\ \A q \in Users : handle'[q] = Nil <=> handle[q] = Nil
<1>1. Nil \in Contents /\ files[from] \in Contents
  BY DEF Types, Contents
<1>2. files' \in [Names -> Contents]
  BY <1>1 DEF Types, Move
<1>3. handle' = [q \in Users |-> handle'[q]]
      /\ \A q \in Users : handle'[q] = CASE handle[q] = from -> to
                                          [] handle[q] = to -> "unlinked"
                                          [] OTHER -> handle[q]
  BY Zenon DEF Move
<1>4. ASSUME NEW q \in Users
      PROVE  handle'[q] \in Handles /\ (handle'[q] = Nil <=> handle[q] = Nil)
  <2>1. handle[q] \in Handles /\ Nil \notin Names \cup {"unlinked"}
    BY KeyboxAssumption DEF Types
  <2>2. CASE handle[q] = from
    BY <1>3, <2>1, <2>2 DEF Handles
  <2>3. CASE handle[q] # from /\ handle[q] = to
    BY <1>3, <2>1, <2>3 DEF Handles
  <2>4. CASE handle[q] # from /\ handle[q] # to
    BY <1>3, <2>1, <2>4
  <2> QED
    BY <2>2, <2>3, <2>4
<1> QED
  BY <1>2, <1>3, <1>4

LEMMA OpenType ==
    ASSUME Types, NEW p \in Users, NEW name \in Names, OpenTruncated(p, name)
    PROVE  /\ files' \in [Names -> Contents] /\ handle' \in [Users -> Handles]
           /\ handle'[p] # Nil
           /\ \A q \in Users \ {p} : handle'[q] = handle[q]
BY KeyboxAssumption DEF OpenTruncated, Types, Contents, Handles

LEMMA DeliverType ==
    ASSUME Types, NEW p \in Users, NEW results \in SUBSET Contents, Deliver(p, results)
    PROVE  /\ files' \in [Names -> Contents] /\ handle' \in [Users -> Handles]
           /\ handle'[p] = Nil
           /\ \A q \in Users \ {p} : handle'[q] = handle[q]
<1>1. /\ handle' \in [Users -> Handles] /\ handle'[p] = Nil
      /\ \A q \in Users \ {p} : handle'[q] = handle[q]
  BY DEF Deliver, Types, Handles
<1>2. files' \in [Names -> Contents]
  <2>1. CASE handle[p] \in Names
    <3>1. PICK c \in results : files' = [files EXCEPT ![handle[p]] = c]
      BY <2>1 DEF Deliver
    <3> QED
      BY <3>1 DEF Types
  <2>2. CASE handle[p] \notin Names
    BY <2>2 DEF Deliver, Types
  <2> QED
    BY <2>1, <2>2
<1> QED
  BY <1>1, <1>2

\* What a write leaves is the content of a file.
LEMMA WrittenType ==
    ASSUME Types, NEW p \in Users
    PROVE  /\ Held(p) \in Contents /\ {Held(p), Torn} \in SUBSET Contents
           /\ \A new \in Contents : Overwritten(Held(p), new) \in SUBSET Contents
BY DEF Types, Held, Contents, Overwritten

\* A job that is over or given up.
LEMMA EndedType ==
    ASSUME Types, Others, NEW p \in Users, GiveUp(p) \/ Finish(p)
    PROVE  /\ \E job \in Jobs : /\ fetcher' = [fetcher EXCEPT ![p] = job]
                                /\ job.at \in {"idle", "start"}
           /\ boot_done' \in BOOLEAN
<1>1. CASE Finish(p)
  <2>1. boot_done' \in BOOLEAN
    BY <1>1, Zenon DEF Finish
  <2>2. Idle.at = "idle"
    BY DEF Idle
  <2> QED
    BY <1>1, <2>1, <2>2, IdleType DEF Finish
<1>2. CASE GiveUp(p) /\ ~Finish(p)
  <2> DEFINE job == [Idle EXCEPT !.at = "start", !.task = "fetch", !.tries = fetcher[p].tries - 1]
  <2>1. fetcher[p].tries > 1 /\ fetcher' = [fetcher EXCEPT ![p] = job] /\ boot_done' = boot_done
    BY <1>2 DEF GiveUp
  <2>2. fetcher[p].tries \in 0 .. BootRetries /\ BootRetries \in Nat
    BY KeyboxAssumption DEF Types, Jobs
  <2>3. fetcher[p].tries - 1 \in 0 .. BootRetries
    BY <2>1, <2>2
  <2>4. job \in Jobs
    BY <2>3, IdleType, FieldTypes
  <2>5. job.at = "start"
    BY DEF Idle
  <2> QED
    BY <2>1, <2>4, <2>5 DEF Others
<1> QED
  BY <1>1, <1>2

LEMMA EndedTypes ==
    ASSUME Types, Holders, Others, NEW p \in Users, GiveUp(p) \/ Finish(p),
           UNCHANGED <<files, handle>>, fetcher[p].at \notin Writing
    PROVE  Types' /\ Holders' /\ boot_done' \in BOOLEAN
<1>1. PICK job \in Jobs : fetcher' = [fetcher EXCEPT ![p] = job] /\ job.at \in {"idle", "start"}
  BY EndedType
<1>2. job.at \notin Writing
  BY <1>1 DEF Writing
<1> QED
  BY <1>1, <1>2, JobOnlyType, EndedType

\* A step within a job: to another place in the code, all else unchanged.
LEMMA GotoType ==
    ASSUME Types, NEW p \in Users, NEW step \in InstallSteps \cup {"idle", "start", "source"},
           Goto(p, step)
    PROVE  \E job \in Jobs : fetcher' = [fetcher EXCEPT ![p] = job] /\ job.at = step
<1> DEFINE job == [fetcher[p] EXCEPT !.at = step]
<1>1. fetcher[p] \in Jobs
  BY DEF Types
<1>2. job \in Jobs
  BY <1>1, FieldTypes
<1>3. job.at = step
  BY <1>1 DEF Jobs
<1>4. fetcher' = [fetcher EXCEPT ![p] = job]
  BY DEF Goto
<1> QED
  BY <1>2, <1>3, <1>4

-----------------------------------------------------------------------------
(* Each step. *)

TypeInv == Types /\ Holders /\ Others

LEMMA BeginType ==
    ASSUME TypeInv, BootWithoutNetwork \/ RunTask \/ OfferChanges
                    \/ \E p \in KeyboxCommands : Command(p)
    PROVE  TypeInv'
<1> USE DEF TypeInv
<1>1. CASE BootWithoutNetwork
  BY <1>1 DEF BootWithoutNetwork, Types, Holders, Others, budgets
<1>2. CASE OfferChanges
  <2>1. offers' \in 0 .. MaxOffers
    BY <1>2, KeyboxAssumption DEF OfferChanges, Others
  <2>2. offer' \in [UsableSources -> Keyboxes \cup {Nil}]
    BY <1>2 DEF OfferChanges, Others
  <2> QED
    BY <1>2, <2>1, <2>2 DEF OfferChanges, Types, Holders, Others
<1>3. CASE RunTask
  <2> DEFINE left == IF boot_done THEN 0 ELSE BootRetries
             job == [Idle EXCEPT !.at = "start", !.task = "fetch", !.tries = left]
  <2>1. left \in 0 .. BootRetries
    BY KeyboxAssumption
  <2>2. job \in Jobs
    BY <2>1, IdleType, FieldTypes
  <2>3. job.at = "start" /\ KeyboxDaemon \in Users /\ fetcher' = [fetcher EXCEPT ![KeyboxDaemon] = job]
    BY <1>3 DEF RunTask, Idle, Users
  <2>4. fetcher[KeyboxDaemon].at \notin Writing /\ job.at \notin Writing
    BY <1>3, <2>3 DEF RunTask, Writing
  <2>5. Types' /\ Holders'
    BY <1>3, <2>2, <2>3, <2>4, JobOnlyType DEF RunTask
  <2> QED
    BY <1>3, <2>5 DEF RunTask, Others, budgets
<1>4. ASSUME NEW p \in KeyboxCommands, Command(p) PROVE TypeInv'
  <2>1. p \in Users /\ fetcher[p].at \notin Writing /\ UNCHANGED <<files, handle>>
    BY <1>4 DEF Command, Users, Writing
  <2>2. PICK job : /\ fetcher' = [fetcher EXCEPT ![p] = job]
                   /\ \/ job = [Idle EXCEPT !.at = "start", !.task = "fetch"]
                      \/ \E k \in Sound :
                           job = [Idle EXCEPT !.at = "check", !.task = "set_custom", !.data = k]
                      \/ job = [Idle EXCEPT !.at = "check", !.task = "generate", !.data = Generated]
                      \/ job = [Idle EXCEPT !.at = "check", !.task = "backup"]
    BY <1>4 DEF Command
  <2>3. job \in Jobs
    <3>1. {"start", "check"} \subseteq InstallSteps \cup {"idle", "start", "source"}
      BY DEF InstallSteps
    <3>2. Sound \subseteq Keyboxes \cup {Nil} /\ Generated \in Keyboxes \cup {Nil}
      BY KeyboxAssumption
    <3>3. CASE job = [Idle EXCEPT !.at = "start", !.task = "fetch"]
      BY <3>1, <3>3, IdleType, FieldTypes
    <3>6. CASE job = [Idle EXCEPT !.at = "check", !.task = "backup"]
      BY <3>1, <3>6, IdleType, FieldTypes
    <3>4. ASSUME NEW k \in Sound,
                 job = [Idle EXCEPT !.at = "check", !.task = "set_custom", !.data = k]
          PROVE  job \in Jobs
      BY <3>1, <3>2, <3>4, IdleType, FieldTypes
    <3>5. CASE job = [Idle EXCEPT !.at = "check", !.task = "generate", !.data = Generated]
      BY <3>1, <3>2, <3>5, IdleType, FieldTypes
    <3> QED
      BY <2>2, <3>3, <3>4, <3>5, <3>6
  <2>4. job.at \notin Writing
    BY <2>2 DEF Idle, Writing
  <2>5. Types' /\ Holders'
    BY <2>1, <2>2, <2>3, <2>4, JobOnlyType
  <2>6. commands' \in 0 .. MaxCommands
    <3>1. commands < MaxCommands /\ commands' = commands + 1 /\ commands \in 0 .. MaxCommands
      BY <1>4 DEF Command, Others
    <3> QED
      BY <3>1, KeyboxAssumption
  <2> QED
    BY <1>4, <2>5, <2>6 DEF Command, Others
<1> QED
  BY <1>1, <1>2, <1>3, <1>4

\* A step that reads, and chooses what to do next.
LEMMA LookType ==
    ASSUME TypeInv, NEW p \in Users,
           \/ ReadHash(p) \/ NextSource(p) \/ Identical(p) \/ TakeSource(p)
           \/ OutOfSources(p) \/ Check(p)
    PROVE  TypeInv'
<1>0. Types /\ Holders /\ Others /\ fetcher[p] \in Jobs /\ UNCHANGED <<files, handle, offer>>
  BY DEF TypeInv, Types, ReadHash, NextSource, Identical, TakeSource, OutOfSources, Check
<1>1. fetcher[p].at \notin Writing
  BY DEF ReadHash, NextSource, Identical, TakeSource, OutOfSources, Check, Writing
<1>2. CASE ReadHash(p)
  <2>1. PICK seen \in {files[Target], Nil} :
          /\ seen # files[Target] => faults < MaxFaults
          /\ faults' = IF seen = files[Target] THEN faults ELSE faults + 1
          /\ fetcher' = [fetcher EXCEPT ![p].at = "source", ![p].left = SourceOrder,
                                        ![p].seen = seen]
    BY <1>2 DEF ReadHash
  <2> DEFINE job == [fetcher[p] EXCEPT !.at = "source", !.left = SourceOrder, !.seen = seen]
  <2>2. seen \in Contents
    BY <1>0 DEF Types, Contents, Names
  <2>3. job \in Jobs
    BY <1>0, <2>2, FieldTypes, OrderAssumption
  <2>4. fetcher' = [fetcher EXCEPT ![p] = job] /\ job.at = "source"
    BY <1>0, <2>1 DEF Types, Jobs
  <2>5. Types' /\ Holders'
    BY <1>0, <1>1, <2>3, <2>4, JobOnlyType DEF Writing
  <2>6. faults' \in 0 .. MaxFaults
    BY <1>0, <2>1, KeyboxAssumption DEF Others
  <2> QED
    BY <1>0, <1>2, <2>5, <2>6 DEF TypeInv, Others, ReadHash
<1>3. CASE NextSource(p)
  <2> DEFINE job == [fetcher[p] EXCEPT !.left = Tail(fetcher[p].left)]
  <2>1. Tail(fetcher[p].left) \in Seq(SourceSet)
    BY <1>0, <1>3 DEF NextSource, Jobs
  <2>2. job \in Jobs
    BY <1>0, <2>1 DEF Jobs
  <2>3. job.at = "source" /\ fetcher' = [fetcher EXCEPT ![p] = job]
    BY <1>0, <1>3 DEF NextSource, Types, Jobs
  <2>4. Types' /\ Holders'
    BY <1>0, <1>1, <2>2, <2>3, JobOnlyType DEF Writing
  <2> QED
    BY <1>0, <1>3, <2>4 DEF TypeInv, Others, NextSource, budgets
<1>4. CASE TakeSource(p)
  <2> DEFINE k == offer[Head(fetcher[p].left)]
             job == [fetcher[p] EXCEPT !.at = "check", !.left = <<>>, !.seen = Nil, !.data = k]
  <2>1. k \in Keyboxes \cup {Nil}
    BY <1>4, KeyboxAssumption DEF TakeSource, Offers
  <2>2. Nil \in Contents /\ <<>> \in Seq(SourceSet) /\ "check" \in InstallSteps
    BY DEF Contents, InstallSteps
  <2>3. job \in Jobs
    BY <1>0, <2>1, <2>2, FieldTypes
  <2>4. job.at = "check" /\ fetcher' = [fetcher EXCEPT ![p] = job]
    BY <1>0, <1>4 DEF TakeSource, Types, Jobs
  <2>5. Types' /\ Holders'
    BY <1>0, <1>1, <2>3, <2>4, JobOnlyType DEF Writing
  <2> QED
    BY <1>0, <1>4, <2>5 DEF TypeInv, Others, TakeSource, budgets
<1>5. CASE (Identical(p) \/ OutOfSources(p) \/ Check(p)) /\ (GiveUp(p) \/ Finish(p))
  <2>1. Types' /\ Holders' /\ boot_done' \in BOOLEAN
    BY <1>0, <1>1, <1>5, EndedTypes
  <2>2. UNCHANGED budgets
    BY <1>5 DEF Identical, OutOfSources, Check
  <2> QED
    BY <1>0, <2>1, <2>2 DEF TypeInv, Others, budgets
<1>6. CASE Check(p) /\ Goto(p, AfterCheck(p)) /\ UNCHANGED boot_done
  <2>1. AfterCheck(p) \in {"open", "rotate", "copy"}
    BY DEF AfterCheck
  <2>2. PICK job \in Jobs : fetcher' = [fetcher EXCEPT ![p] = job] /\ job.at = AfterCheck(p)
    BY <1>0, <1>6, <2>1, GotoType DEF InstallSteps
  <2>3. Types' /\ Holders'
    BY <1>0, <1>1, <2>1, <2>2, JobOnlyType DEF Writing
  <2> QED
    BY <1>0, <1>6, <2>3 DEF TypeInv, Others, Check, budgets
<1> QED
  BY <1>2, <1>3, <1>4, <1>5, <1>6 DEF Identical, OutOfSources, Check

\* A step that leaves the budgets and the sources as they are.
LEMMA FileStepType ==
    ASSUME TypeInv, Types', Holders', boot_done' \in BOOLEAN, UNCHANGED <<offer, budgets>>
    PROVE  TypeInv'
BY DEF TypeInv, Others, budgets

LEMMA CopyType ==
    ASSUME TypeInv, NEW p \in Users, Rotate(p) \/ CopyOpen(p) \/ CopyFill(p)
    PROVE  TypeInv'
<1>0. Types /\ Holders /\ Others /\ fetcher[p] \in Jobs /\ boot_done \in BOOLEAN
  BY DEF TypeInv, Types, Others
<1>1. CASE Rotate(p) /\ files[Bak] = Nil
  <2>1. GiveUp(p) /\ UNCHANGED <<files, handle>> /\ fetcher[p].at \notin Writing
    BY <1>1 DEF Rotate, Writing
  <2>2. Types' /\ Holders' /\ boot_done' \in BOOLEAN
    BY <1>0, <2>1, EndedTypes
  <2> QED
    BY <1>1, <2>2, FileStepType DEF Rotate
<1>2. CASE Rotate(p) /\ files[Bak] # Nil
  <2>1. Move(Bak, Bak1) /\ Goto(p, "copy") /\ boot_done' = boot_done /\ fetcher[p].at = "rotate"
    BY <1>2 DEF Rotate
  <2>2. Bak \in Names /\ Bak1 \in Names /\ Bak # Bak1
    BY DEF Names, Bak, Bak1
  <2>3. PICK job \in Jobs : fetcher' = [fetcher EXCEPT ![p] = job] /\ job.at = "copy"
    BY <1>0, <2>1, GotoType DEF InstallSteps
  <2>4. /\ files' \in [Names -> Contents] /\ handle' \in [Users -> Handles]
        /\ \A q \in Users : handle'[q] = Nil <=> handle[q] = Nil
    BY <1>0, <2>1, <2>2, MoveType
  <2>5. job.at \in Writing <=> handle'[p] # Nil
    BY <1>0, <2>1, <2>3, <2>4 DEF Holders, Writing
  <2>6. Types' /\ Holders'
    BY <1>0, <2>3, <2>4, <2>5, JobStepType
  <2> QED
    BY <1>0, <1>2, <2>1, <2>6, FileStepType DEF Rotate
<1>3. CASE CopyOpen(p)
  <2> DEFINE job == [fetcher[p] EXCEPT !.at = "fill", !.seen = files[Target]]
  <2>1. files[Target] \in Contents /\ Bak \in Names
    BY <1>0 DEF Types, Names
  <2>2. job \in Jobs
    BY <1>0, <2>1, FieldTypes DEF InstallSteps
  <2>3. job.at = "fill" /\ fetcher' = [fetcher EXCEPT ![p] = job]
    BY <1>0, <1>3 DEF CopyOpen, Types, Jobs
  <2>4. /\ files' \in [Names -> Contents] /\ handle' \in [Users -> Handles] /\ handle'[p] # Nil
        /\ \A q \in Users \ {p} : handle'[q] = handle[q]
    BY <1>0, <1>3, <2>1, OpenType DEF CopyOpen
  <2>5. Types' /\ Holders'
    BY <1>0, <2>2, <2>3, <2>4, JobStepType DEF Writing
  <2> QED
    BY <1>0, <1>3, <2>5, FileStepType DEF CopyOpen
<1>4. CASE CopyFill(p)
  <2>1. fetcher[p].seen \in Contents
    BY <1>0 DEF Jobs
  <2>2. /\ files' \in [Names -> Contents] /\ handle' \in [Users -> Handles] /\ handle'[p] = Nil
        /\ \A q \in Users \ {p} : handle'[q] = handle[q]
    BY <1>0, <1>4, <2>1, WrittenType, DeliverType DEF CopyFill
  <2>3. boot_done' \in BOOLEAN /\ \E job \in Jobs : /\ fetcher' = [fetcher EXCEPT ![p] = job]
                                                    /\ job.at \in {"idle", "start", "open"}
    <3>1. CASE Finish(p)
      BY <1>0, <3>1, EndedType
    <3>2. CASE fetcher' = [fetcher EXCEPT ![p].at = "open", ![p].seen = Nil] /\ UNCHANGED boot_done
      <4> DEFINE job == [fetcher[p] EXCEPT !.at = "open", !.seen = Nil]
      <4>1. job \in Jobs
        BY <1>0, FieldTypes DEF InstallSteps, Contents
      <4>2. job.at = "open" /\ fetcher' = [fetcher EXCEPT ![p] = job]
        BY <1>0, <3>2 DEF Types, Jobs
      <4> QED
        BY <1>0, <3>2, <4>1, <4>2
    <3> QED
      BY <1>4, <3>1, <3>2 DEF CopyFill
  <2>4. Types' /\ Holders'
    BY <1>0, <2>2, <2>3, JobStepType DEF Writing
  <2> QED
    BY <1>4, <2>3, <2>4, FileStepType DEF CopyFill
<1> QED
  BY <1>1, <1>2, <1>3, <1>4

LEMMA InstallType ==
    ASSUME TypeInv, NEW p \in Users, OpenTmp(p) \/ WriteTmp(p) \/ RenameTmp(p)
    PROVE  TypeInv'
<1>0. Types /\ Holders /\ Others /\ fetcher[p] \in Jobs /\ boot_done \in BOOLEAN
  BY DEF TypeInv, Types, Others
<1>1. CASE OpenTmp(p)
  <2>1. Tmp \in Names /\ OpenTruncated(p, Tmp) /\ Goto(p, "write")
    BY <1>1 DEF OpenTmp, Names
  <2>2. PICK job \in Jobs : fetcher' = [fetcher EXCEPT ![p] = job] /\ job.at = "write"
    BY <1>0, <2>1, GotoType DEF InstallSteps
  <2>3. Types' /\ Holders'
    BY <1>0, <2>1, <2>2, OpenType, JobStepType DEF Writing
  <2> QED
    BY <1>0, <1>1, <2>3, FileStepType DEF OpenTmp
<1>2. CASE WriteTmp(p)
  <2>1. fetcher[p].data \in Contents
    BY <1>0 DEF Jobs, Contents
  <2>2. /\ files' \in [Names -> Contents] /\ handle' \in [Users -> Handles] /\ handle'[p] = Nil
        /\ \A q \in Users \ {p} : handle'[q] = handle[q]
    BY <1>0, <1>2, <2>1, WrittenType, DeliverType DEF WriteTmp
  <2>3. PICK job \in Jobs : fetcher' = [fetcher EXCEPT ![p] = job] /\ job.at = "rename"
    BY <1>0, <1>2, GotoType DEF WriteTmp, InstallSteps
  <2>4. Types' /\ Holders'
    BY <1>0, <2>2, <2>3, JobStepType DEF Writing
  <2> QED
    BY <1>0, <1>2, <2>4, FileStepType DEF WriteTmp
<1>3. CASE RenameTmp(p) /\ files[Tmp] = Nil
  <2>1. GiveUp(p) /\ UNCHANGED <<files, handle>> /\ fetcher[p].at \notin Writing
    BY <1>3 DEF RenameTmp, Writing
  <2>2. Types' /\ Holders' /\ boot_done' \in BOOLEAN
    BY <1>0, <2>1, EndedTypes
  <2> QED
    BY <1>3, <2>2, FileStepType DEF RenameTmp
<1>4. CASE RenameTmp(p) /\ files[Tmp] # Nil
  <2>1. Move(Tmp, Target) /\ Finish(p) /\ fetcher[p].at = "rename"
    BY <1>4 DEF RenameTmp
  <2>2. Tmp \in Names /\ Target \in Names /\ Tmp # Target
    BY DEF Names, Tmp, Target
  <2>3. PICK job \in Jobs : fetcher' = [fetcher EXCEPT ![p] = job] /\ job.at \in {"idle", "start"}
    BY <1>0, <2>1, EndedType
  <2>4. boot_done' \in BOOLEAN
    BY <1>0, <2>1, EndedType
  <2>5. /\ files' \in [Names -> Contents] /\ handle' \in [Users -> Handles]
        /\ \A q \in Users : handle'[q] = Nil <=> handle[q] = Nil
    BY <1>0, <2>1, <2>2, MoveType
  <2>6. job.at \in Writing <=> handle'[p] # Nil
    BY <1>0, <2>1, <2>3, <2>5 DEF Holders, Writing
  <2>7. Types' /\ Holders'
    BY <1>0, <2>3, <2>5, <2>6, JobStepType
  <2> QED
    BY <1>4, <2>4, <2>7, FileStepType DEF RenameTmp
<1> QED
  BY <1>1, <1>2, <1>3, <1>4

LEMMA FaultType ==
    ASSUME TypeInv, NEW p \in Users, OperationFails(p) \/ Killed(p)
    PROVE  TypeInv'
<1>0. Types /\ Holders /\ Others /\ boot_done \in BOOLEAN
  BY DEF TypeInv, Types, Others
<1>1. faults' \in 0 .. MaxFaults
  <2>1. faults < MaxFaults /\ faults' = faults + 1 /\ faults \in 0 .. MaxFaults
    BY <1>0 DEF OperationFails, Killed, Others
  <2> QED
    BY <2>1, KeyboxAssumption
<1>2. UNCHANGED <<offer, offers, commands>>
  BY DEF OperationFails, Killed
<1>3. CASE OperationFails(p)
  <2>1. boot_done' \in BOOLEAN /\ \E job \in Jobs : /\ fetcher' = [fetcher EXCEPT ![p] = job]
                                                    /\ job.at \in {"idle", "start"}
    BY <1>0, <1>3, EndedType DEF OperationFails
  <2>2. CASE fetcher[p].at \in Writing
    <3>1. Deliver(p, {Held(p), Torn})
      BY <1>3, <2>2 DEF OperationFails
    <3>2. /\ files' \in [Names -> Contents] /\ handle' \in [Users -> Handles] /\ handle'[p] = Nil
          /\ \A q \in Users \ {p} : handle'[q] = handle[q]
      BY <1>0, <3>1, WrittenType, DeliverType
    <3>3. Types' /\ Holders'
      BY <1>0, <2>1, <3>2, JobStepType DEF Writing
    <3> QED
      BY <1>0, <1>1, <1>2, <2>1, <3>3 DEF TypeInv, Others
  <2>3. CASE fetcher[p].at \notin Writing
    <3>1. GiveUp(p) /\ UNCHANGED <<files, handle>>
      BY <1>3, <2>3 DEF OperationFails
    <3>2. Types' /\ Holders'
      BY <1>0, <2>3, <3>1, EndedTypes
    <3> QED
      BY <1>0, <1>1, <1>2, <2>1, <3>2 DEF TypeInv, Others
  <2> QED
    BY <2>2, <2>3
<1>4. CASE Killed(p)
  <2>1. boot_done' \in BOOLEAN
    BY <1>4, Zenon DEF Killed
  <2>2. /\ files' \in [Names -> Contents] /\ handle' \in [Users -> Handles] /\ handle'[p] = Nil
        /\ \A q \in Users \ {p} : handle'[q] = handle[q]
    BY <1>0, <1>4 DEF Killed, Types, Handles
  <2>3. fetcher' = [fetcher EXCEPT ![p] = Idle] /\ Idle.at \notin Writing
    BY <1>4 DEF Killed, Idle, Writing
  <2>4. Types' /\ Holders'
    BY <1>0, <2>2, <2>3, IdleType, JobStepType
  <2> QED
    BY <1>0, <1>1, <1>2, <2>1, <2>4 DEF TypeInv, Others
<1> QED
  BY <1>3, <1>4

LEMMA TypeInvInit == KeyboxInit => TypeInv
<1> SUFFICES ASSUME KeyboxInit PROVE TypeInv
  OBVIOUS
<1>1. files \in [Names -> Contents]
  BY KeyboxAssumption DEF KeyboxInit, Contents
<1>2. handle \in [Users -> Handles] /\ fetcher \in [Users -> Jobs]
  BY IdleType DEF KeyboxInit, Handles
<1>3. \A p \in Users : fetcher[p].at \notin Writing /\ handle[p] = Nil
  BY DEF KeyboxInit, Idle, Writing
<1>4. Others
  <2>1. offers = 0 /\ commands = 0 /\ faults = 0 /\ boot_done = FALSE
        /\ offer \in [UsableSources -> Keyboxes \cup {Nil}]
    BY DEF KeyboxInit
  <2>2. MaxOffers \in Nat /\ MaxCommands \in Nat /\ MaxFaults \in Nat
    BY KeyboxAssumption
  <2>3. offers \in 0 .. MaxOffers /\ commands \in 0 .. MaxCommands /\ faults \in 0 .. MaxFaults
    BY <2>1, <2>2
  <2> QED
    BY <2>1, <2>3 DEF Others
<1> QED
  BY <1>1, <1>2, <1>3, <1>4 DEF TypeInv, Types, Holders

LEMMA TypeInvStep ==
    ASSUME TypeInv, [KeyboxNext]_keyboxVars
    PROVE  TypeInv'
<1>1. CASE KeyboxActions
  <2>1. ASSUME NEW p \in Users, JobStep(p) PROVE TypeInv'
    BY <2>1, LookType, CopyType, InstallType DEF JobStep
  <2>2. ASSUME NEW p \in Users, OperationFails(p) \/ Killed(p) PROVE TypeInv'
    BY <2>2, FaultType
  <2> QED
    BY <1>1, <2>1, <2>2, BeginType DEF KeyboxActions
<1>2. CASE UNCHANGED keyboxVars
  BY <1>2 DEF keyboxVars, budgets, TypeInv, Types, Holders, Others
<1> QED
  BY <1>1, <1>2 DEF KeyboxNext

\* The history is about processes.
LEMMA HistoryType ==
    ASSUME overlapped \in BOOLEAN, crossed \subseteq Users, [KeyboxNext]_keyboxVars
    PROVE  overlapped' \in BOOLEAN /\ crossed' \subseteq Users
<1>1. overlapped' \in BOOLEAN
  BY Zenon DEF KeyboxNext, KeyboxHistory, keyboxVars
<1>2. crossed' \subseteq Users
  BY DEF KeyboxNext, KeyboxHistory, keyboxVars
<1> QED
  BY <1>1, <1>2

\* Names, jobs and counters keep their types, and a process has a file open
\* exactly while it writes one, for any number of processes.
THEOREM KeyboxTypeCorrect == KeyboxSpec => []KeyboxTypeOK
<1> DEFINE Inv == TypeInv /\ overlapped \in BOOLEAN /\ crossed \subseteq Users
<1>1. KeyboxInit => Inv
  BY TypeInvInit DEF KeyboxInit
<1>2. Inv /\ [KeyboxNext]_keyboxVars => Inv'
  BY TypeInvStep, HistoryType
<1>3. Inv => KeyboxTypeOK
  <2> SUFFICES ASSUME Inv PROVE KeyboxTypeOK
    OBVIOUS
  <2>1. \A p \in Users : fetcher[p] \in Jobs
    BY DEF TypeInv, Types
  <2>2. \A p \in Users :
         /\ fetcher[p].at \in InstallSteps \cup {"idle", "start", "source"}
         /\ fetcher[p].task \in {"none", "fetch", "set_custom", "generate", "backup"}
         /\ fetcher[p].left \in Seq(SourceSet)
         /\ fetcher[p].seen \in Contents /\ fetcher[p].data \in Keyboxes \cup {Nil}
         /\ fetcher[p].tries \in 0..BootRetries
    BY <2>1 DEF Jobs
  <2> QED
    BY <2>2 DEF TypeInv, Types, Holders, Others, Handles, KeyboxTypeOK
<1> QED
  BY <1>1, <1>2, <1>3, PTL DEF KeyboxSpec

-----------------------------------------------------------------------------
(* What makes a keybox acceptable. *)

\* A set of numbers that is not empty has a least one.
LEMMA LeastOf ==
    ASSUME NEW T \in SUBSET Nat, T # {}
    PROVE  \E n \in T : \A m \in T : ~(m < n)
<1>1. PICK n \in T : \A m \in T : ~(<<m, n>> \in OpToRel(<, Nat))
  BY NatLessThanWellFounded, WFMin
<1> QED
  BY <1>1 DEF OpToRel

\* From an anchored root, trust comes down a chain of any length whose every
\* link verifies.
LEMMA TrustDescends ==
    ASSUME NEW certs \in Seq(Certificates), Len(certs) > 0,
           verify_chain(certs), certs[Len(certs)].key \in Anchors
    PROVE  VouchedFor(Head(certs).key, {certs[i] : i \in DOMAIN certs})
<1> DEFINE elements == {certs[i] : i \in DOMAIN certs}
<1> SUFFICES ASSUME NEW trusted \in SUBSET {c.key : c \in elements},
                    \A c \in elements :
                        c.key \in Anchors \/ c.signer \in trusted \cup Anchors => c.key \in trusted
             PROVE  Head(certs).key \in trusted
  BY DEF VouchedFor
<1> DEFINE Doubtful == {j \in Nat : j < Len(certs) /\ certs[Len(certs) - j].key \notin trusted}
<1>0. Len(certs) \in Nat /\ DOMAIN certs = 1 .. Len(certs) /\ Head(certs) = certs[1]
  OBVIOUS
<1>1. Doubtful = {}
  <2> SUFFICES ASSUME Doubtful # {} PROVE FALSE
    OBVIOUS
  <2>1. PICK j \in Doubtful : \A m \in Doubtful : ~(m < j)
    BY LeastOf
  <2>2. j # 0
    <3>1. certs[Len(certs)] \in elements
      BY <1>0
    <3>2. certs[Len(certs)].key \in trusted
      BY <3>1
    <3> QED
      BY <1>0, <3>2
  <2>3. j - 1 \in Nat /\ j - 1 < Len(certs) /\ j - 1 < j
    BY <1>0, <2>2
  <2> DEFINE i == Len(certs) - j
  <2>4. i \in 1 .. Len(certs) - 1 /\ i + 1 = Len(certs) - (j - 1)
    BY <1>0, <2>1, <2>2
  <2>5. certs[i + 1].key \in trusted
    <3>1. j - 1 \notin Doubtful
      BY <2>1, <2>3
    <3> QED
      BY <2>3, <2>4, <3>1
  <2>6. certs[i].signer = certs[i + 1].key
    BY <2>4 DEF verify_chain, verify_link, verify_signature
  <2>7. certs[i] \in elements
    BY <1>0, <2>4
  <2>8. certs[i].key \in trusted
    BY <2>5, <2>6, <2>7
  <2> QED
    BY <2>1, <2>8
<1>2. Len(certs) - 1 \notin Doubtful
  BY <1>1
<1> QED
  BY <1>0, <1>2

\* The elements of a chain that decodes.
LEMMA DecodedChain ==
    ASSUME NEW certs \in Seq(Certificates \cup {Unusable}), Decodes(certs)
    PROVE  certs \in Seq(Certificates)
<1>1. certs = [i \in 1 .. Len(certs) |-> certs[i]] /\ Len(certs) \in Nat
  OBVIOUS
<1>2. \A i \in 1 .. Len(certs) : certs[i] \in Certificates
  BY DEF Decodes
<1> QED
  BY <1>1, <1>2

\* A key that check_key lets pass is one to trust.
LEMMA PassedKey ==
    ASSUME NEW key, Pems(key) \in Seq(Certificates \cup {Unusable}),
           NEW time \in Times, NEW revoked, check_key(key, time, revoked).ok
    PROVE  Trustworthy(key, time)
<1> DEFINE certs == Pems(key)
           leaf  == Head(certs)
           root  == certs[Len(certs)]
<1>1. certs # <<>> /\ Decodes(certs)
  BY DEF check_key, FailedKey
<1>2. CheckChain(certs, key.private, time, revoked).ok
  BY <1>1 DEF check_key
<1> HIDE DEF certs
<1>3. /\ Len(certs) >= 2 /\ verify_chain(certs)
      /\ check_validity(leaf, time)
      /\ detect_root_type(root) # "unknown"
      /\ match_private_key(key.private, leaf) # "mismatched"
  BY <1>2 DEF CheckChain
<1>4. certs \in Seq(Certificates)
  BY <1>1, DecodedChain DEF certs
<1>5. Len(certs) \in Nat /\ leaf \in Certificates
  BY <1>3, <1>4
<1>6. VouchedFor(leaf.key, {certs[i] : i \in DOMAIN certs})
  <2>1. root.key \in Anchors
    BY <1>3 DEF detect_root_type
  <2> QED
    <3>1. Len(certs) > 0
      BY <1>3, <1>5
    <3> QED
      BY <1>3, <1>4, <2>1, <3>1, TrustDescends
<1>7. time \in leaf.not_before .. leaf.not_after \/ time < PreNtp
  <2>1. leaf.not_before \in Int /\ leaf.not_after \in Int /\ time \in Nat /\ PreNtp \in Nat
    BY <1>5, ValidationAssumption
  <2> QED
    BY <1>3, <2>1 DEF check_validity
<1>8. key.private \in {leaf.key, Absent}
  BY <1>3 DEF match_private_key
<1> QED
  BY <1>1, <1>6, <1>7, <1>8 DEF Trustworthy, certs

\* So is some key of a file that validate_full finds in order.
LEMMA PassedFile ==
    ASSUME NEW doc \in Documents, NEW time \in Times, NEW list, validate_full(doc, time, list).ok
    PROVE  \E p \in Positions(doc) : Trustworthy(KeyAt(doc, p[1], p[2]), time)
<1> DEFINE revoked == IF list = "online" THEN RevokedOnline ELSE RevokedEmbedded
<1>1. PICK p \in Positions(doc) : check_key(KeyAt(doc, p[1], p[2]), time, revoked).ok
  BY DEF validate_full
<1>2. Pems(KeyAt(doc, p[1], p[2])) \in Seq(Certificates \cup {Unusable})
  BY DocumentsAssumption
<1> QED
  BY <1>1, <1>2, PassedKey

\* What fetch, set-custom and has_valid_existing_keybox take has a key to trust,
\* for every file, however long its chains, and every time (validate).
THEOREM TakenIsTrusted ==
    \A doc \in Documents, time \in Times :
        Accepts(doc, time) => \E p \in Positions(doc) : Trustworthy(KeyAt(doc, p[1], p[2]), time)
BY PassedFile DEF Accepts

-----------------------------------------------------------------------------
(* The process that validates. *)

\* The report is about the file and the time it was made for.
ReportInv ==
    /\ document \in Documents /\ now \in Times
    /\ revocations \in {Absent, "online", "embedded"}
    /\ report # Absent =>
         \E list \in {"online", "embedded"} : report = validate_full(document, now, list)

LEMMA ReportInvStep ==
    ASSUME ReportInv, [ValidationNext]_validationVars
    PROVE  ReportInv'
<1> USE DEF ReportInv
<1>1. CASE Validate
  <2>1. document' = document /\ now' = now
    BY <1>1 DEF Validate
  <2>2. CASE report' = Absent /\ UNCHANGED revocations
    BY <2>1, <2>2
  <2>3. CASE \E list \in IF revocations = Absent THEN {"online", "embedded"} ELSE {revocations} :
               /\ revocations' = list
               /\ report' = IF NoReport(document) THEN Absent
                            ELSE validate_full(document, now, list)
    <3>1. PICK list \in {"online", "embedded"} :
            /\ revocations' = list
            /\ report' = IF NoReport(document) THEN Absent
                         ELSE validate_full(document, now, list)
      BY <2>3
    <3> QED
      BY <2>1, <3>1
  <2> QED
    BY <1>1, <2>2, <2>3 DEF Validate
<1>2. CASE CacheExpires \/ UNCHANGED validationVars
  BY <1>2 DEF CacheExpires, validationVars
<1> QED
  BY <1>1, <1>2 DEF ValidationNext

LEMMA ReportInvAlways == ValidationSpec => []ReportInv
<1>1. ValidationInit => ReportInv
  BY DEF ValidationInit, ReportInv
<1>2. ReportInv /\ [ValidationNext]_validationVars => ReportInv'
  BY ReportInvStep
<1> QED
  BY <1>1, <1>2, PTL DEF ValidationSpec

\* What a report says of each key.
LEMMA KeyReportType ==
    ASSUME NEW key, NEW time, NEW revoked
    PROVE  LET r == check_key(key, time, revoked)
           IN  /\ r.root_type \in {"google", "aosp_ec", "aosp_rsa", "knox", "unknown"}
               /\ r.key_match \in {"matched", "mismatched", "skipped"}
<1> DEFINE certs == Pems(key)
<1>1. CASE check_key(key, time, revoked) = FailedKey
  BY <1>1 DEF FailedKey
<1>2. CASE check_key(key, time, revoked) = CheckChain(certs, key.private, time, revoked)
  <2>1. detect_root_type(certs[Len(certs)])
           \in {"google", "aosp_ec", "aosp_rsa", "knox", "unknown"}
    BY ValidationAssumption DEF detect_root_type
  <2>2. match_private_key(key.private, Head(certs)) \in {"matched", "mismatched", "skipped"}
    BY DEF match_private_key
  <2> QED
    BY <1>2, <2>1, <2>2 DEF CheckChain
<1> QED
  BY <1>1, <1>2 DEF check_key

THEOREM ValidationTypeCorrect == ValidationSpec => []ValidationTypeOK
<1>1. ReportInv => ValidationTypeOK
  <2> SUFFICES ASSUME ReportInv PROVE ValidationTypeOK
    OBVIOUS
  <2>1. document.readable \in BOOLEAN
    BY DocumentsAssumption DEF ReportInv
  <2>2. ASSUME report # Absent, NEW p \in Positions(document)
        PROVE  /\ report.source \in {"online", "embedded"}
               /\ report.keys[p].root_type \in {"google", "aosp_ec", "aosp_rsa", "knox", "unknown"}
               /\ report.keys[p].key_match \in {"matched", "mismatched", "skipped"}
    BY <2>2, KeyReportType DEF ReportInv, validate_full
  <2>3. report # Absent => report.source \in {"online", "embedded"}
    BY DEF ReportInv, validate_full
  <2> QED
    BY <2>1, <2>2, <2>3 DEF ReportInv, ValidationTypeOK
<1> QED
  BY <1>1, ReportInvAlways, PTL

\* A report that finds the file in order speaks of a file with a key to trust.
THEOREM PassedReportIsTrusted == ValidationSpec => []AcceptedIsTrusted
<1>1. ReportInv => AcceptedIsTrusted
  BY PassedFile DEF ReportInv, AcceptedIsTrusted
<1> QED
  BY <1>1, ReportInvAlways, PTL
=============================================================================
