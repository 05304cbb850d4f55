--------------------------- MODULE SnapshotsProofs ---------------------------
(***************************************************************************)
(* Theorems about Snapshots, for any tasks, names and snapshots by hand.   *)
(*                                                                         *)
(* vSphere's side: the snapshots are a forest (Forest), a task that runs   *)
(* has taken none yet (Listed), and of the tasks that run at most one is   *)
(* not turned away (OneUnblocked).  The worker's side: what the look-up    *)
(* saw still holds when the task starts (Sight) and when it ends (Aimed),  *)
(* up to what orphans and other people did.  The names are unique because  *)
(* a task that is to take a snapshot will take the first one of its name   *)
(* (Apart, Coming), and a success is true because the task that brought it *)
(* was aimed at the request (Effect).                                      *)
(***************************************************************************)
EXTENDS Snapshots, TLAPS

Operation ==
    [name : SnapshotOps \union {DeleteOp}, at : WrapperPlace \union {"ready", "task"},
     retry : BOOLEAN, outcome : Outcome]

Snapshot == [name : Name \union {NoName}, parent : MaybeObject]

Job ==
    [kind : SnapshotOps \union {DeleteOp, "none"}, snap : MaybeObject,
     name : Name \union {NoName}, blocked : BOOLEAN]

OpTypes ==
    /\ WaitTypeOK
    /\ op \in Operation
    /\ orphans \in SUBSET Task /\ dropped \in SUBSET Task

TreeTypes ==
    /\ snap \in [Object -> Snapshot]
    /\ current \in Present \union {NoTask}
    /\ job \in [Task -> Job]
    /\ request \in Request
    /\ found \in MaybeObject
    /\ meddled \in BOOLEAN

\* Parents are there, and in any set of snapshots one has its parent outside.
Forest ==
    /\ \A s \in Present : snap[s].parent \in Present \union {NoTask}
    /\ \A S \in SUBSET Present :
          S # {} => \E s \in S : snap[s].parent \notin S

Places ==
    /\ op.at \in {"idle", "dispatch", "body", "ready"} => wait = NotWaiting
    /\ op.at = "deferred" => wait.at \notin {"none", "save"}
    /\ op.at = "task" => wait.at \notin {"none", "lookup"}
    /\ op.outcome # "none" => op.at = "idle"

Holding ==
    /\ wait.at # "none" => wait.task \in Task
    /\ wait.at \in {"lookup", "poll", "timeout"} => props.task = wait.task
    /\ wait.at \in {"save", "failed", "record", "returned"} => props.task = NoTask
    /\ wait.at = "record" => wait.key \in Key
    /\ op.at \in {"body", "ready"} \/ op.outcome = "ok" => props.task = NoTask
    /\ op.at = "task" /\ wait.at \in {"record", "returned"} => task[wait.task] = "success"

Listed ==
    /\ Unfinished \subseteq recent
    /\ \A t \in Task : task[t] = "unused" =>
          t \notin orphans /\ t # props.task /\ t # wait.task

\* Lost tasks apart, only the one the instance knows of runs.
Tracked ==
    \A t \in Unfinished \ orphans :
        \/ props.task = t
        \/ wait.at = "save" /\ wait.task = t

Protocol == OpTypes /\ Places /\ Holding /\ Listed /\ Tracked

Begun == op.at # "idle" \/ op.outcome # "none"

\* A task that runs has not taken its snapshot; before the first operation none runs.
Taken ==
    /\ Present \cap Task \subseteq Finished
    /\ Unfinished # {} => Begun

OneUnblocked ==
    \A t, u \in Unfinished : ~job[t].blocked /\ ~job[u].blocked => t = u

\* The snapshots whose names are kept apart: by hand, everything goes.
Kept == (IF Begun /\ ~meddled THEN Present ELSE Present \cap Task) \ orphans

Apart == \A s, u \in Kept : snap[s].name = snap[u].name => s = u

\* A snapshot that is being taken will be the only one of its name.
Coming ==
    \A t \in Unfinished : job[t].kind = "create" =>
        /\ job[t].name \in Name
        /\ t \notin orphans => \A s \in Kept : snap[s].name # job[t].name

Below(s) == Subtree(s) \ {s}

\* The look-up, at the time the task is about to start.
Sight ==
    op.at = "ready" =>
        /\ op.name = "create" => \A s \in Kept : snap[s].name # request.name
        /\ op.name # "create" =>
              /\ found \in Finished \union Other
              /\ ~meddled /\ found \in Present =>
                    /\ snap[found].name = request.name
                    /\ op.name = "delete_snapshot" => Below(found) \subseteq orphans

\* The look-up, as long as the task runs.
Aimed ==
    \A t \in Unfinished :
        job[t].kind # "create" /\ ~meddled /\ ~job[t].blocked =>
            /\ job[t].snap \in Present
            /\ snap[job[t].snap].name = job[t].name
            /\ job[t].kind = "delete_snapshot" => Below(job[t].snap) \subseteq orphans

InHand ==
    op.at = "task" => job[wait.task].kind = op.name /\ job[wait.task].name = request.name

Done ==
    /\ op.name = "apply" => current \in Named(request.name)
    /\ op.name = "delete_snapshot" => Named(request.name) \cap Task = {}

\* A task that ended well has done what was asked for.
Effect ==
    Undisturbed =>
        /\ op.at = "task" /\ task[wait.task] = "success" => Done
        /\ op.outcome = "ok" /\ request.wanted => Done

Tree ==
    /\ TreeTypes /\ Forest /\ Taken /\ OneUnblocked
    /\ Apart /\ Coming /\ Sight /\ Aimed /\ InHand /\ Effect

IInv == Protocol /\ Tree

-----------------------------------------------------------------------------

USE TaskWaitAssumption, NodeOperationAssumption, SnapshotsAssumption

\* The two ways an attempt ends keep the type of the operation record.
LEMMA AttemptType ==
    ASSUME op \in Operation
    PROVE  /\ \A outcome \in Outcome : EndAttempt(outcome) =>
                 /\ op' \in Operation /\ op'.at = "idle" /\ op'.outcome = outcome
                 /\ op'.name = op.name
           /\ RetryAttempt => op' \in Operation /\ op'.at = "dispatch"
                              /\ op'.name = op.name /\ op'.outcome = op.outcome
           /\ \A place \in {"dispatch", "deferred", "body", "ready", "task"} :
                 op' = [op EXCEPT !.at = place] =>
                    op' \in Operation /\ op'.at = place /\ op'.name = op.name
                    /\ op'.outcome = op.outcome
BY DEF EndAttempt, RetryAttempt, Operation, WrapperPlace, Outcome

\* The wait, as in AsyncOperation, needs to know nothing of the snapshots.
LEMMA ProtocolStep == Protocol /\ [Next]_vars => Protocol'
<1> SUFFICES ASSUME Protocol, [Next]_vars
             PROVE  Protocol'
  OBVIOUS
<1> USE DEF Protocol, OpTypes, Places, Holding, Listed, Tracked, Unfinished, Finished,
            waitVars, opVars, WaitTypeOK, NotWaiting, Properties, Wait, WaitPlace,
            MaybeTask, MaybeKey, Object, MaybeObject, TaskState, Outcome
<1>1. ASSUME NEW name \in SnapshotOps, Begin(name)
      PROVE  Protocol'
  BY <1>1 DEF Begin, BeginOperation, Operation, WrapperPlace
<1>2. ASSUME NEW outcome \in {"ok", "failed"}, Ends(outcome)
      PROVE  Protocol'
  <2>1. op' \in Operation /\ op'.at = "idle"
    BY <1>2, AttemptType DEF Ends
  <2> QED
    BY <1>2, <2>1 DEF Ends
<1>3. CASE Look
  <2>1. op' \in Operation /\ op'.at = "ready" /\ op'.outcome = op.outcome
    BY <1>3, AttemptType DEF Look
  <2> QED
    BY <1>3, <2>1 DEF Look
<1>4. ASSUME NEW t \in Task, StartTask(t)
      PROVE  Protocol'
  <2>1. op' \in Operation /\ op'.at = "task" /\ op'.outcome = op.outcome
    BY <1>4, AttemptType DEF StartTask
  <2>2. OpTypes'
    BY <1>4, <2>1 DEF StartTask, Launch
  <2>3. (Places /\ Holding)'
    BY <1>4, <2>1 DEF StartTask, Launch
  <2>4. (Listed /\ Tracked)'
    BY <1>4, <2>1 DEF StartTask, Launch
  <2> QED
    BY <2>2, <2>3, <2>4
<1>5. CASE SnapshotGone
  <2>1. op' \in Operation /\ op'.at = "dispatch" /\ op'.outcome = op.outcome
    BY <1>5, AttemptType DEF SnapshotGone
  <2> QED
    BY <1>5, <2>1 DEF SnapshotGone
<1>6. CASE BodyReturned
  <2>1. op' \in Operation /\ op'.at = "idle"
    BY <1>6, AttemptType DEF BodyReturned
  <2> QED
    BY <1>6, <2>1 DEF BodyReturned
<1>7. CASE NoDeferredTask \/ DeferredTask \/ DeferredReturned
  <2>1. /\ op' \in Operation /\ op'.outcome = op.outcome
        /\ op'.at = IF DeferredTask THEN "deferred" ELSE "body"
    BY <1>7, AttemptType DEF NoDeferredTask, DeferredTask, DeferredReturned, WaitForSaved
  <2> QED
    BY <1>7, <2>1 DEF NoDeferredTask, DeferredTask, DeferredReturned, WaitForSaved
<1>8. CASE SaveTask /\ UNCHANGED opVars
  <2>1. OpTypes'
    BY <1>8 DEF SaveTask
  <2>2. (Places /\ Holding)'
    BY <1>8 DEF SaveTask
  <2>3. (Listed /\ Tracked)'
    BY <1>8 DEF SaveTask
  <2> QED
    BY <2>1, <2>2, <2>3
<1>9. CASE (FindTask \/ MissTask) /\ UNCHANGED opVars
  BY <1>9 DEF FindTask, MissTask
<1>10. CASE (PollAgain \/ PollTimeout) /\ UNCHANGED opVars
  BY <1>10 DEF PollAgain, PollTimeout
<1>11. CASE ForgetTask /\ UNCHANGED opVars
  <2>1. OpTypes'
    BY <1>11 DEF ForgetTask, AfterTask
  <2>2. (Places /\ Holding)'
    BY <1>11 DEF ForgetTask, AfterTask
  <2>3. (Listed /\ Tracked)'
    BY <1>11 DEF ForgetTask, AfterTask
  <2> QED
    BY <2>1, <2>2, <2>3
<1>12. CASE RecordResult /\ UNCHANGED opVars
  BY <1>12 DEF RecordResult
<1>13. CASE TaskTimedOut
  <2>1. op' \in Operation /\ op'.at = "dispatch" /\ op'.outcome = op.outcome
    BY <1>13, AttemptType DEF TaskTimedOut
  <2> QED
    BY <1>13, <2>1 DEF TaskTimedOut
<1>14. CASE TaskFailed \/ RetriesExhausted
  <2>1. op' \in Operation /\ op'.at = "idle" /\ op'.outcome = "failed"
    BY <1>14, AttemptType DEF TaskFailed, RetriesExhausted
  <2> QED
    BY <1>14, <2>1 DEF TaskFailed, RetriesExhausted
<1>15. CASE Crash \/ ConnectionLost
  <2>1. op' \in Operation /\ op'.at = "dispatch" /\ op'.outcome = op.outcome
    BY <1>15, AttemptType DEF Crash, ConnectionLost
  <2>2. CutShort
    BY <1>15 DEF Crash, ConnectionLost
  <2> QED
    BY <2>1, <2>2 DEF CutShort
<1>16. CASE Outsider
  BY <1>16 DEF Outsider
<1>17. ASSUME NEW t \in Task, TaskEnds(t)
       PROVE  Protocol'
  <2>1. PICK r \in {"success", "error"} : EndTask(t, r)
    BY <1>17 DEF TaskEnds, TaskSucceeds
  <2> QED
    BY <1>17, <2>1 DEF TaskEnds, EndTask
<1>18. ASSUME NEW t \in Task, Ageing(t)
       PROVE  Protocol'
  BY <1>18 DEF Ageing, AgeTask
<1>19. CASE ReuseTasks
  <2>1. props.task \notin Reusable /\ wait.task \notin Reusable
    BY DEF Reusable, Remembered
  <2>2. Reusable \subseteq Finished
    BY DEF Reusable
  <2>3. OpTypes'
    BY <1>19, <2>2 DEF ReuseTasks
  <2>4. (Places /\ Holding)'
    BY <1>19, <2>1 DEF ReuseTasks
  <2>5. (Listed /\ Tracked)'
    BY <1>19, <2>1, <2>2 DEF ReuseTasks
  <2> QED
    BY <2>3, <2>4, <2>5
<1>20. CASE UNCHANGED vars
  BY <1>20 DEF vars
<1> QED
  BY <1>1, <1>2, <1>3, <1>4, <1>5, <1>6, <1>7, <1>8, <1>9, <1>10, <1>11, <1>12, <1>13,
     <1>14, <1>15, <1>16, <1>17, <1>18, <1>19, <1>20
     DEF Next, SkipRequest, SkipCreate, Refuse, Wrapper, Waiting, WaitStep, AttemptOver

-----------------------------------------------------------------------------
(* The forest of snapshots *)

\* A subtree is the least set that has its root and the children of its members.
LEMMA SubtreeIsLeast ==
    ASSUME NEW s \in Present
    PROVE  /\ s \in Subtree(s)
           /\ Subtree(s) \subseteq Present
           /\ \A p \in Subtree(s) : Children(p) \subseteq Subtree(s)
           /\ \A S \in SUBSET Present :
                 s \in S /\ (\A p \in S : Children(p) \subseteq S) => Subtree(s) \subseteq S
<1>1. \A p \in Present : Children(p) \subseteq Present
  BY DEF Children
<1>2. s \in Subtree(s) /\ Subtree(s) \subseteq Present
  BY DEF Subtree
<1>3. \A S \in SUBSET Present :
         s \in S /\ (\A p \in S : Children(p) \subseteq S) => Subtree(s) \subseteq S
  BY DEF Subtree
<1>4. ASSUME NEW p \in Subtree(s), NEW c \in Children(p)
      PROVE  c \in Subtree(s)
  <2>1. c \in Present
    BY <1>1, <1>2, <1>4
  <2>2. ASSUME NEW S \in SUBSET Present, s \in S, \A q \in S : Children(q) \subseteq S
        PROVE  c \in S
    BY <1>3, <1>4, <2>2
  <2> QED
    BY <2>1, <2>2 DEF Subtree
<1> QED
  BY <1>2, <1>3, <1>4

\* The parent of the root is not below it, since there are no cycles.
LEMMA ParentIsAbove ==
    ASSUME Forest, NEW s \in Present
    PROVE  snap[s].parent \notin Subtree(s)
<1>1. ASSUME snap[s].parent \in Subtree(s)
      PROVE  FALSE
  <2>1. PICK c \in Subtree(s) : snap[c].parent \notin Subtree(s)
    BY SubtreeIsLeast DEF Forest
  <2>2. c # s
    BY <1>1, <2>1
  <2> DEFINE S == Subtree(s) \ {c}
  <2>3. s \in S /\ S \in SUBSET Present
    BY <2>2, SubtreeIsLeast
  <2>4. ASSUME NEW p \in S
        PROVE  Children(p) \subseteq S
    <3>1. Children(p) \subseteq Subtree(s)
      BY SubtreeIsLeast
    <3>2. c \notin Children(p)
      BY <2>1 DEF Children
    <3> QED
      BY <3>1, <3>2
  <2>5. Subtree(s) \subseteq S
    BY <2>3, <2>4, SubtreeIsLeast
  <2> QED
    BY <2>1, <2>5
<1> QED
  BY <1>1

\* What a snapshot adds to the forest, and to what is below another one.
LEMMA Adding ==
    ASSUME TreeTypes, Forest, NEW s \in Object \ Present, NEW name \in Name,
           AddSnapshot(s, name)
    PROVE  /\ snap' \in [Object -> Snapshot] /\ current' \in (Present \union {NoTask})'
           /\ Forest'
           /\ Present' = Present \union {s}
           /\ snap'[s].name = name
           /\ \A c \in Present : snap'[c] = snap[c]
           /\ \A r \in Present : Below(r)' \subseteq Below(r) \union {s}
<1>1. current \in MaybeObject
  BY DEF TreeTypes, Present, MaybeObject
<1>2. /\ snap' \in [Object -> Snapshot]
      /\ snap'[s] = [name |-> name, parent |-> current]
      /\ \A c \in Object \ {s} : snap'[c] = snap[c]
  BY <1>1 DEF AddSnapshot, TreeTypes, Snapshot
<1>3. Present' = Present \union {s}
  BY <1>2 DEF Present
<1>4. Present \subseteq Object /\ s \notin Present /\ NoTask \notin Object
  BY DEF Present, Object
<1>5. \A c \in Present : snap'[c] = snap[c]
  BY <1>2, <1>4
<1>6. \A c \in Present : snap[c].parent # s
  BY <1>4 DEF Forest
<1>7. current # s
  BY <1>4 DEF TreeTypes
<1>8. Forest'
  <2>1. \A c \in Present' : snap'[c].parent \in Present' \union {NoTask}
    BY <1>2, <1>3, <1>5 DEF Forest, TreeTypes
  <2>2. ASSUME NEW S \in SUBSET Present', S # {}
        PROVE  \E c \in S : snap'[c].parent \notin S
    <3>1. CASE S = {s}
      BY <1>2, <1>7, <3>1
    <3>2. CASE S # {s}
      <4>1. S \ {s} # {} /\ S \ {s} \in SUBSET Present
        BY <1>3, <2>2, <3>2
      <4>2. PICK c \in S \ {s} : snap[c].parent \notin S \ {s}
        BY <4>1 DEF Forest
      <4> QED
        BY <1>5, <1>6, <4>1, <4>2
    <3> QED
      BY <3>1, <3>2
  <2> QED
    BY <2>1, <2>2 DEF Forest
<1>9. ASSUME NEW r \in Present
      PROVE  Below(r)' \subseteq Below(r) \union {s}
  <2> DEFINE S == Subtree(r) \union {s}
  <2>1. r \in S /\ S \in SUBSET Present'
    BY <1>3, SubtreeIsLeast
  <2>2. ASSUME NEW p \in S
        PROVE  Children(p)' \subseteq S
    <3>1. CASE p = s
      BY <1>2, <1>3, <1>5, <1>6, <1>7, <3>1 DEF Children
    <3>2. CASE p # s
      <4>1. p \in Subtree(r) /\ Children(p) \subseteq Subtree(r)
        BY <3>2, SubtreeIsLeast
      <4>2. Children(p)' \subseteq Children(p) \union {s}
        BY <1>3, <1>5 DEF Children
      <4> QED
        BY <4>1, <4>2
    <3> QED
      BY <3>1, <3>2
  <2>3. Subtree(r)' \subseteq S
    BY <2>1, <2>2 DEF Subtree
  <2> QED
    BY <2>3 DEF Below
<1> QED
  BY <1>2, <1>3, <1>5, <1>7, <1>8, <1>9 DEF AddSnapshot

\* What is left of the forest when a subtree goes.
LEMMA Removing ==
    ASSUME TreeTypes, Forest, NEW s \in Present, RemoveSnapshots(s)
    PROVE  /\ snap' \in [Object -> Snapshot] /\ current' \in (Present \union {NoTask})'
           /\ Forest'
           /\ Present' = Present \ Subtree(s)
           /\ \A c \in Present' : snap'[c] = snap[c]
           /\ \A r \in Present' : Below(r)' \subseteq Below(r)
<1>1. NoTask \in MaybeObject
  BY DEF MaybeObject
<1>2. /\ snap' \in [Object -> Snapshot]
      /\ \A c \in Object : snap'[c] = IF c \in Subtree(s) THEN Absent ELSE snap[c]
  BY <1>1 DEF RemoveSnapshots, TreeTypes, Snapshot, Absent
<1>3. Present' = Present \ Subtree(s)
  BY <1>2 DEF Present, Absent
<1>4. \A c \in Present' : c \in Present /\ c \notin Subtree(s) /\ snap'[c] = snap[c]
  BY <1>2, <1>3 DEF Present
<1>5. \A c \in Present' : snap[c].parent \notin Subtree(s)
  BY <1>4, SubtreeIsLeast DEF Children
<1>6. Forest'
  <2>1. \A c \in Present' : snap'[c].parent \in Present' \union {NoTask}
    BY <1>3, <1>4, <1>5 DEF Forest
  <2>2. ASSUME NEW S \in SUBSET Present', S # {}
        PROVE  \E c \in S : snap'[c].parent \notin S
    <3>1. S \in SUBSET Present
      BY <1>3, <2>2
    <3> QED
      BY <1>4, <2>2, <3>1 DEF Forest
  <2> QED
    BY <2>1, <2>2 DEF Forest
<1>7. current' \in (Present \union {NoTask})'
  <2>1. snap[s].parent \notin Subtree(s) /\ snap[s].parent \in Present \union {NoTask}
    BY ParentIsAbove DEF Forest
  <2>2. NoTask \notin Subtree(s)
    BY SubtreeIsLeast DEF Present, Object
  <2> QED
    BY <1>3, <2>1, <2>2 DEF RemoveSnapshots, TreeTypes
<1>8. ASSUME NEW r \in Present'
      PROVE  Below(r)' \subseteq Below(r)
  <2> DEFINE S == Subtree(r) \cap Present'
  <2>1. r \in Present /\ r \in S /\ S \in SUBSET Present'
    BY <1>4, SubtreeIsLeast
  <2>2. ASSUME NEW p \in S
        PROVE  Children(p)' \subseteq S
    <3>1. Children(p) \subseteq Subtree(r)
      BY <2>1, SubtreeIsLeast
    <3>2. Children(p)' \subseteq Children(p) \cap Present'
      BY <1>4 DEF Children
    <3> QED
      BY <3>1, <3>2
  <2>3. Subtree(r)' \subseteq S
    BY <2>1, <2>2 DEF Subtree
  <2> QED
    BY <2>3 DEF Below
<1> QED
  BY <1>2, <1>3, <1>4, <1>6, <1>7, <1>8

-----------------------------------------------------------------------------
(* The names and the operations *)

\* Of the tasks that run and are not lost, the worker knows the only one.
LEMMA OnlyKnown ==
    ASSUME Protocol, NEW t \in Unfinished \ orphans
    PROVE  /\ \A u \in Unfinished \ orphans : u = t
           /\ op.at = "task" => t = wait.task
           /\ op.at # "ready" /\ op.outcome # "ok"
BY DEF Protocol, OpTypes, Places, Holding, Tracked, NotWaiting, Unfinished, WaitTypeOK,
       Wait, WaitPlace, Properties

\* A step that leaves the tasks and the snapshots alone.
LEMMA Quiet ==
    ASSUME Tree, UNCHANGED <<snap, current, job, meddled, task>>, orphans \subseteq orphans',
           Begun' = Begun
    PROVE  (Forest /\ Taken /\ OneUnblocked /\ Apart /\ Coming /\ Aimed)'
<1>1. Present' = Present /\ Unfinished' = Unfinished /\ Finished' = Finished
  BY DEF Present, Unfinished, Finished
<1>2. Kept' \subseteq Kept
  BY <1>1 DEF Kept
<1>3. \A s : Below(s)' = Below(s)
  BY DEF Below, Subtree, Children, Present
<1>4. (Forest /\ Taken /\ OneUnblocked)'
  BY <1>1 DEF Tree, Forest, Taken, OneUnblocked
<1>5. (Apart /\ Coming)'
  BY <1>1, <1>2 DEF Tree, Apart, Coming
<1>6. Aimed'
  BY <1>1, <1>3 DEF Tree, Aimed
<1> QED
  BY <1>4, <1>5, <1>6

\* An attempt or an operation ends, or goes on, without a look or a task.
LEMMA Uneventful ==
    ASSUME Tree, UNCHANGED <<snap, current, job, request, meddled, task>>,
           orphans \subseteq orphans', Begun' = Begun, found' \in MaybeObject,
           op'.at \notin {"ready", "task"}, op'.outcome = "ok" => ~request.wanted \/ Done'
    PROVE  Tree'
<1>1. TreeTypes'
  BY DEF Tree, TreeTypes, Present
<1>2. (Sight /\ InHand /\ Effect)'
  BY DEF Sight, InHand, Effect
<1> QED
  BY <1>1, <1>2, Quiet DEF Tree

\* A step inside the wait, or a stutter.
LEMMA WaitingStep ==
    ASSUME Tree, op.at = "task" => wait'.task = wait.task,
           UNCHANGED <<task, op, orphans, snap, current, job, request, found, meddled>>
    PROVE  Tree'
<1>1. Begun' = Begun
  BY DEF Begun
<1>2. (Forest /\ Taken /\ OneUnblocked /\ Apart /\ Coming /\ Aimed)'
  BY <1>1, Quiet
<1>3. TreeTypes'
  BY DEF Tree, TreeTypes, Present
<1>4. Present' = Present /\ Kept' = Kept /\ Finished' = Finished
  BY <1>1 DEF Present, Kept, Finished
<1>5. \A s : Below(s)' = Below(s)
  BY DEF Below, Subtree, Children, Present
<1>6. Sight'
  BY <1>4, <1>5 DEF Tree, Sight
<1>7. InHand'
  BY DEF Tree, InHand
<1>8. Effect'
  BY DEF Tree, Effect, Undisturbed, Done, Named
<1> QED
  BY <1>2, <1>3, <1>6, <1>7, <1>8 DEF Tree

\* An operation begins: what somebody did before counts no more, unless a task of the
\* instance still runs, or two snapshots have one name.
LEMMA BeginStep ==
    ASSUME Tree, Protocol, NEW name \in SnapshotOps, Begin(name)
    PROVE  Tree'
<1>1. /\ op'.at = "dispatch" /\ op'.outcome = "none"
      /\ UNCHANGED <<task, orphans, snap, current, job, found>>
      /\ request' \in Request
      /\ meddled' = \/ meddled /\ Unfinished # {}
                    \/ \E s, u \in Present : s # u /\ snap[s].name = snap[u].name
  BY DEF Begin, BeginOperation, waitVars
<1>2. Present' = Present /\ Unfinished' = Unfinished /\ Finished' = Finished
  BY <1>1 DEF Present, Unfinished, Finished
<1>3. Begun' /\ meddled' \in BOOLEAN
  BY <1>1 DEF Begun
<1>4. Kept' = (IF meddled' THEN Present \cap Task ELSE Present) \ orphans
  BY <1>1, <1>2, <1>3 DEF Kept
<1>5. \A s : Below(s)' = Below(s)
  BY <1>1 DEF Below, Subtree, Children, Present
<1>6. TreeTypes'
  BY <1>1, <1>2, <1>3 DEF Tree, TreeTypes
<1>7. (Forest /\ Taken /\ OneUnblocked)'
  BY <1>1, <1>2, <1>3 DEF Tree, Forest, Taken, OneUnblocked
<1>8. Apart'
  <2>1. CASE meddled'
    <3>1. Kept' \subseteq Kept
      BY <1>4, <2>1 DEF Kept
    <3> QED
      BY <1>1, <3>1 DEF Tree, Apart
  <2>2. CASE ~meddled'
    BY <1>1, <1>4, <2>2 DEF Apart
  <2> QED
    BY <2>1, <2>2
<1>9. (Coming /\ Aimed)'
  <2>1. CASE Unfinished = {}
    BY <1>2, <2>1 DEF Coming, Aimed
  <2>2. CASE Unfinished # {}
    <3>1. (meddled => meddled') /\ Begun
      BY <1>1, <2>2 DEF Tree, Taken
    <3>2. Kept' \subseteq Kept
      BY <1>4, <3>1 DEF Kept
    <3> QED
      BY <1>1, <1>2, <1>5, <3>1, <3>2 DEF Tree, Coming, Aimed
  <2> QED
    BY <2>1, <2>2
<1>10. (Sight /\ InHand /\ Effect)'
  BY <1>1 DEF Sight, InHand, Effect
<1> QED
  BY <1>6, <1>7, <1>8, <1>9, <1>10 DEF Tree

\* The look-up: what Sight says is what it has just seen.
LEMMA LookStep ==
    ASSUME Tree, Protocol, Look
    PROVE  Tree'
<1>1. /\ op'.at = "ready" /\ op'.name = op.name /\ op'.outcome = op.outcome
      /\ UNCHANGED <<task, orphans, snap, current, job, request, meddled>>
  BY AttemptType DEF Look, waitVars, Protocol, OpTypes
<1>2. op.at = "body" /\ op.outcome = "none"
  BY DEF Look, Protocol, OpTypes, Places, Operation, Outcome
<1>3. Begun' = Begun
  BY <1>1, <1>2 DEF Begun
<1>4. Named(request.name) \subseteq Present
  BY DEF Tree, TreeTypes, Request, Named, Present
<1>5. Present' = Present /\ Kept' = Kept /\ Finished' = Finished
  BY <1>1, <1>3 DEF Present, Kept, Finished
<1>6. \A s : Below(s)' = Below(s)
  BY <1>1 DEF Below, Subtree, Children, Present
<1>7. CASE op.name = "create"
  <2>1. Named(request.name) = {} /\ found' = found
    BY <1>7 DEF Look
  <2>2. \A s \in Kept : snap[s].name # request.name
    BY <2>1 DEF Named, Kept, Present
  <2>3. Sight'
    BY <1>1, <1>5, <1>7, <2>2 DEF Sight
  <2>4. TreeTypes'
    BY <1>1, <1>5, <2>1 DEF Tree, TreeTypes
  <2> QED
    BY <1>1, <1>2, <1>3, <2>3, <2>4, Quiet DEF Tree, InHand, Effect
<1>8. CASE op.name # "create"
  <2>1. /\ found' \in Named(request.name)
        /\ op.name = "delete_snapshot" => Children(found') = {}
    BY <1>8 DEF Look
  <2>2. PICK f \in Present : f = found'
    BY <1>4, <2>1
  <2>3. f \in Finished \union Other /\ snap[f].name = request.name
    BY <2>1, <2>2 DEF Tree, Taken, Present, Object, Named
  <2>4. op.name = "delete_snapshot" => Below(f) = {}
    <3>1. ASSUME op.name = "delete_snapshot"
          PROVE  Subtree(f) \subseteq {f}
      <4>1. {f} \in SUBSET Present /\ \A p \in {f} : Children(p) \subseteq {f}
        BY <2>1, <2>2, <3>1
      <4> QED
        BY <4>1, SubtreeIsLeast
    <3> QED
      BY <3>1 DEF Below
  <2>5. Sight'
    BY <1>1, <1>5, <1>6, <1>8, <2>2, <2>3, <2>4 DEF Sight
  <2>6. TreeTypes'
    BY <1>1, <1>5, <2>2 DEF Tree, TreeTypes, Present, MaybeObject
  <2> QED
    BY <1>1, <1>2, <1>3, <2>5, <2>6, Quiet DEF Tree, InHand, Effect
<1> QED
  BY <1>7, <1>8

\* The task starts: what was seen is what it is aimed at.
LEMMA StartStep ==
    ASSUME Tree, Protocol, NEW t \in Task, StartTask(t)
    PROVE  Tree'
<1>1. /\ op.at = "ready" /\ op'.at = "task" /\ op'.name = op.name
      /\ op'.outcome = op.outcome /\ op.outcome = "none"
  BY AttemptType DEF StartTask, Protocol, OpTypes, Places, Operation, Outcome
<1>2. /\ task[t] = "unused" /\ task' = [task EXCEPT ![t] = "running"]
      /\ wait'.task = t
      /\ UNCHANGED <<orphans, snap, current, request, found, meddled>>
      /\ found \in Present \union {NoTask}
  BY DEF StartTask, Launch
<1>3. /\ job' \in [Task -> Job]
      /\ job'[t].kind = op.name /\ job'[t].snap = found /\ job'[t].name = request.name
      /\ job'[t].blocked = (Unfinished # {})
      /\ \A u \in Task \ {t} : job'[u] = job[u]
  BY DEF StartTask, Tree, TreeTypes, Job, Request, Protocol, OpTypes, Operation
<1>4. /\ Unfinished' = Unfinished \union {t} /\ Finished' = Finished /\ t \notin Unfinished
      /\ Unfinished \subseteq Task
  BY <1>2 DEF Unfinished, Finished, Protocol, OpTypes, WaitTypeOK
<1>5. Begun /\ Begun'
  BY <1>1 DEF Begun
<1>6. Present' = Present /\ Kept' = Kept
  BY <1>2, <1>5 DEF Present, Kept
<1>7. \A s : Below(s)' = Below(s)
  BY <1>2 DEF Below, Subtree, Children, Present
<1>8. TreeTypes'
  BY <1>2, <1>3, <1>6 DEF Tree, TreeTypes
<1>9. (Forest /\ Taken /\ Apart)'
  BY <1>2, <1>4, <1>5, <1>6 DEF Tree, Forest, Taken, Apart
<1>10. OneUnblocked'
  BY <1>3, <1>4 DEF Tree, OneUnblocked
<1>11. Coming'
  <2>1. op.name = "create" => \A s \in Kept : snap[s].name # request.name
    BY <1>1 DEF Tree, Sight
  <2>2. request.name \in Name
    BY DEF Tree, TreeTypes, Request
  <2> QED
    BY <1>2, <1>3, <1>4, <1>6, <2>1, <2>2 DEF Tree, Coming
<1>12. Aimed'
  <2>1. op.name # "create" => found \in Present
    BY <1>1, <1>2 DEF Tree, Sight, Finished
  <2>2. op.name # "create" /\ ~meddled =>
           /\ snap[found].name = request.name
           /\ op.name = "delete_snapshot" => Below(found) \subseteq orphans
    BY <1>1, <2>1 DEF Tree, Sight
  <2> QED
    BY <1>2, <1>3, <1>4, <1>6, <1>7, <2>1, <2>2 DEF Tree, Aimed
<1>13. (Sight /\ InHand /\ Effect)'
  <2>1. task'[t] = "running"
    BY <1>2 DEF Protocol, OpTypes, WaitTypeOK
  <2> QED
    BY <1>1, <1>2, <1>3, <2>1 DEF Sight, InHand, Effect
<1> QED
  BY <1>8, <1>9, <1>10, <1>11, <1>12, <1>13 DEF Tree

\* What the end of a task changes in its own right.
LEMMA Ending ==
    ASSUME Tree, Protocol, NEW t \in Task, NEW r \in {"success", "error"}, EndTask(t, r)
    PROVE  /\ t \in Unfinished /\ UNCHANGED wait
           /\ task' = [task EXCEPT ![t] = r] /\ task'[t] = r
           /\ \A u \in Task \ {t} : task'[u] = task[u]
           /\ Unfinished' = Unfinished \ {t} /\ Finished' = Finished \union {t}
           /\ t \notin Present
BY DEF EndTask, Unfinished, Finished, Tree, Taken, Protocol, OpTypes, WaitTypeOK

\* The worker waits for a task of this attempt alone: if the snapshots have changed,
\* nothing that depended on them was lost.
LEMMA SuccessStep ==
    ASSUME Tree, Protocol, NEW t \in Task, TaskSucceeds(t),
           UNCHANGED <<opVars, job, request, found, meddled>>
    PROVE  Tree'
<1>1. EndTask(t, "success") /\ ~job[t].blocked
  BY DEF TaskSucceeds
<1>2. /\ t \in Unfinished /\ UNCHANGED wait
      /\ task'[t] = "success" /\ \A u \in Task \ {t} : task'[u] = task[u]
      /\ Unfinished' = Unfinished \ {t} /\ Finished' = Finished \union {t}
      /\ t \notin Present
  BY <1>1, Ending
<1>3. UNCHANGED <<op, orphans, job, request, found, meddled>>
  BY DEF opVars
<1>4. Begun /\ Begun'
  BY <1>2, <1>3 DEF Tree, Taken, Begun
<1>5. (OneUnblocked /\ InHand)'
  BY <1>2, <1>3 DEF Tree, OneUnblocked, InHand
<1>6. Aimed'
  BY <1>1, <1>2, <1>3 DEF Tree, OneUnblocked, Aimed
<1>7. op.at = "ready" \/ op.outcome = "ok" => t \in orphans
  BY <1>2, OnlyKnown
<1>8. op.at = "task" /\ t \notin orphans => t = wait.task
  BY <1>2, OnlyKnown
<1>9. Effect' <=>
        (Undisturbed => (op.at = "task" /\ task'[wait.task] = "success" => Done'))
  BY <1>2, <1>3, <1>7 DEF Effect, Undisturbed
<1>10. CASE job[t].kind = "create" /\ AddSnapshot(t, job[t].name)
  <2>1. job[t].name \in Name /\ t \in Object \ Present
    BY <1>2, <1>10 DEF Tree, Coming, Object
  <2>2. /\ snap' \in [Object -> Snapshot] /\ current' \in (Present \union {NoTask})'
        /\ Forest'
        /\ Present' = Present \union {t}
        /\ snap'[t].name = job[t].name
        /\ \A c \in Present : snap'[c] = snap[c]
        /\ \A s \in Present : Below(s)' \subseteq Below(s) \union {t}
    BY <1>10, <2>1, Adding DEF Tree
  <2>3. Kept' = IF t \in orphans THEN Kept ELSE Kept \union {t}
    BY <1>3, <1>4, <2>2 DEF Kept
  <2>4. \A c \in Kept : snap'[c] = snap[c]
    BY <2>2 DEF Kept
  <2>5. t \notin orphans => \A s \in Kept : snap[s].name # job[t].name
    BY <1>2, <1>10 DEF Tree, Coming
  <2>6. TreeTypes'
    BY <1>3, <2>2 DEF Tree, TreeTypes, Object
  <2>7. Taken'
    BY <1>2, <1>4, <2>2 DEF Tree, Taken
  <2>8. Apart'
    BY <1>2, <2>2, <2>3, <2>4, <2>5 DEF Tree, Apart
  <2>9. Coming'
    <3>1. ASSUME NEW u \in Unfinished', job'[u].kind = "create", u \notin orphans'
          PROVE  \A s \in Kept' : snap'[s].name # job'[u].name
      <4>1. u \in Unfinished \ orphans /\ u # t
        BY <1>2, <1>3, <3>1
      <4>2. t \in orphans
        BY <1>2, <4>1, OnlyKnown
      <4>3. \A s \in Kept : snap[s].name # job[u].name
        BY <1>3, <3>1, <4>1 DEF Tree, Coming
      <4> QED
        BY <1>3, <2>3, <2>4, <4>2, <4>3
    <3> QED
      BY <1>2, <1>3, <3>1 DEF Tree, Coming
  <2>10. Sight'
    <3>1. ASSUME op.at = "ready"
          PROVE  t \in orphans /\ Kept' = Kept /\ (op.name # "create" => found # t)
      BY <1>2, <1>7, <2>3, <3>1 DEF Tree, Sight, Finished, Unfinished
    <3> QED
      BY <1>2, <1>3, <2>2, <2>4, <3>1 DEF Tree, Sight
  <2>11. Effect'
    <3>1. ASSUME Undisturbed, op.at = "task", task'[wait.task] = "success"
          PROVE  Done'
      <4>1. op.name = "create"
        BY <1>8, <1>10, <3>1 DEF Undisturbed, Tree, InHand
      <4> QED
        BY <1>3, <4>1 DEF Done
    <3> QED
      BY <1>9, <3>1
  <2> QED
    BY <1>5, <1>6, <2>2, <2>6, <2>7, <2>8, <2>9, <2>10, <2>11 DEF Tree
<1>11. CASE job[t].kind = "apply" /\ job[t].snap \in Present /\ current' = job[t].snap
            /\ UNCHANGED snap
  <2>1. Present' = Present /\ Kept' = Kept
    BY <1>3, <1>4, <1>11 DEF Present, Kept
  <2>2. \A s : Below(s)' = Below(s)
    BY <1>11 DEF Below, Subtree, Children, Present
  <2>3. TreeTypes'
    BY <1>3, <1>11, <2>1 DEF Tree, TreeTypes
  <2>4. (Forest /\ Taken /\ Apart)'
    BY <1>2, <1>4, <1>11, <2>1 DEF Tree, Forest, Taken, Apart
  <2>5. (Coming /\ Sight)'
    BY <1>2, <1>3, <1>11, <2>1, <2>2 DEF Tree, Coming, Sight
  <2>6. Effect'
    <3>1. ASSUME Undisturbed, op.at = "task", task'[wait.task] = "success"
          PROVE  Done'
      <4>1. op.name = "apply" /\ job[t].name = request.name
        BY <1>8, <1>2, <1>11, <3>1 DEF Undisturbed, Tree, InHand
      <4>2. snap[job[t].snap].name = request.name
        BY <1>1, <1>2, <1>11, <3>1, <4>1 DEF Undisturbed, Tree, Aimed
      <4> QED
        BY <1>3, <1>11, <4>1, <4>2 DEF Done, Named, Present
    <3> QED
      BY <1>9, <3>1
  <2> QED
    BY <1>5, <1>6, <2>3, <2>4, <2>5, <2>6 DEF Tree
<1>12. CASE job[t].kind = "delete_snapshot" /\ job[t].snap \in Present
            /\ RemoveSnapshots(job[t].snap)
  <2>1. /\ snap' \in [Object -> Snapshot] /\ current' \in (Present \union {NoTask})'
        /\ Forest'
        /\ Present' = Present \ Subtree(job[t].snap)
        /\ \A c \in Present' : snap'[c] = snap[c]
        /\ \A s \in Present' : Below(s)' \subseteq Below(s)
    BY <1>12, Removing DEF Tree
  <2>2. Kept' \subseteq Kept /\ Kept' \subseteq Present'
    BY <1>3, <1>4, <2>1 DEF Kept
  <2>3. TreeTypes'
    BY <1>3, <2>1 DEF Tree, TreeTypes
  <2>4. (Taken /\ Apart)'
    BY <1>2, <1>4, <2>1, <2>2 DEF Tree, Taken, Apart
  <2>5. (Coming /\ Sight)'
    BY <1>2, <1>3, <2>1, <2>2 DEF Tree, Coming, Sight
  <2>6. Effect'
    <3>1. ASSUME Undisturbed, op.at = "task", task'[wait.task] = "success"
          PROVE  Done'
      <4>1. op.name = "delete_snapshot" /\ job[t].name = request.name
        BY <1>8, <1>2, <1>12, <3>1 DEF Undisturbed, Tree, InHand
      <4>2. snap[job[t].snap].name = request.name
        BY <1>1, <1>2, <1>12, <3>1, <4>1 DEF Undisturbed, Tree, Aimed
      <4>3. Kept = Present
        BY <1>4, <3>1 DEF Kept, Undisturbed
      <4>4. ASSUME NEW x \in Named(request.name)'
            PROVE  FALSE
        <5>1. x \in Present' /\ snap'[x].name = request.name
          BY <1>3 DEF Named, Present, Tree, TreeTypes, Request
        <5>2. x \in Present /\ snap[x].name = request.name
          BY <2>1, <5>1
        <5>3. x = job[t].snap
          BY <1>12, <4>2, <4>3, <5>2 DEF Tree, Apart
        <5> QED
          BY <1>12, <2>1, <5>1, <5>3, SubtreeIsLeast
      <4> QED
        BY <1>3, <4>1, <4>4 DEF Done
    <3> QED
      BY <1>9, <3>1
  <2> QED
    BY <1>5, <1>6, <2>1, <2>3, <2>4, <2>5, <2>6 DEF Tree
<1> QED
  BY <1>10, <1>11, <1>12 DEF TaskSucceeds

LEMMA ErrorStep ==
    ASSUME Tree, Protocol, NEW t \in Task, EndTask(t, "error"),
           UNCHANGED <<treeVars, opVars, job, request, found, meddled>>
    PROVE  Tree'
<1>1. /\ t \in Unfinished /\ UNCHANGED wait
      /\ task'[t] = "error" /\ \A u \in Task \ {t} : task'[u] = task[u]
      /\ Unfinished' = Unfinished \ {t} /\ Finished' = Finished \union {t}
  BY Ending
<1>2. UNCHANGED <<op, orphans, snap, current, job, request, found, meddled>>
  BY DEF opVars, treeVars
<1>3. Begun /\ Begun'
  BY <1>1, <1>2 DEF Tree, Taken, Begun
<1>4. Present' = Present /\ Kept' = Kept
  BY <1>2, <1>3 DEF Present, Kept
<1>5. \A s : Below(s)' = Below(s)
  BY <1>2 DEF Below, Subtree, Children, Present
<1>6. (TreeTypes /\ Forest /\ Taken /\ OneUnblocked /\ Apart)'
  BY <1>1, <1>2, <1>3, <1>4 DEF Tree, TreeTypes, Forest, Taken, OneUnblocked, Apart
<1>7. (Coming /\ Sight /\ Aimed /\ InHand)'
  BY <1>1, <1>2, <1>4, <1>5 DEF Tree, Coming, Sight, Aimed, InHand
<1>8. Effect'
  <2>1. op.at = "task" /\ task'[wait.task] = "success" => task[wait.task] = "success"
    BY <1>1 DEF Protocol, Holding, Places
  <2> QED
    BY <1>1, <1>2, <2>1 DEF Tree, Effect, Undisturbed, Done, Named
<1> QED
  BY <1>6, <1>7, <1>8 DEF Tree

\* Somebody changes the snapshots by hand, while no task runs.
LEMMA OutsiderStep ==
    ASSUME Tree, Protocol, Outsider
    PROVE  Tree'
<1>1. /\ Unfinished = {} /\ meddled'
      /\ UNCHANGED <<task, wait, op, orphans, job, request, found>>
  BY DEF Outsider, waitVars
<1>2. Unfinished' = {} /\ Finished' = Finished /\ Begun' = Begun
  BY <1>1 DEF Unfinished, Finished, Begun
<1>3. /\ snap' \in [Object -> Snapshot] /\ current' \in (Present \union {NoTask})'
      /\ Forest'
      /\ Present' \cap Task \subseteq Present
      /\ \A c \in Present' \cap Task : snap'[c] = snap[c]
  <2>1. ASSUME NEW o \in Other \ Present, NEW name \in Name, AddSnapshot(o, name)
        PROVE  <1>3!:
    <3>1. /\ snap' \in [Object -> Snapshot] /\ current' \in (Present \union {NoTask})'
          /\ Forest'
          /\ Present' = Present \union {o}
          /\ \A c \in Present : snap'[c] = snap[c]
      BY <2>1, Adding DEF Tree, Object
    <3> QED
      BY <3>1
  <2>2. CASE \E s \in Present : current' = s /\ UNCHANGED snap
    BY <2>2 DEF Tree, TreeTypes, Forest, Present
  <2>3. ASSUME NEW s \in Present, RemoveSnapshots(s)
        PROVE  <1>3!:
    BY <2>3, Removing DEF Tree
  <2> QED
    BY <2>1, <2>2, <2>3 DEF Outsider
<1>4. Kept' \subseteq Kept /\ Kept' \subseteq Present' \cap Task
  BY <1>1, <1>2, <1>3 DEF Kept
<1>5. TreeTypes' /\ Taken'
  BY <1>1, <1>2, <1>3 DEF Tree, TreeTypes, Taken, Outsider
<1>6. (OneUnblocked /\ Coming /\ Aimed)'
  BY <1>2 DEF OneUnblocked, Coming, Aimed
<1>7. (Apart /\ Sight)'
  BY <1>1, <1>2, <1>3, <1>4 DEF Tree, Apart, Sight
<1>8. (InHand /\ Effect)'
  BY <1>1 DEF Tree, InHand, Effect, Undisturbed
<1> QED
  BY <1>3, <1>5, <1>6, <1>7, <1>8 DEF Tree

\* Only ids that mean nothing any more stand for new tasks.
LEMMA ReuseStep ==
    ASSUME Tree, Protocol, ReuseTasks
    PROVE  Tree'
<1>1. /\ Reusable \subseteq Finished /\ Reusable \cap Present = {}
      /\ wait.task \notin Reusable /\ found \notin Reusable
      /\ \A t \in Reusable : t \in orphans => op.at = "dispatch"
  BY DEF Reusable, Remembered
<1>2. /\ \A t \in Task \ Reusable : task'[t] = task[t] /\ job'[t] = job[t]
      /\ \A t \in Reusable : task'[t] = "unused" /\ job'[t] = NoJob
      /\ job' \in [Task -> Job]
      /\ orphans' = orphans \ Reusable
      /\ UNCHANGED <<wait, op, snap, current, request, found, meddled>>
  <2>1. NoJob \in Job
    BY DEF NoJob, Job, MaybeObject
  <2> QED
    BY <1>1, <2>1 DEF ReuseTasks, Tree, TreeTypes, Finished
<1>3. /\ Unfinished' = Unfinished /\ Unfinished \cap Reusable = {}
      /\ Finished' = Finished \ Reusable
  BY <1>1, <1>2 DEF Unfinished, Finished
<1>4. Begun' = Begun
  BY <1>2 DEF Begun
<1>5. Present' = Present /\ Kept' = Kept
  BY <1>1, <1>2, <1>4 DEF Present, Kept
<1>6. \A s : Below(s)' = Below(s) /\ Below(s) \subseteq Present
  BY <1>2 DEF Below, Subtree, Children, Present
<1>7. \A s : Below(s) \subseteq orphans => Below(s)' \subseteq orphans'
  BY <1>1, <1>2, <1>6
<1>8. (TreeTypes /\ Forest /\ Taken /\ OneUnblocked /\ Apart)'
  BY <1>1, <1>2, <1>3, <1>4, <1>5 DEF Tree, TreeTypes, Forest, Taken, OneUnblocked, Apart, Unfinished
<1>9. Coming'
  BY <1>2, <1>3, <1>5 DEF Tree, Coming, Unfinished
<1>10. Sight'
  BY <1>1, <1>2, <1>3, <1>5, <1>7 DEF Tree, Sight
<1>11. Aimed'
  BY <1>2, <1>3, <1>5, <1>7 DEF Tree, Aimed, Unfinished
<1>12. op.at = "task" => wait.task \in Task \ Reusable
  BY <1>1 DEF Protocol, Places, Holding
<1>13. InHand'
  BY <1>2, <1>12 DEF Tree, InHand
<1>14. Effect'
  <2>1. op.at # "dispatch" => orphans' = orphans
    BY <1>1, <1>2
  <2>2. op.at = "dispatch" => op.outcome = "none"
    BY DEF Protocol, OpTypes, Operation, Outcome, Places
  <2> QED
    BY <1>2, <1>12, <2>1, <2>2 DEF Tree, Effect, Undisturbed, Done, Named
<1> QED
  BY <1>8, <1>9, <1>10, <1>11, <1>13, <1>14 DEF Tree

-----------------------------------------------------------------------------

\* Every step keeps what the invariant says of the snapshots and the operations.
LEMMA TreeStep == Tree /\ Protocol /\ [Next]_vars => Tree'
<1> SUFFICES ASSUME Tree, Protocol, [Next]_vars
             PROVE  Tree'
  OBVIOUS
<1>1. NoTask \in MaybeObject /\ found \in MaybeObject
  BY DEF MaybeObject, Tree, TreeTypes
<1>2. op.outcome # "none" => op.at = "idle"
  BY DEF Protocol, Places
<1>3. op.outcome \in Outcome
  BY DEF Protocol, OpTypes, Operation
<1>4. ASSUME NEW outcome \in {"ok", "failed"}, Ends(outcome),
             outcome = "ok" => ~request.wanted \/ op.name = "create"
      PROVE  Tree'
  <2>1. /\ op'.at = "idle" /\ op'.outcome = outcome /\ op'.name = op.name
        /\ op.at = "body"
        /\ UNCHANGED <<snap, current, job, request, meddled, task, orphans, found>>
    BY <1>4, AttemptType DEF Ends, waitVars, snapshotVars, Protocol, OpTypes, Outcome
  <2>2. Begun' = Begun
    BY <2>1 DEF Begun
  <2> QED
    BY <1>1, <1>4, <2>1, <2>2, Uneventful DEF Done
<1>5. ASSUME /\ op' \in Operation /\ op'.at \in {"dispatch", "deferred", "body"}
             /\ op'.outcome = op.outcome /\ op.at # "idle"
             /\ orphans \subseteq orphans' /\ found' \in {NoTask, found}
             /\ UNCHANGED <<snap, current, job, request, meddled, task>>
      PROVE  Tree'
  <2>1. Begun' = Begun
    BY <1>5 DEF Begun
  <2> QED
    BY <1>1, <1>2, <1>5, <2>1, Uneventful
<1>6. CASE \/ SnapshotGone
           \/ /\ NoDeferredTask \/ DeferredTask \/ DeferredReturned
              /\ UNCHANGED snapshotVars
  <2>1. op \in Operation
    BY DEF Protocol, OpTypes
  <2>2. /\ op' \in Operation /\ op'.at \in {"dispatch", "deferred", "body"}
        /\ op'.outcome = op.outcome /\ op.at # "idle"
    BY <1>6, <2>1, AttemptType
       DEF SnapshotGone, NoDeferredTask, DeferredTask, DeferredReturned
  <2>3. /\ orphans' = orphans /\ found' \in {NoTask, found}
        /\ UNCHANGED <<snap, current, job, request, meddled, task>>
    BY <1>6 DEF SnapshotGone, NoDeferredTask, DeferredTask, DeferredReturned,
                WaitForSaved, waitVars, snapshotVars
  <2> QED
    BY <1>5, <2>2, <2>3
<1>7. CASE AttemptOver
  <2>1. op \in Operation
    BY DEF Protocol, OpTypes
  <2>2. /\ orphans \subseteq orphans' /\ found' = NoTask
        /\ UNCHANGED <<snap, current, job, request, meddled, task>>
    BY <1>7 DEF AttemptOver, TaskTimedOut, TaskFailed, RetriesExhausted, Crash,
                ConnectionLost, CutShort, waitVars
  <2>3. op.at # "idle"
    BY <1>7 DEF AttemptOver, TaskTimedOut, TaskFailed, RetriesExhausted, Crash,
                ConnectionLost, CutShort, Protocol, Places, NotWaiting
  <2>4. CASE TaskFailed \/ RetriesExhausted
    <3>1. op'.at = "idle" /\ op'.outcome = "failed"
      BY <2>1, <2>4, AttemptType DEF TaskFailed, RetriesExhausted, Outcome
    <3>2. Begun' = Begun
      BY <2>3, <3>1 DEF Begun
    <3> QED
      BY <1>1, <2>2, <3>1, <3>2, Uneventful
  <2>5. CASE TaskTimedOut \/ Crash \/ ConnectionLost
    <3>1. op' \in Operation /\ op'.at = "dispatch" /\ op'.outcome = op.outcome
      BY <2>1, <2>5, AttemptType DEF TaskTimedOut, Crash, ConnectionLost
    <3> QED
      BY <1>5, <2>2, <2>3, <3>1
  <2> QED
    BY <1>7, <2>4, <2>5 DEF AttemptOver
<1>8. CASE BodyReturned
  <2>1. /\ op'.at = "idle" /\ op'.name = op.name /\ found' = NoTask
        /\ UNCHANGED <<snap, current, job, request, meddled, task, orphans>>
        /\ op'.outcome = "ok"
    BY <1>8, AttemptType DEF BodyReturned, Protocol, OpTypes, Outcome
  <2>2. Undisturbed => Done
    BY <1>8 DEF BodyReturned, Tree, Effect, Protocol, Holding
  <2>3. Begun' = Begun
    BY <1>8, <2>1 DEF BodyReturned, Begun
  <2>4. TreeTypes'
    BY <1>1, <2>1 DEF Tree, TreeTypes, Present
  <2>5. (Sight /\ InHand /\ Effect)'
    BY <2>1, <2>2 DEF Sight, InHand, Effect, Undisturbed, Done, Named
  <2> QED
    BY <2>1, <2>3, <2>4, <2>5, Quiet DEF Tree
<1>9. CASE Waiting /\ UNCHANGED snapshotVars
  <2>1. task' = task /\ (op.at = "task" => wait'.task = wait.task)
    BY <1>9 DEF Waiting, WaitStep, SaveTask, FindTask, MissTask, PollAgain, PollTimeout,
           ForgetTask, RecordResult, Protocol, OpTypes, WaitTypeOK, Wait
  <2> QED
    BY <1>9, <2>1, WaitingStep DEF Waiting, opVars, snapshotVars
<1>10. ASSUME NEW t \in Task, Ageing(t)
       PROVE  Tree'
  BY <1>10, WaitingStep DEF Ageing, AgeTask, opVars, snapshotVars
<1>11. ASSUME NEW t \in Task, TaskEnds(t)
       PROVE  Tree'
  BY <1>11, SuccessStep, ErrorStep DEF TaskEnds
<1>12. CASE UNCHANGED vars
  BY <1>12, WaitingStep DEF vars, waitVars, opVars, snapshotVars
<1>13. CASE SkipRequest \/ SkipCreate \/ Refuse
  BY <1>4, <1>13 DEF SkipRequest, SkipCreate, Refuse
<1>14. CASE Wrapper
  BY <1>6, <1>9, <1>14 DEF Wrapper
<1>15. CASE \E name \in SnapshotOps : Begin(name)
  BY <1>15, BeginStep
<1>16. CASE \E t \in Task : StartTask(t)
  BY <1>16, StartStep
<1>17. CASE Look \/ Outsider \/ ReuseTasks
  BY <1>17, LookStep, OutsiderStep, ReuseStep
<1>18. CASE \E t \in Task : TaskEnds(t) \/ Ageing(t)
  BY <1>10, <1>11, <1>18
<1>19. CASE SnapshotGone
  BY <1>6, <1>19
<1> QED
  BY <1>7, <1>8, <1>12, <1>13, <1>14, <1>15, <1>16, <1>17, <1>18, <1>19 DEF Next

LEMMA InvariantInit == Init => IInv
<1> SUFFICES ASSUME Init
             PROVE  IInv
  OBVIOUS
<1>1. Protocol
  BY DEF Init, WaitInit, OpInit, Protocol, OpTypes, Places, Holding, Listed, Tracked,
         Unfinished, NotWaiting, NoProperties, WaitTypeOK, Properties, Wait, WaitPlace,
         MaybeTask, MaybeKey, Object, MaybeObject, TaskState, Operation, WrapperPlace, Outcome
<1>2. Unfinished = {} /\ ~Begun /\ meddled = FALSE
  BY DEF Init, WaitInit, OpInit, Unfinished, Begun
<1>3. snap \in [Object -> Snapshot] /\ \A s \in Present : snap[s].parent = NoTask
  BY DEF Init, Absent, Snapshot, MaybeObject, Present
<1>4. Present \cap Task = {} /\ Present \subseteq Object /\ NoTask \notin Object
  BY DEF Init, Present, Object
<1>5. job \in [Task -> Job]
  BY DEF Init, NoJob, Job, MaybeObject
<1>6. TreeTypes
  BY <1>2, <1>3, <1>5 DEF Init, TreeTypes, MaybeObject
<1>7. Forest
  BY <1>3, <1>4 DEF Forest
<1>8. Taken /\ OneUnblocked /\ Apart /\ Coming /\ Aimed
  BY <1>2, <1>4 DEF Taken, OneUnblocked, Apart, Coming, Aimed, Kept
<1>9. Sight /\ InHand /\ Effect
  BY DEF Init, OpInit, Sight, InHand, Effect
<1> QED
  BY <1>1, <1>6, <1>7, <1>8, <1>9 DEF IInv, Tree

\* The inductive invariant holds in every behaviour.
THEOREM Invariance == Spec => []IInv
<1>1. IInv /\ [Next]_vars => IInv'
  BY ProtocolStep, TreeStep DEF IInv
<1> QED
  BY <1>1, InvariantInit, PTL DEF Spec

-----------------------------------------------------------------------------

\* Every variable keeps its type, and no snapshot loses its parent, whatever subtrees
\* RemoveSnapshot_Task(True) takes away.
THEOREM TypeCorrect == Spec => []TypeOK
<1>1. IInv => TypeOK
  BY DEF IInv, Tree, Protocol, OpTypes, TreeTypes, Forest, TypeOK, Operation, Snapshot
<1> QED
  BY <1>1, Invariance, PTL

\* The instance never takes two snapshots with one name (backup_server).
THEOREM NamesAreUnique == Spec => []NamesUnique
<1>1. IInv => NamesUnique
  <2>1. (Present \cap Task) \ orphans \subseteq Kept
    BY DEF Kept
  <2> QED
    BY <2>1 DEF IInv, Tree, Apart, NamesUnique
<1> QED
  BY <1>1, Invariance, PTL

\* A reported success of snapshot_apply and snapshot_delete is true.
THEOREM SuccessIsDone == Spec => []SuccessMeansDone
<1>1. IInv => SuccessMeansDone
  BY DEF IInv, Tree, Effect, Done, SuccessMeansDone, Reported
<1> QED
  BY <1>1, Invariance, PTL

\* Nothing but the named snapshot goes: what the task of snapshot_delete finds below it
\* was put there by tasks that a crash lost.
THEOREM OthersStay == Spec => OnlyTheNamedGoes
<1> DEFINE Stays ==
      ~meddled' => \A c \in Present \ Present' :
          \/ c \in orphans
          \/ \E t \in Task : task'[t] # task[t] /\ job[t].name = snap[c].name
<1>1. IInv /\ [Next]_vars => [Stays]_vars
  <2> SUFFICES ASSUME IInv, Next, ~meddled'
               PROVE  Stays
    OBVIOUS
  <2> USE DEF IInv
  <2>1. CASE snap' = snap
    BY <2>1 DEF Present
  <2>2. CASE snap' # snap
    <3>1. PICK t \in Task : TaskSucceeds(t) /\ UNCHANGED <<opVars, job, request, found, meddled>>
      BY <2>2 DEF Next, Begin, SkipRequest, SkipCreate, Refuse, Ends, Look, StartTask,
            SnapshotGone, BodyReturned, Wrapper, AttemptOver, Outsider, TaskEnds, Ageing,
            ReuseTasks, snapshotVars, treeVars
    <3>2. EndTask(t, "success") /\ ~job[t].blocked /\ ~meddled
      BY <3>1 DEF TaskSucceeds
    <3>3. t \in Unfinished /\ task'[t] # task[t] /\ t \notin Present
      BY <3>2, Ending DEF Unfinished
    <3>4. CASE job[t].kind = "create" /\ AddSnapshot(t, job[t].name)
      <4>1. Present' = Present \union {t}
        BY <3>3, <3>4, Adding DEF Tree, Coming, Object
      <4> QED
        BY <4>1
    <3>5. CASE job[t].kind = "delete_snapshot" /\ job[t].snap \in Present
               /\ RemoveSnapshots(job[t].snap)
      <4>1. Present' = Present \ Subtree(job[t].snap)
        BY <3>5, Removing DEF Tree
      <4>2. /\ snap[job[t].snap].name = job[t].name
            /\ Below(job[t].snap) \subseteq orphans
        BY <3>2, <3>3, <3>5 DEF Tree, Aimed
      <4> QED
        BY <3>3, <4>1, <4>2 DEF Below
    <3> QED
      BY <2>2, <3>1, <3>4, <3>5 DEF TaskSucceeds
  <2> QED
    BY <2>1, <2>2
<1> QED
  BY <1>1, Invariance, PTL DEF Spec, OnlyTheNamedGoes

=============================================================================
