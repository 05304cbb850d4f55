------------------------------ MODULE Snapshots ------------------------------
(***************************************************************************)
(* The snapshot operations of a server instance, snapshot_create,          *)
(* snapshot_apply and snapshot_delete, over the tree of snapshots that     *)
(* vSphere keeps for its virtual machine.                                  *)
(*                                                                         *)
(* An operation looks the snapshot up by name, decides, and starts one     *)
(* task; whatever the look-up saw may have changed by then.  Snapshots are *)
(* named by the task that took them, or are in Other: taken by hand.  The  *)
(* server itself is always found.                                          *)
(***************************************************************************)
EXTENDS NodeOperation, FiniteSets

CONSTANTS
    Name,       \* values of the input snapshot_name
    NoName,
    SnapshotKey \* VSPHERE_SNAPSHOT_ID

ASSUME SnapshotsAssumption ==
    /\ NoName \notin Name
    /\ SnapshotKey \in Key

VARIABLES
    snap,       \* name and parent of every snapshot
    current,    \* the snapshot the machine runs from
    job,        \* what each task does, and to which snapshot
    request,    \* inputs of the operation
    found,      \* the worker's snapshot object
    meddled     \* history: somebody else changed the tree, or named two alike

treeVars == <<snap, current>>
snapshotVars == <<snap, current, job, request, found, meddled>>
vars == <<waitVars, opVars, snapshotVars>>

SnapshotOps == {"create", "apply", "delete_snapshot"}

Absent == [name |-> NoName, parent |-> NoTask]
NoJob == [kind |-> "none", snap |-> NoTask, name |-> NoName, blocked |-> FALSE]

\* wanted: snapshot_incremental is set and the server is not external.
Request == [name : Name, wanted : BOOLEAN]

Present == {s \in Object : snap[s].name # NoName}
Named(name) == {s \in Object : snap[s].name = name}
Children(s) == {c \in Present : snap[c].parent = s}

\* A snapshot and all snapshots below it.
Subtree(s) ==
    {c \in Present : \A S \in SUBSET Present :
        s \in S /\ (\A p \in S : Children(p) \subseteq S) => c \in S}

Init ==
    /\ WaitInit
    /\ OpInit
    /\ snap \in [Object -> {Absent} \union [name : Name, parent : {NoTask}]]
    /\ Present \subseteq Other
    /\ current \in {NoTask} \union Present
    /\ job = [t \in Task |-> NoJob]
    /\ request \in Request
    /\ found = NoTask
    /\ meddled = FALSE

-----------------------------------------------------------------------------
(* vSphere *)

AddSnapshot(s, name) ==
    /\ snap' = [snap EXCEPT ![s] = [name |-> name, parent |-> current]]
    /\ current' = s

\* RemoveSnapshot_Task(True) removes the children as well.
RemoveSnapshots(s) ==
    /\ snap' = [c \in Object |-> IF c \in Subtree(s) THEN Absent ELSE snap[c]]
    /\ current' = IF current \in Subtree(s) THEN snap[s].parent ELSE current

TaskSucceeds(t) ==
    LET j == job[t] IN
    /\ ~j.blocked
    /\ \/ j.kind = "create" /\ AddSnapshot(t, j.name)
       \/ /\ j.kind = "apply"
          /\ j.snap \in Present
          /\ current' = j.snap
          /\ UNCHANGED snap
       \/ /\ j.kind = "delete_snapshot"
          /\ j.snap \in Present
          /\ RemoveSnapshots(j.snap)
    /\ EndTask(t, "success")

Remembered == {props.task, wait.task, found}

\* Ended tasks nobody remembers: their ids stand for new tasks.
Reusable ==
    {t \in Finished \ (Remembered \union Present) :
        t \in orphans => op.at = "dispatch"}

TaskEnds(t) ==
    /\ Reusable = {}
    /\ \/ TaskSucceeds(t)
       \/ EndTask(t, "error") /\ UNCHANGED treeVars
    /\ UNCHANGED <<opVars, job, request, found, meddled>>

Ageing(t) ==
    /\ Reusable = {}
    /\ t \in {props.task, wait.task}
    /\ AgeTask(t)
    /\ UNCHANGED <<opVars, snapshotVars>>

ReuseTasks ==
    /\ Reusable # {}
    /\ task' = [t \in Task |-> IF t \in Reusable THEN "unused" ELSE task[t]]
    /\ job' = [t \in Task |-> IF t \in Reusable THEN NoJob ELSE job[t]]
    /\ recent' = recent \ Reusable
    /\ props' = [props EXCEPT !.ids = [k \in Key |->
                    IF props.ids[k] \in Reusable THEN NoTask ELSE props.ids[k]]]
    /\ orphans' = orphans \ Reusable
    /\ dropped' = dropped \ Reusable
    /\ UNCHANGED <<wait, op, faults, snap, current, request, found, meddled>>

\* Somebody takes, reverts to or removes a snapshot by hand, while no task of
\* the instance has the machine.
Outsider ==
    /\ Unfinished = {}
    /\ faults < MaxFaults
    /\ faults' = faults + 1
    /\ meddled' = TRUE
    /\ \/ \E o \in Other \ Present, name \in Name : AddSnapshot(o, name)
       \/ \E s \in Present : current' = s /\ UNCHANGED snap
       \/ \E s \in Present : RemoveSnapshots(s)
    /\ UNCHANGED <<waitVars, op, orphans, dropped, job, request, found>>

-----------------------------------------------------------------------------
(* The operations *)

\* Bound: an operation begins while there are ids for its task and for those
\* that crashes may lose.
Begin(name) ==
    /\ Cardinality({t \in Task : task[t] = "unused"}) > MaxFaults - faults
    /\ BeginOperation(name)
    /\ request' \in Request
    /\ Reusable = {}
    /\ meddled' = \/ meddled /\ Unfinished # {}
                  \/ \E s, u \in Present : s # u /\ snap[s].name = snap[u].name
    /\ UNCHANGED <<snap, current, job, found>>

Ends(outcome) ==
    /\ op.at = "body"
    /\ EndAttempt(outcome)
    /\ UNCHANGED <<waitVars, orphans, dropped, faults, snapshotVars>>

\* Not incremental, or an external server: success without doing anything.
SkipRequest ==
    /\ ~request.wanted
    /\ Ends("ok")

\* Mutant: every operation only waits when it is retried.
SkipRetried ==
    /\ request.wanted
    /\ op.retry
    /\ Ends("ok")

\* backup_server with retry: only waits, and there is nothing to wait for.
SkipCreate ==
    /\ request.wanted
    /\ op.name = "create"
    /\ op.retry
    /\ Ends("ok")

\* The name is taken, is not there, or has snapshots below it.
Refuse ==
    /\ request.wanted
    /\ \/ op.name = "create" /\ ~op.retry /\ Named(request.name) # {}
       \/ op.name # "create" /\ Named(request.name) = {}
       \/ /\ op.name = "delete_snapshot"
          /\ \E s \in Named(request.name) : Children(s) # {}
    /\ Ends("failed")

\* Mutants: the name may be taken, the snapshot may have snapshots below it.
LookAnyName ==
    /\ op.at = "body"
    /\ request.wanted
    /\ \/ /\ op.name = "create"
          /\ ~op.retry
          /\ UNCHANGED found
       \/ /\ op.name # "create"
          /\ found' \in Named(request.name)
          /\ op.name = "delete_snapshot" => Children(found') = {}
    /\ op' = [op EXCEPT !.at = "ready"]
    /\ UNCHANGED <<waitVars, orphans, dropped, faults, snap, current, job,
                   request, meddled>>

LookAnySnapshot ==
    /\ op.at = "body"
    /\ request.wanted
    /\ \/ /\ op.name = "create"
          /\ ~op.retry
          /\ Named(request.name) = {}
          /\ UNCHANGED found
       \/ op.name # "create" /\ found' \in Named(request.name)
    /\ op' = [op EXCEPT !.at = "ready"]
    /\ UNCHANGED <<waitVars, orphans, dropped, faults, snap, current, job,
                   request, meddled>>

Look ==
    /\ op.at = "body"
    /\ request.wanted
    /\ \/ /\ op.name = "create"
          /\ ~op.retry
          /\ Named(request.name) = {}
          /\ UNCHANGED found
       \/ /\ op.name # "create"
          /\ found' \in Named(request.name)
          /\ op.name = "delete_snapshot" => Children(found') = {}
    /\ op' = [op EXCEPT !.at = "ready"]
    /\ UNCHANGED <<waitVars, orphans, dropped, faults, snap, current, job,
                   request, meddled>>

StartTask(t) ==
    /\ op.at = "ready"
    /\ Reusable = {}
    /\ found \in Present \union {NoTask}
    /\ Launch(t, IF op.name = "create" THEN SnapshotKey ELSE NoKey)
    /\ job' = [job EXCEPT ![t] =
          [kind |-> op.name, snap |-> found, name |-> request.name,
           blocked |-> Unfinished # {}]]
    /\ op' = [op EXCEPT !.at = "task"]
    /\ UNCHANGED <<orphans, dropped, faults, snap, current, request, found, meddled>>

\* The snapshot went away after the look-up: the call raises, Cloudify retries.
SnapshotGone ==
    /\ op.at = "ready"
    /\ found \notin Present \union {NoTask}
    /\ RetryAttempt
    /\ found' = NoTask
    /\ UNCHANGED <<waitVars, orphans, dropped, faults, snap, current, job,
                   request, meddled>>

BodyReturned ==
    /\ op.at = "task"
    /\ wait.at = "returned"
    /\ EndAttempt("ok")
    /\ wait' = NotWaiting
    /\ found' = NoTask
    /\ UNCHANGED <<task, recent, props, orphans, dropped, faults, snap, current,
                   job, request, meddled>>

Wrapper ==
    /\ NoDeferredTask \/ DeferredTask \/ DeferredReturned \/ Waiting
    /\ UNCHANGED snapshotVars

\* The attempt is over, and with it what the worker had in memory.
AttemptOver ==
    /\ \/ TaskTimedOut \/ TaskFailed
       \/ RetriesExhausted
       \/ Crash \/ ConnectionLost
    /\ found' = NoTask
    /\ UNCHANGED <<snap, current, job, request, meddled>>

Next ==
    \/ \E name \in SnapshotOps : Begin(name)
    \/ SkipRequest
    \/ SkipCreate
    \/ Refuse
    \/ Look
    \/ \E t \in Task : StartTask(t)
    \/ SnapshotGone
    \/ BodyReturned
    \/ Wrapper
    \/ AttemptOver
    \/ Outsider
    \/ \E t \in Task : TaskEnds(t) \/ Ageing(t)
    \/ ReuseTasks

Spec == Init /\ [][Next]_vars

-----------------------------------------------------------------------------
(* Properties *)

\* Every variable has its type, and the snapshots form a tree.
TypeOK ==
    /\ WaitTypeOK
    /\ op.at \in WrapperPlace \union {"ready", "task"}
    /\ orphans \subseteq Task /\ dropped \subseteq Task
    /\ snap \in [Object -> [name : Name \union {NoName}, parent : MaybeObject]]
    /\ \A s \in Present : snap[s].parent \in Present \union {NoTask}
    /\ current \in Present \union {NoTask}
    /\ request \in Request
    /\ found \in MaybeObject

\* The instance never takes two snapshots with one name: the check of
\* backup_server, the guard against a second CreateSnapshot in a retry and the
\* wait for the saved task together see to it.  (A snapshot by hand, or one
\* whose task a crash lost, may still get between the check and the task.)
NamesUnique ==
    \A s, u \in (Present \cap Task) \ orphans :
        snap[s].name = snap[u].name => s = u

Reported(name) == op.outcome = "ok" /\ op.name = name /\ request.wanted

Undisturbed == ~meddled /\ orphans = {}

\* When snapshot_apply reports success the machine runs from a snapshot with
\* the requested name, and when snapshot_delete does, none is left: retries
\* included, and even if an earlier attempt's task failed unseen.
SuccessMeansDone ==
    Undisturbed =>
        /\ Reported("apply") => current \in Named(request.name)
        /\ Reported("delete_snapshot") => Named(request.name) \cap Task = {}

\* snapshot_delete asks vSphere to remove children as well, having checked
\* that there are none: no snapshot of this instance but the named one goes,
\* unless a task a crash lost takes one in between.
OnlyTheNamedGoes ==
    [][~meddled' =>
         \A c \in Present \ Present' :
            \/ c \in orphans
            \/ \E t \in Task : task'[t] # task[t] /\ job[t].name = snap[c].name]_vars

=============================================================================
