--------------------------- MODULE AsyncOperation ---------------------------
(***************************************************************************)
(* Operations with one asynchronous call, run one after the other on one   *)
(* node instance, with timeouts, retries, failures, crashes and tasks that *)
(* age out of the list of recent tasks.                                    *)
(*                                                                         *)
(* A body is one of three: it starts its task in every attempt (Fresh:     *)
(* restore_server, remove_backup, reset_server, ...); it starts it in the  *)
(* first attempt only and wants the result (Guarded: create_server,        *)
(* backup_server); or it is the delete operation, which starts a task in   *)
(* every attempt and is followed by the removal of all properties.         *)
(***************************************************************************)
EXTENDS NodeOperation, FiniteSets

CONSTANTS
    Fresh, Guarded,     \* operations by the kind of their body
    ResultKey           \* VSPHERE_SERVER_ID or VSPHERE_SNAPSHOT_ID

ASSUME AsyncOperationAssumption ==
    /\ OpName = Fresh \union Guarded \union {DeleteOp}
    /\ Guarded \cap (Fresh \union {DeleteOp}) = {}
    /\ ResultKey \in Key

VARIABLE started    \* history: tasks started by the current operation

vars == <<waitVars, opVars, started>>

OpPlace == WrapperPlace \union {"task"}

Operation == [name : OpName, at : OpPlace, retry : BOOLEAN, outcome : Outcome]

Init ==
    /\ WaitInit
    /\ OpInit
    /\ started = {}

-----------------------------------------------------------------------------

\* Bound: an operation begins while enough tasks are left for its attempts.
Begin(name) ==
    /\ Cardinality({t \in Task : task[t] = "unused"}) > MaxFaults
    /\ BeginOperation(name)
    /\ started' = {}

\* The reads before the call raise: an object is missing.
BodyRefuses ==
    /\ op.at = "body"
    /\ EndAttempt("failed")
    /\ UNCHANGED <<waitVars, orphans, dropped, faults, started>>

WantedKey == IF op.name \in Guarded THEN ResultKey ELSE NoKey

StartTask(t) ==
    /\ op.at = "body"
    /\ op.name \in Guarded => ~op.retry
    /\ Launch(t, WantedKey)
    /\ op' = [op EXCEPT !.at = "task"]
    /\ started' = started \union {t}
    /\ UNCHANGED <<orphans, dropped, faults>>

\* A retried guarded body only waits; the wrapper has already waited for the
\* saved task, so there is none and _wait_for_task returns at once.
SkipTask ==
    /\ op.at = "body"
    /\ op.name \in Guarded
    /\ op.retry
    /\ EndAttempt("ok")
    /\ UNCHANGED <<waitVars, orphans, dropped, faults, started>>

BodyReturned ==
    /\ op.at = "task"
    /\ wait.at = "returned"
    /\ EndAttempt("ok")
    /\ props' = CleanedProps
    /\ wait' = NotWaiting
    /\ UNCHANGED <<task, recent, orphans, dropped, faults, started>>

Wrapper ==
    /\ \/ NoDeferredTask
       \/ DeferredTask
       \/ DeferredReturned
       \/ TaskTimedOut
       \/ TaskFailed
       \/ Waiting
    /\ UNCHANGED started

Body ==
    \/ \E t \in Task : StartTask(t)
    \/ SkipTask
    \/ BodyReturned

Trouble ==
    \/ BodyRefuses
    \/ (RetriesExhausted \/ Crash \/ ConnectionLost) /\ UNCHANGED started

Environment == VSphereStep /\ UNCHANGED started

Next ==
    \/ \E name \in OpName : Begin(name)
    \/ Wrapper
    \/ Body
    \/ Trouble
    \/ Environment

Spec == Init /\ [][Next]_vars

\* The worker goes on, and vSphere ends every task it has accepted.
TaskEnds(t) ==
    (EndTask(t, "success") \/ EndTask(t, "error")) /\ UNCHANGED <<opVars, started>>

FairSpec ==
    /\ Spec
    /\ WF_vars(Wrapper)
    /\ WF_vars(Body)
    /\ \A t \in Task : WF_vars(TaskEnds(t))

-----------------------------------------------------------------------------
(* Properties *)

\* Every variable has its type.
TypeOK ==
    /\ WaitTypeOK
    /\ op \in Operation
    /\ orphans \in SUBSET Task
    /\ dropped \in SUBSET Task
    /\ faults \in 0 .. MaxFaults
    /\ started \in SUBSET Task

\* A running task is always known: its id is in the stored properties, or the
\* worker holds it and is about to store it.  Only a crash in between leaves
\* a running task nobody waits for.  (_wait_for_task saves the ids before it
\* polls and removes them only after the task has ended.)
UnfinishedTracked ==
    \A t \in Unfinished \ orphans :
        \/ props.task = t
        \/ wait.at = "save" /\ wait.task = t

\* Attempts, retries and later operations of an instance never overlap: the
\* wrapper waits for the saved task before the body may start another.
OneInFlight ==
    \A t, u \in Unfinished \ orphans : t = u

\* An operation that reports success started no task that ended in an error,
\* unless a crash lost the task or its outcome (the ids are removed before
\* the outcome is acted on), or it aged out before anyone looked.
HonestSuccess ==
    op.outcome = "ok" =>
        \A t \in (started \cap recent) \ (orphans \union dropped) :
            task[t] = "success"

\* If a guarded operation reports success and a task of its own was not lost,
\* the property it asked for names the result of such a task, even when the
\* task ended while another attempt was waiting.
ResultKept ==
    /\ op.outcome = "ok"
    /\ op.name \in Guarded
    /\ (started \cap recent) \ (orphans \union dropped) # {}
    => props.ids[ResultKey] \in started

Flight == INSTANCE SingleFlight WITH
    flight <- IF wait.at = "save" THEN wait.task ELSE props.task,
    filed <- wait.at # "save" /\ props.task # NoTask,
    landed <- Finished,
    lost <- orphans

\* The saved id implements SingleFlight: a task is let go only once it ended.
ImplementsSingleFlight == Flight!Spec

\* However often its task outlives an attempt, a guarded operation ends: no
\* saved id keeps the wrapper retrying for ever.
GuardedEnds ==
    (op.at # "idle" /\ op.name \in Guarded) ~> (op.at = "idle")

=============================================================================
