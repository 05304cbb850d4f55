---------------------------- MODULE NodeOperation ----------------------------
(***************************************************************************)
(* How an operation of a node instance runs: the wrapper that              *)
(* with_server_client and its siblings put around every operation, which   *)
(* first waits for the task an earlier attempt left behind                 *)
(* (run_deferred_task), and the retries and restarts of the Cloudify       *)
(* worker that calls it.                                                   *)
(*                                                                         *)
(* The bodies of the operations are in the modules that extend this one;   *)
(* a body starts at op.at = "body".                                        *)
(***************************************************************************)
EXTENDS TaskWait

CONSTANTS
    OpName,     \* operations of the node type
    DeleteOp,   \* cloudify.interfaces.lifecycle.delete
    MaxFaults   \* bound: crashes and recoverable errors in a behaviour

ASSUME NodeOperationAssumption ==
    /\ DeleteOp \in OpName
    /\ MaxFaults \in Nat

VARIABLES
    op,         \* the operation, where it is, and how it ended
    orphans,    \* history: tasks whose id a crash lost before it was saved
    dropped,    \* history: ended tasks whose outcome a crash lost
    faults      \* number of faults so far

opVars == <<op, orphans, dropped, faults>>

Outcome == {"none", "ok", "failed"}

\* "idle": no operation runs.  "dispatch": an attempt is about to begin.
\* "deferred": run_deferred_task.  "body": the real operation begins.
WrapperPlace == {"idle", "dispatch", "deferred", "body"}

OpInit ==
    /\ op = [name |-> DeleteOp, at |-> "idle", retry |-> FALSE, outcome |-> "none"]
    /\ orphans = {}
    /\ dropped = {}
    /\ faults = 0

-----------------------------------------------------------------------------
(* How an attempt ends *)

EndAttempt(outcome) == op' = [op EXCEPT !.at = "idle", !.outcome = outcome]

\* OperationRetry, or an exception Cloudify retries: ctx.operation.retry_number
\* is positive from now on.
RetryAttempt == op' = [op EXCEPT !.at = "dispatch", !.retry = TRUE]

\* After the delete operation the wrapper empties the runtime properties,
\* unless a task is still saved there.
CleanedProps ==
    IF op.name = DeleteOp /\ props.task = NoTask THEN NoProperties ELSE props

-----------------------------------------------------------------------------
(* Steps *)

BeginOperation(name) ==
    /\ op.at = "idle"
    /\ op' = [name |-> name, at |-> "dispatch", retry |-> FALSE, outcome |-> "none"]
    /\ UNCHANGED <<waitVars, orphans, dropped, faults>>

\* Mutant: the body may run without waiting for the saved task.
NoDeferredTaskUnchecked ==
    /\ op.at = "dispatch"
    /\ op' = [op EXCEPT !.at = "body"]
    /\ UNCHANGED <<waitVars, orphans, dropped, faults>>

\* run_deferred_task: only a saved task is waited for.
NoDeferredTask ==
    /\ op.at = "dispatch"
    /\ props.task = NoTask
    /\ op' = [op EXCEPT !.at = "body"]
    /\ UNCHANGED <<waitVars, orphans, dropped, faults>>

DeferredTask ==
    /\ op.at = "dispatch"
    /\ WaitForSaved
    /\ op' = [op EXCEPT !.at = "deferred"]
    /\ UNCHANGED <<orphans, dropped, faults>>

DeferredReturned ==
    /\ op.at = "deferred"
    /\ wait.at = "returned"
    /\ op' = [op EXCEPT !.at = "body"]
    /\ wait' = NotWaiting
    /\ UNCHANGED <<task, recent, props, orphans, dropped, faults>>

TaskTimedOut ==
    /\ wait.at = "timeout"
    /\ RetryAttempt
    /\ wait' = NotWaiting
    /\ UNCHANGED <<task, recent, props, orphans, dropped, faults>>

\* Cloudify retries no more: the workflow fails, and a saved task is left for
\* the next operation of the instance.
RetriesExhausted ==
    /\ op.at = "dispatch"
    /\ op.retry
    /\ EndAttempt("failed")
    /\ UNCHANGED <<waitVars, orphans, dropped, faults>>

TaskFailed ==
    /\ wait.at = "failed"
    /\ EndAttempt("failed")
    /\ wait' = NotWaiting
    /\ UNCHANGED <<task, recent, props, orphans, dropped, faults>>

\* The attempt is cut short, and what the worker had in memory is lost.
CutShort ==
    /\ op.at # "idle"
    /\ faults < MaxFaults
    /\ faults' = faults + 1
    /\ orphans' = IF wait.at = "save" THEN orphans \union {wait.task} ELSE orphans
    /\ dropped' = IF wait.at \in {"record", "failed"}
                THEN dropped \union {wait.task} ELSE dropped
    /\ wait' = NotWaiting
    /\ UNCHANGED <<task, recent, props>>

\* The worker dies and the resumed workflow runs the operation again
\* (operations are declared resumable), with the same retry number.
Crash ==
    /\ CutShort
    /\ op' = [op EXCEPT !.at = "dispatch"]

\* An exception Cloudify retries: a lost connection, or an inventory that
\* changed while its cache was built (OperationRetry).
ConnectionLost ==
    /\ CutShort
    /\ RetryAttempt

\* A step inside _wait_for_task leaves the operation where it is.
Waiting == WaitStep /\ UNCHANGED opVars

VSphereStep ==
    /\ \E t \in Task :
          \/ EndTask(t, "success")
          \/ EndTask(t, "error")
          \/ AgeTask(t)
    /\ UNCHANGED opVars

=============================================================================
