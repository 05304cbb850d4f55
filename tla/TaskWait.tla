------------------------------ MODULE TaskWait ------------------------------
(***************************************************************************)
(* VsphereClient._wait_for_task: one node instance waiting for one vSphere *)
(* task.  The id of the task ("_task_id") and the name of the property     *)
(* that is to receive its result ("_resource_id") are saved in the runtime *)
(* properties of the instance, so that a later attempt of the operation,   *)
(* or a later operation, can go on waiting for it.                         *)
(*                                                                         *)
(* The module offers steps, not a specification: NodeOperation and the     *)
(* modules above it say when a wait begins and what follows it.            *)
(*                                                                         *)
(* The result of a task (a managed object) is named by the task itself;    *)
(* Other holds the objects that no task of this instance made.             *)
(* "queued" and "running" are one state: the code never tells them apart.  *)
(***************************************************************************)
EXTENDS Naturals

CONSTANTS
    Task,       \* vSphere tasks, each started at most once
    Other,      \* managed objects made by somebody else
    NoTask,     \* no id saved
    Key,        \* runtime properties that may receive the result of a task
    NoKey,      \* no property: the result is not wanted
    MaxPolls    \* max_wait_time // TASK_CHECK_SLEEP

ASSUME TaskWaitAssumption ==
    /\ Task \cap Other = {}
    /\ NoTask \notin Task \union Other
    /\ NoKey \notin Key
    /\ MaxPolls \in Nat

VARIABLES
    task,       \* state of every task, as task.info.state reports it
    recent,     \* tasks that taskManager.recentTask still lists
    props,      \* stored runtime properties of the instance
    wait        \* where the worker is inside _wait_for_task

waitVars == <<task, recent, props, wait>>

MaybeTask == Task \union {NoTask}
Object == Task \union Other
MaybeObject == Object \union {NoTask}
MaybeKey == Key \union {NoKey}

TaskState == {"unused", "running", "success", "error"}

\* "save": started, id not stored yet.  "lookup": the id comes from the
\* properties.  "record": ids removed, result not stored yet.  The last three
\* are the ways out: OperationRetry, NonRecoverableError, return.
WaitPlace ==
    {"none", "save", "lookup", "poll", "record", "timeout", "failed", "returned"}

Properties == [task : MaybeTask, key : MaybeKey, ids : [Key -> MaybeObject]]

Wait == [at : WaitPlace, task : MaybeTask, key : MaybeKey, polls : 0 .. MaxPolls]

WaitTypeOK ==
    /\ task \in [Task -> TaskState]
    /\ recent \in SUBSET Task
    /\ props \in Properties
    /\ wait \in Wait

NotWaiting == [at |-> "none", task |-> NoTask, key |-> NoKey, polls |-> 0]

NoProperties == [task |-> NoTask, key |-> NoKey, ids |-> [k \in Key |-> NoTask]]

WaitInit ==
    /\ task = [t \in Task |-> "unused"]
    /\ recent = {}
    /\ props = NoProperties
    /\ wait = NotWaiting

Unfinished == {t \in Task : task[t] = "running"}
Finished == {t \in Task : task[t] \in {"success", "error"}}

-----------------------------------------------------------------------------
(* vSphere *)

\* The task ends, one way or the other.
EndTask(t, result) ==
    /\ t \in Unfinished
    /\ task' = [task EXCEPT ![t] = result]
    /\ UNCHANGED <<recent, props, wait>>

\* A finished task drops out of the list of recent tasks.
AgeTask(t) ==
    /\ t \in Finished \cap recent
    /\ recent' = recent \ {t}
    /\ UNCHANGED <<task, props, wait>>

-----------------------------------------------------------------------------
(* The worker *)

\* The call that starts task t (Clone, CreateSnapshot, PowerOn, ...) returned,
\* and _wait_for_task(task, resource_id=key) is entered.
Launch(t, key) ==
    /\ wait.at = "none"
    /\ task[t] = "unused"
    /\ task' = [task EXCEPT ![t] = "running"]
    /\ recent' = recent \union {t}
    /\ wait' = [at |-> "save", task |-> t, key |-> key, polls |-> MaxPolls]
    /\ UNCHANGED props

SaveTask ==
    /\ wait.at = "save"
    /\ props' = [props EXCEPT !.task = wait.task, !.key = wait.key]
    /\ wait' = [wait EXCEPT !.at = "poll"]
    /\ UNCHANGED <<task, recent>>

\* Mutant: "_resource_id" is not read back.
WaitForSavedTaskOnly ==
    /\ wait.at = "none"
    /\ props.task # NoTask
    /\ wait' = [at |-> "lookup", task |-> props.task, key |-> NoKey,
                polls |-> MaxPolls]
    /\ UNCHANGED <<task, recent, props>>

\* _wait_for_task without a task: the ids come from the properties.
WaitForSaved ==
    /\ wait.at = "none"
    /\ props.task # NoTask
    /\ wait' = [at |-> "lookup", task |-> props.task, key |-> props.key,
                polls |-> MaxPolls]
    /\ UNCHANGED <<task, recent, props>>

FindTask ==
    /\ wait.at = "lookup"
    /\ wait.task \in recent
    /\ wait' = [wait EXCEPT !.at = "poll"]
    /\ UNCHANGED <<task, recent, props>>

\* Mutant: a task that cannot be found is asked for again in the next attempt.
MissTaskRetries ==
    /\ wait.at = "lookup"
    /\ wait.task \notin recent
    /\ wait' = [wait EXCEPT !.at = "timeout"]
    /\ UNCHANGED <<task, recent, props>>

\* No such task: its id is removed, "_resource_id" stays behind.
MissTask ==
    /\ wait.at = "lookup"
    /\ wait.task \notin recent
    /\ props' = [props EXCEPT !.task = NoTask]
    /\ wait' = [wait EXCEPT !.at = "returned"]
    /\ UNCHANGED <<task, recent>>

\* Mutant: the number of polls is not checked.
PollAgainUnbounded ==
    /\ wait.at = "poll"
    /\ wait.task \in Unfinished
    /\ wait' = [wait EXCEPT !.polls = @ - 1]
    /\ UNCHANGED <<task, recent, props>>

PollAgain ==
    /\ wait.at = "poll"
    /\ wait.task \in Unfinished
    /\ wait.polls > 0
    /\ wait' = [wait EXCEPT !.polls = @ - 1]
    /\ UNCHANGED <<task, recent, props>>

\* Mutant: the ids are removed before OperationRetry is raised.
PollTimeoutForgets ==
    /\ wait.at = "poll"
    /\ wait.task \in Unfinished
    /\ wait.polls = 0
    /\ props' = [props EXCEPT !.task = NoTask, !.key = NoKey]
    /\ wait' = [wait EXCEPT !.at = "timeout"]
    /\ UNCHANGED <<task, recent>>

\* OperationRetry: both ids stay in the properties.
PollTimeout ==
    /\ wait.at = "poll"
    /\ wait.task \in Unfinished
    /\ wait.polls = 0
    /\ wait' = [wait EXCEPT !.at = "timeout"]
    /\ UNCHANGED <<task, recent, props>>

\* Mutant: the state of the ended task is not looked at.
AfterTaskIgnoringError(t, key) == IF key # NoKey THEN "record" ELSE "returned"

AfterTask(t, key) ==
    IF task[t] = "error" THEN "failed"
    ELSE IF key # NoKey THEN "record" ELSE "returned"

\* Mutant: a queued task counts as ended.
ForgetTaskEarly ==
    /\ wait.at = "poll"
    /\ props' = [props EXCEPT !.task = NoTask, !.key = NoKey]
    /\ wait' = [wait EXCEPT !.at = AfterTask(wait.task, wait.key)]
    /\ UNCHANGED <<task, recent>>

\* The ids are removed and stored before the result is looked at.
ForgetTask ==
    /\ wait.at = "poll"
    /\ wait.task \in Finished
    /\ props' = [props EXCEPT !.task = NoTask, !.key = NoKey]
    /\ wait' = [wait EXCEPT !.at = AfterTask(wait.task, wait.key)]
    /\ UNCHANGED <<task, recent>>

RecordResult ==
    /\ wait.at = "record"
    /\ props' = [props EXCEPT !.ids[wait.key] = wait.task]
    /\ wait' = [wait EXCEPT !.at = "returned"]
    /\ UNCHANGED <<task, recent>>

\* One step inside _wait_for_task.
WaitStep ==
    \/ SaveTask
    \/ FindTask
    \/ MissTask
    \/ PollAgain
    \/ PollTimeout
    \/ ForgetTask
    \/ RecordResult

=============================================================================
