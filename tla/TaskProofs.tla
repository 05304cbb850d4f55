------------------------------ MODULE TaskProofs ------------------------------
(***************************************************************************)
(* Theorems about the two ways in which this plugin deals with the tasks   *)
(* of vSphere, for any tasks, operations and devices, any number of polls  *)
(* and of faults, a queue of any length.                                   *)
(*                                                                         *)
(* Part I: AsyncOperation, where another attempt takes up the task of the  *)
(* one before.  The invariant to prove is that a running task is tracked.  *)
(* It is inductive only together with what the worker's place in the wait  *)
(* says about the stored id (Places, Holding), with the fact that vSphere  *)
(* lists every running task (Listed: else MissTask would let go of one),   *)
(* and, for the outcome, with who still owes an answer about a failed task *)
(* (Owed).  The result of a task is kept by a second invariant (Kept): the *)
(* name of the property that is to receive it goes with the task.          *)
(*                                                                         *)
(* Part II: PassThrough, where another attempt begins at the beginning and *)
(* the tasks of the ones before still run.  Watched says whose a task is   *)
(* that somebody waits for, Unwatched what the others may still do; Held   *)
(* what the server has of a device at each place of its worker.  The power *)
(* (Powered) comes back because there is, as long as all tasks succeed, at *)
(* most one power task, and with the server off always somebody who will   *)
(* start it (Tended); and because two power tasks of one kind, or one that *)
(* comes too late, cannot both succeed (Doomed): the server is then one    *)
(* that was left, which the property excuses.                              *)
(***************************************************************************)
EXTENDS AsyncOperation, PassThrough, SequenceTheorems, TLAPS

(***************************************************************************)
(* Part I: AsyncOperation                                                  *)
(***************************************************************************)

Places ==
    /\ op.at \in {"idle", "dispatch", "body"} => wait = NotWaiting
    /\ op.at = "deferred" => wait.at \notin {"none", "save"}
    /\ op.at = "task" => wait.at \notin {"none", "lookup"}
    /\ op.outcome # "none" => op.at = "idle"

Holding ==
    /\ wait.at \in {"lookup", "poll", "timeout"} =>
          wait.task \in Task /\ props.task = wait.task
    /\ wait.at \in {"save", "failed", "record", "returned"} => props.task = NoTask
    /\ wait.at \in {"save", "failed", "record"} => wait.task \in Task
    /\ wait.at = "record" => wait.key \in Key
    /\ op.at = "body" => props.task = NoTask
    /\ op.outcome = "ok" => props.task = NoTask

Listed ==
    /\ Unfinished \subseteq recent
    /\ \A t \in Task : task[t] = "unused" =>
          t \notin orphans /\ t # props.task /\ t # wait.task

Owed ==
    \A t \in (started \cap recent) \ (orphans \union dropped) :
        \/ task[t] = "success"
        \/ props.task = t
        \/ wait.at \in {"save", "failed"} /\ wait.task = t
        \/ op.outcome = "failed"

IInv ==
    /\ TypeOK
    /\ Places
    /\ Holding
    /\ Listed
    /\ UnfinishedTracked
    /\ Owed

-----------------------------------------------------------------------------

USE TaskWaitAssumption, NodeOperationAssumption, AsyncOperationAssumption

\* The two ways an attempt ends keep the type of the operation record.
LEMMA AttemptType ==
    ASSUME op \in Operation
    PROVE  /\ \A outcome \in Outcome : EndAttempt(outcome) => op' \in Operation
           /\ RetryAttempt => op' \in Operation
<1>1. ASSUME NEW outcome \in Outcome, EndAttempt(outcome)
      PROVE  op' \in Operation
  <2>1. [op EXCEPT !.at = "idle"] \in Operation
    BY DEF Operation, OpPlace, WrapperPlace
  <2> QED
    BY <1>1, <2>1 DEF EndAttempt, Operation
<1>2. ASSUME RetryAttempt
      PROVE  op' \in Operation
  <2>1. [op EXCEPT !.at = "dispatch"] \in Operation
    BY DEF Operation, OpPlace, WrapperPlace
  <2> QED
    BY <1>2, <2>1 DEF RetryAttempt, Operation
<1> QED
  BY <1>1, <1>2

\* Every step of the system, and every stutter, preserves the invariant.
LEMMA InvariantStep == IInv /\ [Next]_vars => IInv'
<1> SUFFICES ASSUME IInv, [Next]_vars
             PROVE  IInv'
  OBVIOUS
<1> USE DEF IInv, Places, Holding, Listed, UnfinishedTracked, Owed, Unfinished,
            Finished, waitVars, opVars, TypeOK, WaitTypeOK, NotWaiting,
            NoProperties, Properties, Wait, WaitPlace, MaybeTask, MaybeKey, Object,
            MaybeObject, TaskState, Outcome
<1>1. ASSUME NEW name \in OpName, Begin(name)
      PROVE  IInv'
  BY <1>1 DEF Begin, BeginOperation, Operation, OpPlace, WrapperPlace
<1>2. CASE NoDeferredTask /\ UNCHANGED started
  BY <1>2 DEF NoDeferredTask, Operation, OpPlace, WrapperPlace
<1>3. CASE DeferredTask /\ UNCHANGED started
  BY <1>3 DEF DeferredTask, WaitForSaved, Operation, OpPlace, WrapperPlace
<1>4. CASE DeferredReturned /\ UNCHANGED started
  BY <1>4 DEF DeferredReturned, Operation, OpPlace, WrapperPlace
<1>5. CASE TaskTimedOut /\ UNCHANGED started
  <2>1. TypeOK'
    BY <1>5, AttemptType DEF TaskTimedOut
  <2>2. Places'
    BY <1>5 DEF TaskTimedOut, RetryAttempt, Operation
  <2>3. Holding'
    BY <1>5 DEF TaskTimedOut, RetryAttempt, Operation
  <2>4. Listed'
    BY <1>5 DEF TaskTimedOut, RetryAttempt, Operation
  <2>5. UnfinishedTracked'
    BY <1>5 DEF TaskTimedOut, RetryAttempt, Operation
  <2>6. Owed'
    BY <1>5 DEF TaskTimedOut, RetryAttempt, Operation
  <2> QED
    BY <2>1, <2>2, <2>3, <2>4, <2>5, <2>6
<1>6. CASE TaskFailed /\ UNCHANGED started
  <2>1. TypeOK'
    BY <1>6, AttemptType DEF TaskFailed
  <2>2. Places'
    BY <1>6 DEF TaskFailed, EndAttempt, Operation
  <2>3. Holding'
    BY <1>6 DEF TaskFailed, EndAttempt, Operation
  <2>4. Listed'
    BY <1>6 DEF TaskFailed, EndAttempt, Operation
  <2>5. UnfinishedTracked'
    BY <1>6 DEF TaskFailed, EndAttempt, Operation
  <2>6. Owed'
    BY <1>6 DEF TaskFailed, EndAttempt, Operation
  <2> QED
    BY <2>1, <2>2, <2>3, <2>4, <2>5, <2>6
<1>7. CASE SaveTask /\ UNCHANGED <<opVars, started>>
  <2>1. TypeOK'
    BY <1>7 DEF SaveTask
  <2>2. Places'
    BY <1>7 DEF SaveTask
  <2>3. Holding'
    BY <1>7 DEF SaveTask
  <2>4. Listed'
    BY <1>7 DEF SaveTask
  <2>5. UnfinishedTracked'
    BY <1>7 DEF SaveTask
  <2>6. Owed'
    BY <1>7 DEF SaveTask
  <2> QED
    BY <2>1, <2>2, <2>3, <2>4, <2>5, <2>6
<1>8. CASE FindTask /\ UNCHANGED <<opVars, started>>
  BY <1>8 DEF FindTask
<1>9. CASE MissTask /\ UNCHANGED <<opVars, started>>
  BY <1>9 DEF MissTask
<1>10. CASE PollAgain /\ UNCHANGED <<opVars, started>>
  BY <1>10 DEF PollAgain
<1>11. CASE PollTimeout /\ UNCHANGED <<opVars, started>>
  BY <1>11 DEF PollTimeout
<1>12. CASE ForgetTask /\ UNCHANGED <<opVars, started>>
  <2>1. TypeOK'
    BY <1>12 DEF ForgetTask, AfterTask
  <2>2. Places'
    BY <1>12 DEF ForgetTask, AfterTask
  <2>3. Holding'
    BY <1>12 DEF ForgetTask, AfterTask
  <2>4. Listed'
    BY <1>12 DEF ForgetTask, AfterTask
  <2>5. UnfinishedTracked'
    BY <1>12 DEF ForgetTask, AfterTask
  <2>6. Owed'
    BY <1>12 DEF ForgetTask, AfterTask
  <2> QED
    BY <2>1, <2>2, <2>3, <2>4, <2>5, <2>6
<1>13. CASE RecordResult /\ UNCHANGED <<opVars, started>>
  BY <1>13 DEF RecordResult
<1>14. ASSUME NEW t \in Task, StartTask(t)
       PROVE  IInv'
  BY <1>14 DEF StartTask, Launch, WantedKey, Operation, OpPlace, WrapperPlace
<1>15. CASE SkipTask
  <2>1. TypeOK'
    BY <1>15, AttemptType DEF SkipTask
  <2>2. Places'
    BY <1>15 DEF SkipTask, EndAttempt, Operation
  <2>3. Holding'
    BY <1>15 DEF SkipTask, EndAttempt, Operation
  <2>4. Listed'
    BY <1>15 DEF SkipTask, EndAttempt, Operation
  <2>5. UnfinishedTracked'
    BY <1>15 DEF SkipTask, EndAttempt, Operation
  <2>6. Owed'
    BY <1>15 DEF SkipTask, EndAttempt, Operation
  <2> QED
    BY <2>1, <2>2, <2>3, <2>4, <2>5, <2>6
<1>16. CASE BodyReturned
  <2>1. TypeOK'
    BY <1>16, AttemptType DEF BodyReturned, CleanedProps
  <2>2. Places'
    BY <1>16 DEF BodyReturned, EndAttempt, CleanedProps, Operation
  <2>3. Holding'
    BY <1>16 DEF BodyReturned, EndAttempt, CleanedProps, Operation
  <2>4. Listed'
    BY <1>16 DEF BodyReturned, EndAttempt, CleanedProps, Operation
  <2>5. UnfinishedTracked'
    BY <1>16 DEF BodyReturned, EndAttempt, CleanedProps, Operation
  <2>6. Owed'
    BY <1>16 DEF BodyReturned, EndAttempt, CleanedProps, Operation
  <2> QED
    BY <2>1, <2>2, <2>3, <2>4, <2>5, <2>6
<1>17. CASE BodyRefuses
  <2>1. TypeOK'
    BY <1>17, AttemptType DEF BodyRefuses
  <2>2. Places'
    BY <1>17 DEF BodyRefuses, EndAttempt, Operation
  <2>3. Holding'
    BY <1>17 DEF BodyRefuses, EndAttempt, Operation
  <2>4. Listed'
    BY <1>17 DEF BodyRefuses, EndAttempt, Operation
  <2>5. UnfinishedTracked'
    BY <1>17 DEF BodyRefuses, EndAttempt, Operation
  <2>6. Owed'
    BY <1>17 DEF BodyRefuses, EndAttempt, Operation
  <2> QED
    BY <2>1, <2>2, <2>3, <2>4, <2>5, <2>6
<1>18. CASE ConnectionLost /\ UNCHANGED started
  <2>1. TypeOK'
    BY <1>18, AttemptType DEF ConnectionLost, CutShort
  <2>2. Places'
    BY <1>18 DEF ConnectionLost, CutShort, RetryAttempt, Operation
  <2>3. Holding'
    BY <1>18 DEF ConnectionLost, CutShort, RetryAttempt, Operation
  <2>4. Listed'
    BY <1>18 DEF ConnectionLost, CutShort, RetryAttempt, Operation
  <2>5. UnfinishedTracked'
    BY <1>18 DEF ConnectionLost, CutShort, RetryAttempt, Operation
  <2>6. Owed'
    BY <1>18 DEF ConnectionLost, CutShort, RetryAttempt, Operation
  <2> QED
    BY <2>1, <2>2, <2>3, <2>4, <2>5, <2>6
<1>19. CASE RetriesExhausted /\ UNCHANGED started
  <2>1. TypeOK'
    BY <1>19, AttemptType DEF RetriesExhausted
  <2>2. Places'
    BY <1>19 DEF RetriesExhausted, EndAttempt, Operation
  <2>3. Holding'
    BY <1>19 DEF RetriesExhausted, EndAttempt, Operation
  <2>4. Listed'
    BY <1>19 DEF RetriesExhausted, EndAttempt, Operation
  <2>5. UnfinishedTracked'
    BY <1>19 DEF RetriesExhausted, EndAttempt, Operation
  <2>6. Owed'
    BY <1>19 DEF RetriesExhausted, EndAttempt, Operation
  <2> QED
    BY <2>1, <2>2, <2>3, <2>4, <2>5, <2>6
<1>20. CASE Crash /\ UNCHANGED started
  BY <1>20 DEF Crash, CutShort, Operation, OpPlace, WrapperPlace
<1>21. ASSUME NEW t \in Task, NEW r \in {"success", "error"},
              EndTask(t, r), UNCHANGED <<opVars, started>>
       PROVE  IInv'
  BY <1>21 DEF EndTask
<1>22. ASSUME NEW t \in Task, AgeTask(t), UNCHANGED <<opVars, started>>
       PROVE  IInv'
  BY <1>22 DEF AgeTask
<1>23. CASE UNCHANGED vars
  BY <1>23 DEF vars
<1> QED
  BY <1>1, <1>2, <1>3, <1>4, <1>5, <1>6, <1>7, <1>8, <1>9, <1>10, <1>11,
     <1>12, <1>13, <1>14, <1>15, <1>16, <1>17, <1>18, <1>19, <1>20, <1>21,
     <1>22, <1>23
     DEF Next, Wrapper, Body, Trouble, Environment, VSphereStep, Waiting,
         WaitStep

\* The inductive invariant holds in every behaviour.
THEOREM Invariance == Spec => []IInv
<1>1. Init => IInv
  BY DEF Init, WaitInit, OpInit, IInv, Places, Holding, Listed, Unfinished,
         UnfinishedTracked, Owed, Operation, OpPlace, WrapperPlace,
         TypeOK, WaitTypeOK, NotWaiting, NoProperties, Properties, Wait,
         WaitPlace, MaybeTask, MaybeKey, Object,
            MaybeObject, TaskState, Outcome
<1> QED
  BY <1>1, InvariantStep, PTL DEF Spec

-----------------------------------------------------------------------------

\* Every variable keeps its type.
THEOREM TypeCorrect == Spec => []TypeOK
BY Invariance, PTL DEF IInv

\* A running task that no crash lost has its id stored, or in the hands of
\* the worker that is about to store it (_wait_for_task).
THEOREM RunningTasksAreTracked == Spec => []UnfinishedTracked
BY Invariance, PTL DEF IInv

\* At most one task of the instance runs, across attempts, retries and
\* operations (run_deferred_task before every body).
THEOREM AtMostOneInFlight == Spec => []OneInFlight
<1>1. IInv => OneInFlight
  BY DEF IInv, UnfinishedTracked, Holding, OneInFlight, Unfinished
<1> QED
  BY <1>1, Invariance, PTL

\* Success is never reported over a task that failed, except one whose
\* outcome a crash or the list of recent tasks lost.
THEOREM SuccessIsHonest == Spec => []HonestSuccess
<1>1. IInv => HonestSuccess
  BY DEF IInv, TypeOK, WaitTypeOK, Places, Holding, Owed, HonestSuccess, NotWaiting
<1> QED
  BY <1>1, Invariance, PTL

-----------------------------------------------------------------------------
(* The result of a guarded operation is kept. *)

\* A task that is saved, or about to be, or whose result is about to be stored, is one of
\* the current operation, unless that has started none so far: it is then an earlier one's.
OwnTask ==
    /\ props.task # NoTask => props.task \in started \/ started = {}
    /\ wait.at \in {"save", "record"} => wait.task \in started \/ started = {}

\* Wherever a task of a guarded operation is in its wait, the name of the property that is
\* to receive its result is there too, until a result is in that property.
KeyHeld ==
    op.name \in Guarded =>
        \A t \in (started \cap recent) \ (orphans \union dropped) :
            \/ wait.at = "save" /\ wait.task = t /\ wait.key = ResultKey
            \/ /\ props.task = t /\ props.key = ResultKey
               /\ wait.at \in {"lookup", "poll"} => wait.key = ResultKey
            \/ wait.at = "record" /\ wait.task = t /\ wait.key = ResultKey
            \/ wait.at = "failed" /\ wait.task = t
            \/ op.outcome = "failed"
            \/ props.ids[ResultKey] \in started

Kept == OwnTask /\ KeyHeld

LEMMA KeptStep == IInv /\ Kept /\ [Next]_vars => Kept'
<1> SUFFICES ASSUME IInv, Kept, [Next]_vars
             PROVE  Kept'
  OBVIOUS
<1>1. /\ props \in Properties /\ wait \in Wait /\ op \in Operation
      /\ started \in SUBSET Task /\ recent \in SUBSET Task
      /\ wait.task \in MaybeTask /\ wait.key \in MaybeKey /\ props.task \in MaybeTask
      /\ props.ids \in [Key -> MaybeObject] /\ op.outcome \in Outcome
  BY DEF IInv, TypeOK, WaitTypeOK, Properties, Wait, Operation
<1>2. Places /\ Holding
  BY DEF IInv
<1>3. NotWaiting.at = "none" /\ NotWaiting.task = NoTask /\ NoTask \notin Task
  BY DEF NotWaiting, Object
<1> USE DEF Kept, OwnTask, KeyHeld, waitVars, opVars, Wait, Properties, Operation
<1>4. ASSUME NEW name \in OpName, Begin(name)
      PROVE  Kept'
  BY <1>1, <1>2, <1>4 DEF Begin, BeginOperation, Places
<1>5. CASE NoDeferredTask /\ UNCHANGED started
  BY <1>1, <1>2, <1>3, <1>5
  DEF NoDeferredTask, Places, Holding
<1>6. CASE DeferredTask /\ UNCHANGED started
  BY <1>1, <1>2, <1>3, <1>6
  DEF DeferredTask, WaitForSaved, Places, Holding
<1>7. CASE DeferredReturned /\ UNCHANGED started
  BY <1>1, <1>2, <1>3, <1>7
  DEF DeferredReturned, Places, Holding
<1>8. CASE TaskTimedOut /\ UNCHANGED started
  BY <1>1, <1>2, <1>3, <1>8
  DEF TaskTimedOut, RetryAttempt, Places, Holding
<1>9. CASE TaskFailed /\ UNCHANGED started
  BY <1>1, <1>2, <1>3, <1>9
  DEF TaskFailed, EndAttempt, Places, Holding
<1>10. CASE SaveTask /\ UNCHANGED <<opVars, started>>
  BY <1>1, <1>2, <1>3, <1>10
  DEF SaveTask, Places, Holding
<1>11. CASE FindTask /\ UNCHANGED <<opVars, started>>
  BY <1>1, <1>2, <1>3, <1>11
  DEF FindTask, Places, Holding
<1>12. CASE MissTask /\ UNCHANGED <<opVars, started>>
  BY <1>1, <1>2, <1>3, <1>12
  DEF MissTask, Places, Holding
<1>13. CASE PollAgain /\ UNCHANGED <<opVars, started>>
  BY <1>1, <1>2, <1>3, <1>13
  DEF PollAgain, Places, Holding
<1>14. CASE PollTimeout /\ UNCHANGED <<opVars, started>>
  BY <1>1, <1>2, <1>3, <1>14
  DEF PollTimeout, Places, Holding
<1>15. CASE ForgetTask /\ UNCHANGED <<opVars, started>>
  BY <1>1, <1>2, <1>3, <1>15
  DEF ForgetTask, AfterTask, Places, Holding
<1>16. CASE RecordResult /\ UNCHANGED <<opVars, started>>
  BY <1>1, <1>2, <1>3, <1>16
  DEF RecordResult, Places, Holding
<1>17. ASSUME NEW t \in Task, StartTask(t)
       PROVE  Kept'
  BY <1>1, <1>2, <1>3, <1>17
  DEF StartTask, Launch, WantedKey, Places, Holding
<1>18. CASE SkipTask
  BY <1>1, <1>2, <1>3, <1>18
  DEF SkipTask, EndAttempt, Places, Holding
<1>19. CASE BodyReturned
  <2>1. /\ op.at = "task" /\ wait.at = "returned" /\ wait' = NotWaiting /\ op'.name = op.name
        /\ started' = started /\ recent' = recent /\ orphans' = orphans /\ dropped' = dropped
    BY <1>1, <1>19 DEF BodyReturned, EndAttempt
  <2>2. CASE op.name = DeleteOp
    BY <1>1, <1>2, <1>3, <1>19, <2>1, <2>2 DEF BodyReturned, CleanedProps, NoProperties, Holding
  <2>3. CASE op.name # DeleteOp
    BY <1>1, <1>2, <1>3, <1>19, <2>1, <2>3 DEF BodyReturned, CleanedProps, Holding, Places
  <2> QED
    BY <2>2, <2>3
<1>20. CASE BodyRefuses
  BY <1>1, <1>2, <1>3, <1>20
  DEF BodyRefuses, EndAttempt, Places, Holding
<1>21. CASE ConnectionLost /\ UNCHANGED started
  BY <1>1, <1>2, <1>3, <1>21
  DEF ConnectionLost, CutShort, RetryAttempt, Places, Holding
<1>22. CASE RetriesExhausted /\ UNCHANGED started
  BY <1>1, <1>2, <1>3, <1>22
  DEF RetriesExhausted, EndAttempt, Places, Holding
<1>23. CASE Crash /\ UNCHANGED started
  BY <1>1, <1>2, <1>3, <1>23
  DEF Crash, CutShort, Places, Holding
<1>24. ASSUME NEW t \in Task, NEW r \in {"success", "error"},
              EndTask(t, r), UNCHANGED <<opVars, started>>
       PROVE  Kept'
  BY <1>24 DEF EndTask
<1>25. ASSUME NEW t \in Task, AgeTask(t), UNCHANGED <<opVars, started>>
       PROVE  Kept'
  BY <1>25 DEF AgeTask
<1>26. CASE UNCHANGED vars
  BY <1>26 DEF vars
<1> QED
  BY <1>4, <1>5, <1>6, <1>7, <1>8, <1>9, <1>10, <1>11, <1>12, <1>13, <1>14, <1>15, <1>16, <1>17, <1>18,
     <1>19, <1>20, <1>21, <1>22, <1>23, <1>24, <1>25, <1>26
  DEF Next, Wrapper, Body, Trouble, Environment, VSphereStep, Waiting, WaitStep

\* When a guarded operation (create_server, backup_server) reports success, the property
\* its result was wanted in names the result of one of its own tasks, for any number of
\* attempts, crashes and polls, unless each of these tasks was lost or aged out.
THEOREM ResultIsKept == Spec => []ResultKept
<1>1. Init => Kept
  BY DEF Init, WaitInit, OpInit, NotWaiting, NoProperties, Kept, OwnTask, KeyHeld
<1>2. IInv /\ Kept => ResultKept
  <2> SUFFICES ASSUME IInv, Kept, op.outcome = "ok", op.name \in Guarded,
                      NEW t \in (started \cap recent) \ (orphans \union dropped)
               PROVE  props.ids[ResultKey] \in started
    BY DEF ResultKept
  <2>1. op.at = "idle" /\ wait = NotWaiting /\ props.task = NoTask /\ t # NoTask
    BY DEF IInv, Places, Holding, TypeOK, Object
  <2> QED
    BY <2>1 DEF Kept, KeyHeld, NotWaiting
<1> QED
  BY <1>1, <1>2, KeptStep, Invariance, PTL DEF Spec

-----------------------------------------------------------------------------
(* The saved id implements SingleFlight. *)

LEMMA FlightInit == Init => Flight!Init
BY DEF Init, WaitInit, OpInit, NotWaiting, NoProperties, Finished, Flight!Init

LEMMA FlightStep == IInv /\ [Next]_vars => [Flight!Next]_Flight!vars
<1> SUFFICES ASSUME IInv, [Next]_vars
             PROVE  [Flight!Next]_Flight!vars
  OBVIOUS
<1> USE DEF IInv, Places, Holding, Listed, TypeOK, WaitTypeOK, Properties, Wait,
            MaybeTask, Object, MaybeObject, NotWaiting, NoProperties, Finished, waitVars, opVars,
            Flight!Next, Flight!vars
<1>1. ASSUME NEW name \in OpName, Begin(name)
      PROVE  UNCHANGED Flight!vars
  BY <1>1 DEF Begin, BeginOperation
<1>2. CASE Wrapper
  <2>1. CASE SaveTask /\ UNCHANGED opVars
    <3>1. Flight!File
      BY <2>1 DEF SaveTask, Flight!File
    <3> QED
      BY <3>1
  <2>2. CASE MissTask /\ UNCHANGED opVars
    <3>1. wait.task \in Finished
      BY <2>2 DEF MissTask, Unfinished, TaskState
    <3>2. Flight!Release
      BY <2>2, <3>1 DEF MissTask, Flight!Release
    <3> QED
      BY <3>2
  <2>3. CASE ForgetTask /\ UNCHANGED opVars
    <3>1. Flight!Release
      BY <2>3 DEF ForgetTask, AfterTask, Flight!Release
    <3> QED
      BY <3>1
  <2>4. CASE (FindTask \/ PollAgain \/ PollTimeout) /\ UNCHANGED opVars
    BY <2>4 DEF FindTask, PollAgain, PollTimeout
  <2>5. CASE RecordResult /\ UNCHANGED opVars
    BY <2>5 DEF RecordResult
  <2>6. CASE NoDeferredTask \/ DeferredTask \/ DeferredReturned
    BY <2>6 DEF NoDeferredTask, DeferredTask, WaitForSaved, DeferredReturned
  <2>7. CASE TaskTimedOut \/ TaskFailed
    BY <2>7 DEF TaskTimedOut, TaskFailed
  <2> QED
    BY <1>2, <2>1, <2>2, <2>3, <2>4, <2>5, <2>6, <2>7
       DEF Wrapper, Waiting, WaitStep
<1>3. ASSUME NEW t \in Task, StartTask(t)
      PROVE  Flight!TakeOff(t)
  BY <1>3 DEF StartTask, Launch, Flight!TakeOff
<1>4. CASE SkipTask \/ BodyRefuses
  BY <1>4 DEF SkipTask, BodyRefuses
<1>5. CASE BodyReturned
  BY <1>5 DEF BodyReturned, CleanedProps
<1>6. CASE RetriesExhausted
  BY <1>6 DEF RetriesExhausted
<1>7. CASE Crash \/ ConnectionLost
  <2>1. CASE wait.at = "save"
    <3>1. Flight!Lose
      BY <1>7, <2>1 DEF Crash, ConnectionLost, CutShort, Flight!Lose
    <3> QED
      BY <3>1
  <2>2. CASE wait.at # "save"
    BY <1>7, <2>2 DEF Crash, ConnectionLost, CutShort
  <2> QED
    BY <2>1, <2>2
<1>8. ASSUME NEW t \in Task, NEW r \in {"success", "error"},
             EndTask(t, r), UNCHANGED opVars
      PROVE  Flight!Land(t)
  <2>1. t = (IF wait.at = "save" THEN wait.task ELSE props.task) \/ t \in orphans
    BY <1>8 DEF EndTask, UnfinishedTracked
  <2>2. Finished' = Finished \union {t}
    BY <1>8 DEF EndTask
  <2> QED
    BY <1>8, <2>1, <2>2 DEF EndTask, Flight!Land
<1>9. ASSUME NEW t \in Task, AgeTask(t), UNCHANGED opVars
      PROVE  UNCHANGED Flight!vars
  BY <1>9 DEF AgeTask
<1>10. CASE UNCHANGED vars
  BY <1>10 DEF vars
<1> QED
  BY <1>1, <1>2, <1>3, <1>4, <1>5, <1>6, <1>7, <1>8, <1>9, <1>10
     DEF Next, Body, Trouble, Environment, VSphereStep

\* The instance lets go of a task only after it has ended, and files every
\* task it starts unless a crash intervenes.
THEOREM Refinement == Spec => ImplementsSingleFlight
<1>1. Spec => Flight!Spec
  BY FlightInit, FlightStep, Invariance, PTL DEF Spec, Flight!Spec
<1> QED
  BY <1>1 DEF ImplementsSingleFlight

-----------------------------------------------------------------------------
(***************************************************************************)
(* Part II: PassThrough                                                    *)
(***************************************************************************)

Entry == [kind : Kind, by : Device, waited : BOOLEAN]
Hand == [op : {"attach", "detach"}, at : Place,
         task : {"none", "running", "success", "error"},
         outcome : {"none", "ok", "failed"}]

Entries == 1 .. Len(queue)
Reconfigs == {"add", "remove"}

\* The place at which a worker waits for a task.
PlaceOf(kind) ==
    CASE kind = "off" -> "stopping"
      [] kind = "on" -> "starting"
      [] OTHER -> "configuring"

-----------------------------------------------------------------------------
(* The invariant *)

\* A task somebody waits for is the one its worker is at.
Awaited(t) ==
    /\ work[t.by].task = "running"
    /\ work[t.by].at = PlaceOf(t.kind)
    /\ t.kind \in Reconfigs => (t.kind = "add" <=> work[t.by].op = "attach")

Watched ==
    /\ \A i \in Entries : queue[i].waited => Awaited(queue[i])
    /\ \A i, j \in Entries :
          queue[i].waited /\ queue[j].waited /\ queue[i].by = queue[j].by => i = j

\* A task nobody waits for may still add or remove a device; that is excused.
Unwatched ==
    /\ \A i \in Entries :
          queue[i].kind \in Reconfigs /\ ~queue[i].waited => queue[i].by \in excused
    /\ \A i \in Entries :
          /\ queue[i].kind = "remove"
          /\ ~queue[i].waited
          /\ class[queue[i].by] = "bracket"
          => Server \in excused

\* Only who stops the server starts it, and the flag comes last.
Way(d) ==
    /\ work[d].at \in {"stop", "stopping", "start", "starting"} => class[d] = "bracket"
    /\ work[d].at \notin {"idle", "body"} /\ work[d].op = "attach" => ~attached[d]
    /\ work[d].at # "idle" => work[d].outcome = "none"
    /\ work[d].task = "error" => Server \in excused
    /\ work[d].task = "error" /\ work[d].at = "starting" => d \in excused

Ways == \A d \in Device : Way(d)

Now(d) == IF attached[d] THEN 1 ELSE 0
Target(d) == IF work[d].op = "attach" THEN 1 ELSE 0

\* What the server has of a device: what the flag says until the task that
\* reconfigures it has ended, and what was asked for since.
Held(d) ==
    /\ work[d].at \in {"idle", "body", "stop", "stopping", "config"} => has[d] = Now(d)
    /\ work[d].at = "configuring" =>
          has[d] = IF work[d].task = "success" THEN Target(d) ELSE Now(d)
    /\ work[d].at \in {"start", "starting", "flag"} => has[d] = Target(d)
    /\ work[d].at \notin {"idle", "body"} => (attached[d] <=> work[d].op = "detach")
    /\ work[d].at = "idle" /\ work[d].outcome = "ok" => has[d] = Target(d)

AllHeld == \A d \in Device \ excused : Held(d)

\* What is to be removed is there.
Removable(d) ==
    /\ work[d].op = "detach"
    /\ class[d] = "bracket"
    /\ work[d].at \in {"stop", "stopping", "config"}
    => has[d] > 0

\* The worker of d will start the server if it finds it off.
Restarts(d) ==
    /\ class[d] = "bracket"
    /\ work[d].at \in {"body", "stop", "stopping", "config", "configuring", "start"}
    /\ work[d].at = "body" => ~Nothing(d)

PowerTask(i) == queue[i].kind \in {"off", "on"}

\* Sooner or later a power task finds the power as it wants it, and fails.
DoomedAt(j) ==
    /\ PowerTask(j)
    /\ \A i \in Entries : i < j /\ PowerTask(i) => queue[i].kind = queue[j].kind
    /\ queue[j].kind = power \/ \E i \in Entries : i < j /\ PowerTask(i)

Doomed == \E j \in Entries : DoomedAt(j)

\* Who stops the server has not come further than to wait for that.
Stopper(d) ==
    /\ Restarts(d)
    /\ work[d].at \in {"body", "stop", "stopping"}
    /\ work[d].at = "stopping" => work[d].task = "running"

Alone(i) ==
    /\ queue[i].kind # power
    /\ \A j \in Entries : PowerTask(j) => j = i
    /\ queue[i].kind = "off" => Stopper(queue[i].by)

\* There is one power task at most, and who will start a server that is off.
Tended ==
    /\ \A i \in Entries : PowerTask(i) => Alone(i)
    /\ \/ power = "on"
       \/ \E i \in Entries : queue[i].kind = "on"
       \/ \E d \in Device : Restarts(d)

Powered ==
    Server \notin excused =>
        /\ \A d \in Device : Removable(d)
        /\ Doomed \/ Tended

PassInv ==
    /\ PassTypeOK
    /\ Watched
    /\ Unwatched
    /\ Ways
    /\ AllHeld
    /\ Powered

-----------------------------------------------------------------------------
(* Effects of the actions *)

\* The queue, as a sequence of entries.
LEMMA QueueTyped ==
    ASSUME PassTypeOK
    PROVE  /\ queue \in Seq(Entry)
           /\ Len(queue) \in Nat
           /\ \A i \in Entries : /\ queue[i] \in Entry
                                 /\ queue[i].by \in Device
                                 /\ queue[i].kind \in Kind
                                 /\ queue[i].waited \in BOOLEAN
<1>1. queue \in Seq(Entry)
  BY DEF PassTypeOK, Entry
<1>2. Len(queue) \in Nat /\ \A i \in Entries : queue[i] \in Entry
  BY <1>1 DEF Entries
<1>3. QED
  BY <1>1, <1>2 DEF Entry

Moves(d, asked, at, waitsFor, outcome) ==
    /\ work' \in [Device -> Hand]
    /\ work'[d].op = asked
    /\ work'[d].at = at
    /\ work'[d].task = waitsFor
    /\ work'[d].outcome = outcome
    /\ \A e \in Device \ {d} : work'[e] = work[e]

Alike == UNCHANGED <<class, power, has, queue>>

LEMMA GoesEffect ==
    ASSUME PassTypeOK, NEW d \in Device, NEW place \in Place, Goes(d, place)
    PROVE  Moves(d, work[d].op, place, "none", work[d].outcome)
  BY DEF PassTypeOK, Goes, Moves, Hand

LEMMA EndsEffect ==
    ASSUME PassTypeOK, NEW d \in Device, NEW outcome \in {"ok", "failed"}, Ends(d, outcome)
    PROVE  Moves(d, work[d].op, "idle", "none", outcome)
  BY DEF PassTypeOK, Ends, Moves, Hand, Idle, Place

LEMMA CalledEffect ==
    ASSUME PassTypeOK, NEW d \in Device, Called(d)
    PROVE  /\ work[d].at = "idle"
           /\ \E asked \in {"attach", "detach"} : Moves(d, asked, "body", "none", "none")
           /\ Alike
           /\ UNCHANGED <<attached, saved, excused>>
<1>1. PICK asked \in {"attach", "detach"} :
          work' = [work EXCEPT ![d] = [Idle(asked, "none") EXCEPT !.at = "body"]]
  BY DEF Called
<1>2. [Idle(asked, "none") EXCEPT !.at = "body"] =
          [op |-> asked, at |-> "body", task |-> "none", outcome |-> "none"]
  BY DEF Idle
<1>3. Moves(d, asked, "body", "none", "none")
  BY <1>1, <1>2 DEF PassTypeOK, Moves, Hand, Place
<1>4. QED
  BY <1>3 DEF Called, Alike

\* What Abandons makes of the queue.
Abandoned(d) ==
    /\ Len(queue') = Len(queue)
    /\ queue' \in Seq(Entry)
    /\ \A i \in Entries :
          /\ queue'[i].kind = queue[i].kind
          /\ queue'[i].by = queue[i].by
          /\ queue'[i].waited = (queue[i].waited /\ queue[i].by # d)
    /\ UNCHANGED <<class, power, has, attached, saved>>

LEMMA AbandonsEffect ==
    ASSUME PassTypeOK, NEW d \in Device, Abandons(d)
    PROVE  work[d].at # "idle" /\ Abandoned(d)
<1>1. queue' = [i \in 1 .. Len(queue) |->
                  IF queue[i].by = d THEN [queue[i] EXCEPT !.waited = FALSE] ELSE queue[i]]
  BY QueueTyped DEF Abandons
<1>2. \A i \in 1 .. Len(queue) : queue[i] \in Entry
  BY QueueTyped DEF Entries
<1>3. \A i \in 1 .. Len(queue) :
        /\ queue'[i] \in Entry
        /\ queue'[i].kind = queue[i].kind
        /\ queue'[i].by = queue[i].by
        /\ queue'[i].waited = (queue[i].waited /\ queue[i].by # d)
  <2> TAKE i \in 1 .. Len(queue)
  <2>1. queue[i] \in Entry
    BY <1>2
  <2>2. CASE queue[i].by = d
    <3>1. queue'[i] = [queue[i] EXCEPT !.waited = FALSE]
      BY <1>1, <2>2
    <3>2. QED
      BY <2>1, <2>2, <3>1 DEF Entry
  <2>3. CASE queue[i].by # d
    <3>1. queue'[i] = queue[i]
      BY <1>1, <2>3
    <3>2. QED
      BY <2>1, <2>3, <3>1 DEF Entry
  <2>4. QED
    BY <2>2, <2>3
<1>4. Len(queue) \in Nat
  BY QueueTyped
<1>5. queue' \in Seq(Entry) /\ Len(queue') = Len(queue)
  <2>1. queue' \in [1 .. Len(queue) -> Entry]
    BY <1>1, <1>3
  <2>2. queue' \in Seq(Entry)
    BY <1>4, <2>1, SeqDef
  <2>3. 1 .. Len(queue') = 1 .. Len(queue) /\ Len(queue') \in Nat
    BY <2>1, <2>2, LenProperties
  <2>4. QED
    BY <1>4, <2>2, <2>3
<1>6. QED
  BY <1>3, <1>5 DEF Abandons, Abandoned, Entries

\* What Launches makes of the queue and of the worker.
Launched(d, kind, place) ==
    /\ Len(queue) < MaxQueue
    /\ Len(queue') = Len(queue) + 1
    /\ queue' \in Seq(Entry)
    /\ \A i \in Entries : queue'[i] = queue[i]
    /\ queue'[Len(queue) + 1] = [kind |-> kind, by |-> d, waited |-> TRUE]
    /\ Moves(d, work[d].op, place, "running", work[d].outcome)
    /\ UNCHANGED <<class, power, has, attached, excused>>

LEMMA LaunchesEffect ==
    ASSUME PassTypeOK, NEW d \in Device, NEW kind \in Kind, NEW place \in Place,
           Launches(d, kind, place)
    PROVE  Launched(d, kind, place)
<1>1. Moves(d, work[d].op, place, "running", work[d].outcome)
  BY DEF PassTypeOK, Launches, Moves, Hand
<1>2. queue' = Append(queue, [kind |-> kind, by |-> d, waited |-> TRUE])
  BY DEF Launches
<1>3. [kind |-> kind, by |-> d, waited |-> TRUE] \in Entry
  BY DEF Entry
<1>4. /\ Len(queue') = Len(queue) + 1
      /\ queue' \in Seq(Entry)
      /\ \A i \in Entries : queue'[i] = queue[i]
      /\ queue'[Len(queue) + 1] = [kind |-> kind, by |-> d, waited |-> TRUE]
  BY QueueTyped, <1>2, <1>3 DEF Entries
<1>5. QED
  BY <1>1, <1>4 DEF Launches, Launched

\* What Done makes of the queue and of the worker that waits, if any.
HeadDone(succeeded) ==
    /\ 1 \in Entries
    /\ Len(queue') = Len(queue) - 1
    /\ queue' \in Seq(Entry)
    /\ \A i \in 1 .. Len(queue') : i + 1 \in Entries /\ queue'[i] = queue[i + 1]
    /\ work' \in [Device -> Hand]
    /\ \A d \in Device :
          /\ work'[d].op = work[d].op
          /\ work'[d].at = work[d].at
          /\ work'[d].outcome = work[d].outcome
          /\ IF queue[1].waited /\ queue[1].by = d
             THEN work'[d].task = IF succeeded THEN "success" ELSE "error"
             ELSE work'[d].task = work[d].task
    /\ IF succeeded THEN excused' = excused
       ELSE /\ excused' \in SUBSET (Device \union {Server})
            /\ excused \subseteq excused'
            /\ Server \in excused'
            /\ queue[1].kind = "on" => queue[1].by \in excused'
    /\ UNCHANGED <<class, attached, saved>>

LEMMA DoneEffect ==
    ASSUME PassTypeOK, NEW succeeded \in BOOLEAN, queue # <<>>,
           Done(Head(queue), succeeded)
    PROVE  Head(queue) = queue[1] /\ HeadDone(succeeded)
<1>1. /\ Head(queue) = queue[1]
      /\ 1 \in Entries
      /\ Len(queue') = Len(queue) - 1
      /\ queue' \in Seq(Entry)
      /\ \A i \in 1 .. Len(queue') : i + 1 \in Entries /\ queue'[i] = queue[i + 1]
  BY QueueTyped DEF Done, Entries
<1>2. queue[1] \in Entry /\ queue[1].by \in Device
  BY QueueTyped, <1>1
<1>3. /\ work' \in [Device -> Hand]
      /\ \A d \in Device :
            /\ work'[d].op = work[d].op
            /\ work'[d].at = work[d].at
            /\ work'[d].outcome = work[d].outcome
            /\ IF queue[1].waited /\ queue[1].by = d
               THEN work'[d].task = IF succeeded THEN "success" ELSE "error"
               ELSE work'[d].task = work[d].task
  <2>1. work \in [Device -> Hand]
    BY DEF PassTypeOK, Hand
  <2>2. CASE queue[1].waited
    <3>1. work' = [work EXCEPT ![queue[1].by].task =
                      IF succeeded THEN "success" ELSE "error"]
      BY <1>1, <2>2 DEF Done
    <3> DEFINE r == IF succeeded THEN "success" ELSE "error"
    <3>2. r \in {"success", "error"} /\ work' = [work EXCEPT ![queue[1].by].task = r]
      BY <3>1
    <3> HIDE DEF r
    <3>3. work' \in [Device -> Hand] /\ work'[queue[1].by].task = r
      BY <1>2, <2>1, <3>2 DEF Hand
    <3>4. \A d \in Device :
            /\ work'[d].op = work[d].op
            /\ work'[d].at = work[d].at
            /\ work'[d].outcome = work[d].outcome
            /\ queue[1].by # d => work'[d].task = work[d].task
      BY <1>2, <2>1, <3>2 DEF Hand
    <3>5. QED
      BY <2>2, <3>3, <3>4 DEF r
  <2>3. CASE ~queue[1].waited
    <3>1. work' = work
      BY <1>1, <2>3 DEF Done
    <3>2. QED
      BY <2>1, <2>3, <3>1
  <2>4. QED
    BY <2>2, <2>3
<1>4. IF succeeded THEN excused' = excused
      ELSE /\ excused' \in SUBSET (Device \union {Server})
           /\ excused \subseteq excused'
           /\ Server \in excused'
           /\ queue[1].kind = "on" => queue[1].by \in excused'
  BY <1>1, <1>2 DEF Done, PassTypeOK
<1>5. QED
  BY <1>1, <1>3, <1>4 DEF HeadDone, Done

LEMMA PowerEndsEffect ==
    ASSUME PassTypeOK, PowerEnds
    PROVE  /\ HeadDone(TRUE)
           /\ queue[1].kind \in {"off", "on"}
           /\ power # queue[1].kind
           /\ power' = queue[1].kind
           /\ has' = has
<1>1. Head(queue) = queue[1] /\ HeadDone(TRUE)
  BY DoneEffect DEF PowerEnds
<1>2. QED
  BY <1>1 DEF PowerEnds

LEMMA ReconfigEndsEffect ==
    ASSUME PassTypeOK, ReconfigEnds
    PROVE  /\ HeadDone(TRUE)
           /\ queue[1].kind \in Reconfigs
           /\ power' = power
           /\ has' \in [Device -> 0 .. 2]
           /\ has'[queue[1].by] = IF queue[1].kind = "add" THEN has[queue[1].by] + 1
                                  ELSE has[queue[1].by] - 1
           /\ \A d \in Device : d # queue[1].by => has'[d] = has[d]
<1>1. Head(queue) = queue[1] /\ HeadDone(TRUE)
  BY DoneEffect DEF ReconfigEnds
<1>2. queue[1].by \in Device
  BY QueueTyped, <1>1 DEF HeadDone
<1>3. /\ queue[1].kind \in Reconfigs
      /\ IF queue[1].kind = "add" THEN has[queue[1].by] < 2 ELSE has[queue[1].by] > 0
      /\ has' = [has EXCEPT ![queue[1].by] = IF queue[1].kind = "add" THEN @ + 1 ELSE @ - 1]
      /\ power' = power
  BY <1>1 DEF ReconfigEnds, Reconfigs
<1>4. has \in [Device -> 0 .. 2]
  BY DEF PassTypeOK
<1>5. has[queue[1].by] \in 0 .. 2
  BY <1>2, <1>4
<1>6. CASE queue[1].kind = "add"
  <2>1. has' = [has EXCEPT ![queue[1].by] = has[queue[1].by] + 1]
    BY <1>3, <1>6
  <2>2. has[queue[1].by] + 1 \in 0 .. 2
    BY <1>3, <1>5, <1>6
  <2>3. QED
    BY <1>1, <1>2, <1>3, <1>4, <1>6, <2>1, <2>2
<1>7. CASE queue[1].kind # "add"
  <2>1. has' = [has EXCEPT ![queue[1].by] = has[queue[1].by] - 1]
    BY <1>3, <1>7
  <2>2. has[queue[1].by] - 1 \in 0 .. 2
    BY <1>3, <1>5, <1>7
  <2>3. QED
    BY <1>1, <1>2, <1>3, <1>4, <1>7, <2>1, <2>2
<1>8. QED
  BY <1>6, <1>7

LEMMA TaskFailsEffect ==
    ASSUME PassTypeOK, TaskFails
    PROVE  HeadDone(FALSE) /\ UNCHANGED <<power, has>>
  BY DoneEffect DEF TaskFails

LEMMA AgainEffect ==
    ASSUME PassTypeOK, NEW d \in Device, Again(d)
    PROVE  /\ work[d].at # "idle"
           /\ Abandoned(d)
           /\ Moves(d, work[d].op, "body", "none", work[d].outcome)
           /\ excused' = excused \union Upsets(d)
<1>1. Abandons(d) /\ Goes(d, "body")
  BY DEF Again
<1>2. Moves(d, work[d].op, "body", "none", work[d].outcome)
  BY <1>1, GoesEffect DEF Place
<1>3. QED
  BY <1>1, <1>2, AbandonsEffect DEF Again

LEMMA GivesUpEffect ==
    ASSUME PassTypeOK, NEW d \in Device, GivesUp(d)
    PROVE  /\ Abandoned(d)
           /\ Moves(d, work[d].op, "idle", "none", "failed")
           /\ excused' = excused \union {d, Server}
  BY AbandonsEffect, EndsEffect DEF GivesUp

\* An attempt that ends early: Skip, Refuse and NotOnHost.
LEMMA SkipEffect ==
    ASSUME PassTypeOK, NEW d \in Device, Skip(d)
    PROVE  /\ work[d].at = "body" /\ Nothing(d)
           /\ Moves(d, work[d].op, "idle", "none", "ok")
           /\ Alike /\ UNCHANGED <<attached, saved, excused>>
  BY EndsEffect DEF Skip, Alike

LEMMA RefuseEffect ==
    ASSUME PassTypeOK, NEW d \in Device, Refuse(d)
    PROVE  /\ work[d].at = "body" /\ ~Nothing(d) /\ class[d] = "cold"
           /\ Moves(d, work[d].op, "idle", "none", "failed")
           /\ Alike /\ UNCHANGED <<attached, saved, excused>>
  BY EndsEffect DEF Refuse, Alike

LEMMA NotOnHostEffect ==
    ASSUME PassTypeOK, NEW d \in Device, NotOnHost(d)
    PROVE  /\ work[d].at = "body" /\ ~Nothing(d)
           /\ Moves(d, work[d].op, "idle", "none", "failed")
           /\ Alike /\ UNCHANGED <<attached, saved>>
           /\ excused' = excused \union (IF power = "off" \/ queue # <<>> THEN {Server} ELSE {})
  BY EndsEffect DEF NotOnHost, Alike

LEMMA PrepareEffect ==
    ASSUME PassTypeOK, NEW d \in Device, Prepare(d)
    PROVE  /\ work[d].at = "body" /\ ~Nothing(d)
           /\ \E place \in {"stop", "config"} :
                 /\ place = "stop" <=> class[d] = "bracket"
                 /\ Moves(d, work[d].op, place, "none", work[d].outcome)
           /\ Alike /\ UNCHANGED <<attached, saved, excused>>
<1>1. CASE class[d] = "bracket"
  <2>1. Goes(d, "stop")
    BY <1>1 DEF Prepare
  <2>2. Moves(d, work[d].op, "stop", "none", work[d].outcome)
    BY <2>1, GoesEffect DEF Place
  <2>3. QED
    BY <1>1, <2>2 DEF Prepare, Alike
<1>2. CASE class[d] # "bracket"
  <2>1. Goes(d, "config")
    BY <1>2 DEF Prepare
  <2>2. Moves(d, work[d].op, "config", "none", work[d].outcome)
    BY <2>1, GoesEffect DEF Place
  <2>3. QED
    BY <1>2, <2>2 DEF Prepare, Alike
<1>3. QED
  BY <1>1, <1>2

LEMMA StopEffect ==
    ASSUME PassTypeOK, NEW d \in Device, Stop(d)
    PROVE  /\ work[d].at = "stop" /\ power = "on" /\ saved' = TRUE
           /\ Launched(d, "off", "stopping")
  BY LaunchesEffect DEF Stop, Kind, Place

LEMMA StartEffect ==
    ASSUME PassTypeOK, NEW d \in Device, Start(d)
    PROVE  /\ work[d].at = "start" /\ power = "off" /\ saved' = TRUE
           /\ Launched(d, "on", "starting")
  BY LaunchesEffect DEF Start, Kind, Place

LEMMA ConfigureEffect ==
    ASSUME PassTypeOK, NEW d \in Device, Configure(d)
    PROVE  /\ work[d].at = "config" /\ saved' = saved
           /\ \E kind \in Reconfigs :
                 /\ kind = "add" <=> work[d].op = "attach"
                 /\ Launched(d, kind, "configuring")
<1>1. CASE work[d].op = "attach"
  <2>1. Launches(d, "add", "configuring")
    BY <1>1 DEF Configure
  <2>2. Launched(d, "add", "configuring")
    BY <2>1, LaunchesEffect DEF Kind, Place
  <2>3. QED
    BY <1>1, <2>2 DEF Configure, Reconfigs
<1>2. CASE work[d].op # "attach"
  <2>1. Launches(d, "remove", "configuring")
    BY <1>2 DEF Configure
  <2>2. Launched(d, "remove", "configuring")
    BY <2>1, LaunchesEffect DEF Kind, Place
  <2>3. QED
    BY <1>2, <2>2 DEF Configure, Reconfigs
<1>3. QED
  BY <1>1, <1>2

LEMMA NoNeedEffect ==
    ASSUME PassTypeOK, NEW d \in Device, NoNeed(d)
    PROVE  /\ \/ /\ work[d].at = "stop" /\ power = "off"
                 /\ Moves(d, work[d].op, "config", "none", work[d].outcome)
              \/ /\ work[d].at = "start" /\ power = "on"
                 /\ Moves(d, work[d].op, "flag", "none", work[d].outcome)
           /\ Alike /\ UNCHANGED <<attached, saved, excused>>
<1>1. CASE power = "off"
  <2>1. work[d].at = "stop" /\ Goes(d, "config")
    BY <1>1 DEF NoNeed
  <2>2. Moves(d, work[d].op, "config", "none", work[d].outcome)
    BY <2>1, GoesEffect DEF Place
  <2>3. QED
    BY <1>1, <2>1, <2>2 DEF NoNeed, Alike
<1>2. CASE power # "off"
  <2>1. work[d].at = "start" /\ Goes(d, "flag")
    BY <1>2 DEF NoNeed
  <2>2. Moves(d, work[d].op, "flag", "none", work[d].outcome)
    BY <2>1, GoesEffect DEF Place
  <2>3. QED
    BY <1>2, <2>1, <2>2 DEF NoNeed, Alike, PassTypeOK
<1>3. QED
  BY <1>1, <1>2

LEMMA WaitEndsEffect ==
    ASSUME PassTypeOK, NEW d \in Device, WaitEnds(d)
    PROVE  /\ work[d].at \in Waits
           /\ \/ /\ work[d].task = "success"
                 /\ Moves(d, work[d].op, Following(d), "none", work[d].outcome)
              \/ /\ work[d].task = "error"
                 /\ Moves(d, work[d].op, "idle", "none", "failed")
           /\ Alike /\ UNCHANGED <<attached, excused>>
           /\ saved' \in BOOLEAN
<1>1. Following(d) \in Place
  BY DEF Following, Place
<1>2. saved' \in BOOLEAN
  BY DEF WaitEnds
<1>3. CASE work[d].task = "success"
  <2>1. Moves(d, work[d].op, Following(d), "none", work[d].outcome)
    BY <1>1, <1>3, GoesEffect DEF WaitEnds
  <2>2. QED
    BY <1>2, <1>3, <2>1 DEF WaitEnds, Alike
<1>4. CASE work[d].task = "error"
  <2>1. Ends(d, "failed")
    BY <1>4 DEF WaitEnds
  <2>2. Moves(d, work[d].op, "idle", "none", "failed")
    BY <2>1, EndsEffect
  <2>3. QED
    BY <1>2, <1>4, <2>2 DEF WaitEnds, Alike
<1>5. QED
  BY <1>3, <1>4 DEF WaitEnds

LEMMA FlagEffect ==
    ASSUME PassTypeOK, NEW d \in Device, Flag(d)
    PROVE  /\ work[d].at = "flag"
           /\ Moves(d, work[d].op, "idle", "none", "ok")
           /\ attached' \in [Device -> BOOLEAN]
           /\ work[d].op = "attach" => attached'[d]
           /\ work[d].op = "detach" /\ class[d] # "usb" => ~attached'[d]
           /\ \A e \in Device \ {d} : attached'[e] = attached[e]
           /\ excused \subseteq excused' /\ excused' \subseteq excused \union {d}
           /\ work[d].op = "detach" /\ class[d] = "usb" => d \in excused'
           /\ Alike /\ saved' = saved
<1>1. Moves(d, work[d].op, "idle", "none", "ok")
  BY EndsEffect DEF Flag
<1>2. PICK b \in BOOLEAN :
        /\ attached' = [attached EXCEPT ![d] = b]
        /\ b = (work[d].op = "attach" \/ (class[d] = "usb" /\ attached[d]))
  BY DEF Flag
<1>3. QED
  BY <1>1, <1>2 DEF Flag, Alike, PassTypeOK

(***************************************************************************)
(* The actions in four groups, by what they do to the queue.               *)
(***************************************************************************)

Others(d) ==
    /\ work' \in [Device -> Hand]
    /\ \A e \in Device \ {d} : work'[e] = work[e]

\* The queue stays as it is, and the worker does not wait for a task.
Quietly(d) == Called(d) \/ Skip(d) \/ Refuse(d) \/ NotOnHost(d) \/ Prepare(d)
              \/ NoNeed(d) \/ WaitEnds(d) \/ Flag(d)

LEMMA QuietEffect ==
    ASSUME PassTypeOK, NEW d \in Device, Quietly(d)
    PROVE  /\ Alike /\ Others(d)
           /\ work[d].at \in Waits => work[d].task # "running"
           /\ excused \subseteq excused'
<1>1. CASE Called(d)
  BY <1>1, CalledEffect DEF Moves, Others, Waits
<1>2. CASE Skip(d)
  BY <1>2, SkipEffect DEF Moves, Others, Waits
<1>3. CASE Refuse(d)
  BY <1>3, RefuseEffect DEF Moves, Others, Waits
<1>4. CASE NotOnHost(d)
  BY <1>4, NotOnHostEffect DEF Moves, Others, Waits
<1>5. CASE Prepare(d)
  BY <1>5, PrepareEffect DEF Moves, Others, Waits
<1>6. CASE NoNeed(d)
  BY <1>6, NoNeedEffect DEF Moves, Others, Waits
<1>7. CASE WaitEnds(d)
  BY <1>7, WaitEndsEffect DEF Moves, Others
<1>8. CASE Flag(d)
  BY <1>8, FlagEffect DEF Moves, Others, Waits
<1>9. QED
  BY <1>1, <1>2, <1>3, <1>4, <1>5, <1>6, <1>7, <1>8 DEF Quietly

\* A task joins the queue.
Launching(d, kind) ==
    /\ work[d].at = CASE kind = "off" -> "stop"
                      [] kind = "on" -> "start"
                      [] OTHER -> "config"
    /\ kind = "off" => power = "on"
    /\ kind = "on" => power = "off"
    /\ kind \in Reconfigs => (kind = "add" <=> work[d].op = "attach")
    /\ Launched(d, kind, PlaceOf(kind))
    /\ saved' \in BOOLEAN

LEMMA LaunchingEffect ==
    ASSUME PassTypeOK, NEW d \in Device, Stop(d) \/ Start(d) \/ Configure(d)
    PROVE  \E kind \in Kind : Launching(d, kind)
<1>1. CASE Stop(d)
  <2>1. PlaceOf("off") = "stopping" /\ "off" \in Kind /\ "off" \notin Reconfigs
    BY DEF PlaceOf, Kind, Reconfigs
  <2>2. Launching(d, "off")
    BY <1>1, <2>1, StopEffect DEF Launching
  <2>3. QED
    BY <2>1, <2>2
<1>2. CASE Start(d)
  <2>1. PlaceOf("on") = "starting" /\ "on" \in Kind /\ "on" \notin Reconfigs
    BY DEF PlaceOf, Kind, Reconfigs
  <2>2. Launching(d, "on")
    BY <1>2, <2>1, StartEffect DEF Launching
  <2>3. QED
    BY <2>1, <2>2
<1>3. CASE Configure(d)
  <2>1. /\ work[d].at = "config" /\ saved' = saved
        /\ \E kind \in Reconfigs : /\ kind = "add" <=> work[d].op = "attach"
                                   /\ Launched(d, kind, "configuring")
    BY <1>3, ConfigureEffect
  <2>2. PICK kind \in Reconfigs : /\ kind = "add" <=> work[d].op = "attach"
                                  /\ Launched(d, kind, "configuring")
    BY <2>1
  <2>3. PlaceOf(kind) = "configuring" /\ kind \in Kind /\ kind \notin {"off", "on"}
    BY DEF PlaceOf, Kind, Reconfigs
  <2>4. Launching(d, kind)
    BY <2>1, <2>2, <2>3 DEF Launching, PassTypeOK
  <2>5. QED
    BY <2>3, <2>4
<1>4. QED
  BY <1>1, <1>2, <1>3

\* The tasks of a worker are left alone.
Leaves(d) == Again(d) \/ WaitBreaks(d) \/ FlagBreaks(d) \/ GivesUp(d)

LEMMA LeavesEffect ==
    ASSUME PassTypeOK, NEW d \in Device, Leaves(d)
    PROVE  /\ Abandoned(d)
           /\ Others(d)
           /\ work'[d].at \in {"idle", "body"}
           /\ work'[d].op = work[d].op
           /\ work'[d].task = "none"
           /\ work[d].at # "idle" /\ work'[d].at = "body" => work'[d].outcome = work[d].outcome
           /\ work'[d].at = "idle" => work'[d].outcome = "failed"
           /\ work[d].at # "idle"
           /\ excused \subseteq excused'
           /\ Upsets(d) \subseteq excused'
           /\ excused' \in SUBSET (Device \union {Server})
           /\ work'[d].at = "idle" => d \in excused' /\ Server \in excused'
<1>1. CASE Again(d)
  BY <1>1, AgainEffect DEF Moves, Others, Upsets, PassTypeOK
<1>2. CASE GivesUp(d)
  BY <1>2, GivesUpEffect DEF Moves, Others, Upsets, PassTypeOK, GivesUp, Abandons
<1>3. QED
  BY <1>1, <1>2 DEF Leaves, WaitBreaks, FlagBreaks

\* The first task ends.
Ending == PowerEnds \/ ReconfigEnds \/ TaskFails

LEMMA EndingEffect ==
    ASSUME PassTypeOK, Ending
    PROVE  \E succeeded \in BOOLEAN : HeadDone(succeeded)
  BY PowerEndsEffect, ReconfigEndsEffect, TaskFailsEffect DEF Ending

LEMMA Grouped ==
    ASSUME PassNext
    PROVE  \/ Ending
           \/ \E d \in Device : \/ Quietly(d) \/ Leaves(d)
                                \/ Stop(d) \/ Start(d) \/ Configure(d)
  BY DEF PassNext, Worker, Ending, Quietly, Leaves

-----------------------------------------------------------------------------
(* Every step keeps the invariant *)

LEMMA PassTypeOKStep ==
    PassTypeOK /\ [PassNext]_passVars => PassTypeOK'
<1> SUFFICES ASSUME PassTypeOK, [PassNext]_passVars PROVE PassTypeOK'
  OBVIOUS
<1>0. /\ class \in [Device -> Class] /\ power \in {"on", "off"}
      /\ has \in [Device -> 0 .. 2] /\ attached \in [Device -> BOOLEAN] /\ saved \in BOOLEAN
      /\ queue \in Seq(Entry) /\ Len(queue) <= MaxQueue /\ Len(queue) \in Nat
      /\ work \in [Device -> Hand] /\ excused \in SUBSET (Device \union {Server})
  BY QueueTyped DEF PassTypeOK, Hand
<1> DEFINE Typed ==
      /\ class \in [Device -> Class] /\ power \in {"on", "off"}
      /\ has \in [Device -> 0 .. 2] /\ attached \in [Device -> BOOLEAN] /\ saved \in BOOLEAN
      /\ queue \in Seq(Entry) /\ Len(queue) <= MaxQueue
      /\ work \in [Device -> Hand] /\ excused \in SUBSET (Device \union {Server})
<1>1. SUFFICES Typed'
  BY DEF PassTypeOK, Entry, Hand
<1>2. ASSUME NEW d \in Device, Quietly(d) PROVE Typed'
  <2>1. Alike /\ Others(d)
    BY <1>2, QuietEffect
  <2>2. saved' \in BOOLEAN /\ attached' \in [Device -> BOOLEAN]
        /\ excused' \in SUBSET (Device \union {Server})
    <3>1. CASE Called(d)
      BY <1>0, <3>1 DEF Called
    <3>2. CASE Skip(d)
      BY <1>0, <3>2 DEF Skip
    <3>3. CASE Refuse(d)
      BY <1>0, <3>3 DEF Refuse
    <3>4. CASE NotOnHost(d)
      BY <1>0, <3>4 DEF NotOnHost
    <3>5. CASE Prepare(d)
      BY <1>0, <3>5 DEF Prepare
    <3>6. CASE NoNeed(d)
      BY <1>0, <3>6 DEF NoNeed
    <3>7. CASE WaitEnds(d)
      BY <1>0, <3>7 DEF WaitEnds
    <3>8. CASE Flag(d)
      BY <1>0, <3>8, FlagEffect
    <3>9. QED
      BY <1>2, <3>1, <3>2, <3>3, <3>4, <3>5, <3>6, <3>7, <3>8 DEF Quietly
  <2>3. QED
    BY <1>0, <2>1, <2>2 DEF Alike, Others
<1>3. ASSUME NEW d \in Device, Leaves(d) PROVE Typed'
  <2>1. Abandoned(d) /\ Others(d) /\ excused' \in SUBSET (Device \union {Server})
    BY <1>3, LeavesEffect
  <2>2. QED
    BY <1>0, <2>1 DEF Abandoned, Others
<1>4. ASSUME NEW d \in Device, Stop(d) \/ Start(d) \/ Configure(d) PROVE Typed'
  <2>1. PICK kind \in Kind : Launching(d, kind)
    BY <1>4, LaunchingEffect
  <2>2. Launched(d, kind, PlaceOf(kind)) /\ saved' \in BOOLEAN
    BY <2>1 DEF Launching
  <2>3. MaxQueue \in Nat
    BY PassThroughAssumption
  <2>4. QED
    BY <1>0, <2>2, <2>3 DEF Launched, Moves
<1>5. CASE Ending
  <2>1. PICK succeeded \in BOOLEAN : HeadDone(succeeded)
    BY <1>5, EndingEffect
  <2>2. power' \in {"on", "off"} /\ has' \in [Device -> 0 .. 2]
    BY <1>0, <1>5, PowerEndsEffect, ReconfigEndsEffect, TaskFailsEffect DEF Ending
  <2>3. excused' \in SUBSET (Device \union {Server})
    BY <1>0, <2>1 DEF HeadDone
  <2>4. Len(queue') <= MaxQueue
    BY <1>0, <2>1, PassThroughAssumption DEF HeadDone
  <2>5. QED
    BY <1>0, <2>1, <2>2, <2>3, <2>4 DEF HeadDone
<1>6. CASE UNCHANGED passVars
  BY <1>0, <1>6 DEF passVars
<1>7. QED
  BY <1>2, <1>3, <1>4, <1>5, <1>6, Grouped

LEMMA WatchedStep ==
    PassTypeOK /\ Watched /\ [PassNext]_passVars => Watched'
<1> SUFFICES ASSUME PassTypeOK, Watched, [PassNext]_passVars PROVE Watched'
  OBVIOUS
<1>0. /\ Len(queue) \in Nat /\ MaxQueue \in Nat
      /\ \A i \in Entries : queue[i] \in Entry /\ queue[i].by \in Device
                            /\ queue[i].kind \in Kind
  BY QueueTyped, PassThroughAssumption
<1>1. ASSUME NEW d \in Device, Quietly(d) PROVE Watched'
  <2>1. Alike /\ Others(d) /\ (work[d].at \in Waits => work[d].task # "running")
    BY <1>1, QuietEffect
  <2>2. \A i \in Entries : queue[i].waited => queue[i].by # d
    BY <1>0, <2>1 DEF Watched, Awaited, PlaceOf, Waits
  <2>3. Entries' = Entries /\ queue' = queue
    BY <2>1 DEF Alike, Entries
  <2>4. \A i \in Entries : queue[i].waited => work'[queue[i].by] = work[queue[i].by]
    BY <1>0, <2>1, <2>2 DEF Others
  <2>5. QED
    BY <2>3, <2>4 DEF Watched, Awaited
<1>2. ASSUME NEW d \in Device, Leaves(d) PROVE Watched'
  <2>1. Abandoned(d) /\ Others(d)
    BY <1>2, LeavesEffect
  <2>2. Entries' = Entries
    BY <2>1 DEF Abandoned, Entries
  <2>3. \A i \in Entries :
          queue'[i].waited => /\ queue[i].waited /\ queue[i].by # d
                              /\ queue'[i].kind = queue[i].kind
                              /\ queue'[i].by = queue[i].by
                              /\ work'[queue[i].by] = work[queue[i].by]
    BY <1>0, <2>1 DEF Abandoned, Others
  <2>4. QED
    BY <2>2, <2>3 DEF Watched, Awaited
<1>3. ASSUME NEW d \in Device, Stop(d) \/ Start(d) \/ Configure(d) PROVE Watched'
  <2>1. PICK kind \in Kind : Launching(d, kind)
    BY <1>3, LaunchingEffect
  <2>2. /\ Launched(d, kind, PlaceOf(kind))
        /\ kind \in Reconfigs => (kind = "add" <=> work[d].op = "attach")
    BY <2>1 DEF Launching
  <2>3. work[d].at \notin Waits
    BY <2>1 DEF Launching, Waits
  <2>4. \A i \in Entries : queue[i].waited => queue[i].by # d
    BY <1>0, <2>3 DEF Watched, Awaited, PlaceOf, Waits
  <2>5. \A i \in Entries' : i \in Entries \/ i = Len(queue) + 1
    BY <1>0, <2>2 DEF Launched, Entries
  <2>6. \A i \in Entries : i # Len(queue) + 1
    BY <1>0 DEF Entries
  <2>7. \A i \in Entries :
          queue[i].waited => queue'[i] = queue[i] /\ work'[queue[i].by] = work[queue[i].by]
    BY <1>0, <2>2, <2>4 DEF Launched, Moves
  <2>8. LET t == queue'[Len(queue) + 1]
        IN  t.by = d /\ t.kind = kind /\ t.waited
    BY <2>2 DEF Launched
  <2>9. /\ work'[d].task = "running"
        /\ work'[d].at = PlaceOf(kind)
        /\ kind \in Reconfigs => (kind = "add" <=> work'[d].op = "attach")
    BY <2>2 DEF Launched, Moves
  <2>10. ASSUME NEW i \in Entries', queue'[i].waited
         PROVE  Awaited(queue[i])'
    <3>1. CASE i \in Entries
      <4>1. queue'[i] = queue[i]
        BY <2>2, <3>1 DEF Launched
      <4>2. Awaited(queue[i])
        BY <2>10, <3>1, <4>1 DEF Watched
      <4>3. QED
        BY <2>7, <2>10, <3>1, <4>1, <4>2 DEF Awaited
    <3>2. CASE i = Len(queue) + 1
      BY <2>8, <2>9, <3>2 DEF Awaited
    <3>3. QED
      BY <2>5, <3>1, <3>2
  <2>11. ASSUME NEW i \in Entries', NEW j \in Entries', queue'[i].waited, queue'[j].waited,
                queue'[i].by = queue'[j].by
         PROVE  i = j
    <3>1. CASE i \in Entries /\ j \in Entries
      <4>1. queue'[i] = queue[i] /\ queue'[j] = queue[j]
        BY <2>2, <3>1 DEF Launched
      <4>2. QED
        BY <2>11, <3>1, <4>1 DEF Watched
    <3>2. CASE i \in Entries /\ j = Len(queue) + 1
      <4>1. queue'[i] = queue[i]
        BY <2>2, <3>2 DEF Launched
      <4>2. QED
        BY <2>4, <2>8, <2>11, <3>2, <4>1
    <3>3. CASE j \in Entries /\ i = Len(queue) + 1
      <4>1. queue'[j] = queue[j]
        BY <2>2, <3>3 DEF Launched
      <4>2. QED
        BY <2>4, <2>8, <2>11, <3>3, <4>1
    <3>4. QED
      BY <2>5, <3>1, <3>2, <3>3
  <2>12. QED
    BY <2>10, <2>11 DEF Watched
<1>4. CASE Ending
  <2>1. PICK succeeded \in BOOLEAN : HeadDone(succeeded)
    BY <1>4, EndingEffect
  <2>2. /\ 1 \in Entries
        /\ \A i \in Entries' : i + 1 \in Entries /\ queue'[i] = queue[i + 1] /\ i + 1 # 1
    BY <1>0, <2>1 DEF HeadDone, Entries
  <2>3. \A i \in Entries' :
          queue'[i].waited => ~(queue[1].waited /\ queue[1].by = queue'[i].by)
    BY <2>2 DEF Watched
  <2>4. \A i \in Entries' :
          queue'[i].waited => /\ queue'[i].by \in Device
                              /\ work'[queue'[i].by].task = work[queue'[i].by].task
                              /\ work'[queue'[i].by].at = work[queue'[i].by].at
                              /\ work'[queue'[i].by].op = work[queue'[i].by].op
    BY <1>0, <2>1, <2>2, <2>3 DEF HeadDone
  <2>5. ASSUME NEW i \in Entries', queue'[i].waited PROVE Awaited(queue[i])'
    <3>1. Awaited(queue'[i])
      BY <2>2, <2>5 DEF Watched
    <3>2. QED
      BY <2>4, <2>5, <3>1 DEF Awaited
  <2>6. ASSUME NEW i \in Entries', NEW j \in Entries', queue'[i].waited, queue'[j].waited,
               queue'[i].by = queue'[j].by
        PROVE  i = j
    <3>1. i + 1 = j + 1
      BY <2>2, <2>6 DEF Watched
    <3>2. QED
      BY <3>1 DEF Entries
  <2>7. QED
    BY <2>5, <2>6 DEF Watched
<1>5. CASE UNCHANGED passVars
  BY <1>5 DEF passVars, Watched, Awaited, Entries
<1>6. QED
  BY <1>1, <1>2, <1>3, <1>4, <1>5, Grouped

LEMMA UnwatchedStep ==
    PassTypeOK /\ Watched /\ Unwatched /\ [PassNext]_passVars => Unwatched'
<1> SUFFICES ASSUME PassTypeOK, Watched, Unwatched, [PassNext]_passVars PROVE Unwatched'
  OBVIOUS
<1>0. /\ Len(queue) \in Nat /\ MaxQueue \in Nat
      /\ \A i \in Entries : queue[i] \in Entry /\ queue[i].by \in Device
                            /\ queue[i].kind \in Kind /\ queue[i].waited \in BOOLEAN
  BY QueueTyped, PassThroughAssumption
<1>1. ASSUME NEW d \in Device, Quietly(d) PROVE Unwatched'
  <2>1. Alike /\ excused \subseteq excused'
    BY <1>1, QuietEffect
  <2>2. Entries' = Entries /\ queue' = queue /\ class' = class
    BY <2>1 DEF Alike, Entries
  <2>3. QED
    BY <2>1, <2>2 DEF Unwatched
<1>2. ASSUME NEW d \in Device, Leaves(d) PROVE Unwatched'
  <2>1. /\ Abandoned(d) /\ excused \subseteq excused' /\ Upsets(d) \subseteq excused'
    BY <1>2, LeavesEffect
  <2>2. Entries' = Entries /\ class' = class
    BY <2>1 DEF Abandoned, Entries
  <2>3. ASSUME NEW i \in Entries, queue[i].kind \in Reconfigs, queue[i].waited, queue[i].by = d
        PROVE  /\ work[d].at = "configuring"
               /\ queue[i].kind = "remove" <=> work[d].op # "attach"
    BY <2>3 DEF Watched, Awaited, PlaceOf, Reconfigs
  <2>4. ASSUME NEW i \in Entries, queue[i].kind \in Reconfigs, queue[i].waited, queue[i].by = d
        PROVE  /\ d \in Upsets(d)
               /\ queue[i].kind = "remove" /\ class[d] = "bracket" => Server \in Upsets(d)
    <3>1. work[d].op \in {"attach", "detach"}
      BY DEF PassTypeOK
    <3>2. QED
      BY <2>3, <2>4, <3>1 DEF Upsets
  <2>5. ASSUME NEW i \in Entries', queue'[i].kind \in Reconfigs, ~queue'[i].waited
        PROVE  /\ queue'[i].by \in excused'
               /\ queue'[i].kind = "remove" /\ class[queue'[i].by] = "bracket"
                     => Server \in excused'
    <3>1. /\ i \in Entries
          /\ queue'[i].kind = queue[i].kind
          /\ queue'[i].by = queue[i].by
          /\ ~queue[i].waited \/ queue[i].by = d
      BY <2>1, <2>2, <2>5 DEF Abandoned
    <3>2. CASE ~queue[i].waited
      BY <2>1, <2>5, <3>1, <3>2 DEF Unwatched
    <3>3. CASE queue[i].waited /\ queue[i].by = d
      BY <2>1, <2>4, <2>5, <3>1, <3>3
    <3>4. QED
      BY <1>0, <3>1, <3>2, <3>3
  <2>6. QED
    BY <2>2, <2>5 DEF Unwatched, Reconfigs
<1>3. ASSUME NEW d \in Device, Stop(d) \/ Start(d) \/ Configure(d) PROVE Unwatched'
  <2>1. PICK kind \in Kind : Launching(d, kind)
    BY <1>3, LaunchingEffect
  <2>2. Launched(d, kind, PlaceOf(kind))
    BY <2>1 DEF Launching
  <2>3. \A i \in Entries' : i \in Entries \/ i = Len(queue) + 1
    BY <1>0, <2>2 DEF Launched, Entries
  <2>4. \A i \in Entries' : ~queue'[i].waited => i \in Entries /\ queue'[i] = queue[i]
    BY <2>2, <2>3 DEF Launched
  <2>5. class' = class /\ excused' = excused
    BY <2>2 DEF Launched
  <2>6. QED
    BY <2>4, <2>5 DEF Unwatched
<1>4. CASE Ending
  <2>1. PICK succeeded \in BOOLEAN : HeadDone(succeeded)
    BY <1>4, EndingEffect
  <2>2. \A i \in Entries' : i + 1 \in Entries /\ queue'[i] = queue[i + 1]
    BY <1>0, <2>1 DEF HeadDone, Entries
  <2>3. class' = class /\ excused \subseteq excused'
    BY <2>1 DEF HeadDone
  <2>4. QED
    BY <2>2, <2>3 DEF Unwatched
<1>5. CASE UNCHANGED passVars
  BY <1>5 DEF passVars, Unwatched, Entries
<1>6. QED
  BY <1>1, <1>2, <1>3, <1>4, <1>5, Grouped

LEMMA WaysStep ==
    PassTypeOK /\ Watched /\ Ways /\ [PassNext]_passVars => Ways'
<1> SUFFICES ASSUME PassTypeOK, Watched, Ways, [PassNext]_passVars, NEW e \in Device
             PROVE  Way(e)'
  BY DEF Ways
<1>0. /\ Way(e)
      /\ class \in [Device -> Class] /\ attached \in [Device -> BOOLEAN]
      /\ work \in [Device -> Hand] /\ work[e] \in Hand
  BY DEF Ways, PassTypeOK, Hand
<1>1. ASSUME NEW d \in Device, Quietly(d) PROVE Way(e)'
  <2>1. Alike /\ Others(d) /\ excused \subseteq excused'
    BY <1>1, QuietEffect
  <2>2. CASE e # d
    <3>1. work'[e] = work[e] /\ class' = class /\ attached'[e] = attached[e]
      <4>1. CASE Flag(d)
        BY <2>1, <2>2, <4>1, FlagEffect DEF Others, Alike
      <4>2. CASE ~Flag(d)
        BY <1>1, <2>1, <2>2, <4>2 DEF Quietly, Others, Alike, Called, Skip, Refuse, NotOnHost,
           Prepare, NoNeed, WaitEnds
      <4>3. QED
        BY <4>1, <4>2
    <3>2. QED
      BY <1>0, <2>1, <3>1 DEF Way
  <2>3. CASE e = d
    <3>1. CASE Called(d)
      BY <1>0, <2>3, <3>1, CalledEffect DEF Moves, Alike, Way
    <3>2. CASE Skip(d)
      BY <1>0, <2>3, <3>2, SkipEffect DEF Moves, Alike, Way
    <3>3. CASE Refuse(d)
      BY <1>0, <2>3, <3>3, RefuseEffect DEF Moves, Alike, Way
    <3>4. CASE NotOnHost(d)
      BY <1>0, <2>3, <3>4, NotOnHostEffect DEF Moves, Alike, Way
    <3>5. CASE Prepare(d)
      <4>1. /\ work[d].at = "body" /\ ~Nothing(d)
            /\ Alike /\ UNCHANGED <<attached, saved, excused>>
            /\ \E place \in {"stop", "config"} :
                  /\ place = "stop" <=> class[d] = "bracket"
                  /\ Moves(d, work[d].op, place, "none", work[d].outcome)
        BY <3>5, PrepareEffect
      <4>2. PICK place \in {"stop", "config"} :
                  /\ place = "stop" <=> class[d] = "bracket"
                  /\ Moves(d, work[d].op, place, "none", work[d].outcome)
        BY <4>1
      <4>3. QED
        BY <1>0, <2>3, <4>1, <4>2 DEF Moves, Alike, Way, Nothing
    <3>6. CASE NoNeed(d)
      BY <1>0, <2>3, <3>6, NoNeedEffect DEF Moves, Alike, Way
    <3>7. CASE WaitEnds(d)
      BY <1>0, <2>3, <3>7, WaitEndsEffect DEF Moves, Alike, Way, Following, Waits
    <3>8. CASE Flag(d)
      BY <1>0, <2>3, <3>8, FlagEffect DEF Moves, Alike, Way
    <3>9. QED
      BY <1>1, <3>1, <3>2, <3>3, <3>4, <3>5, <3>6, <3>7, <3>8 DEF Quietly
  <2>4. QED
    BY <2>2, <2>3
<1>2. ASSUME NEW d \in Device, Leaves(d) PROVE Way(e)'
  <2>1. CASE e # d
    BY <1>0, <1>2, <2>1, LeavesEffect DEF Others, Abandoned, Way
  <2>2. CASE e = d
    BY <1>0, <1>2, <2>2, LeavesEffect DEF Abandoned, Way
  <2>3. QED
    BY <2>1, <2>2
<1>3. ASSUME NEW d \in Device, Stop(d) \/ Start(d) \/ Configure(d) PROVE Way(e)'
  <2>1. PICK kind \in Kind : Launching(d, kind)
    BY <1>3, LaunchingEffect
  <2>2. Launched(d, kind, PlaceOf(kind))
    BY <2>1 DEF Launching
  <2>3. CASE e # d
    BY <1>0, <2>2, <2>3 DEF Launched, Moves, Way
  <2>4. CASE e = d
    <3>1. /\ work[d].at \in {"stop", "start", "config"}
          /\ PlaceOf(kind) \in {"stopping", "starting", "configuring"}
          /\ PlaceOf(kind) \in {"stopping", "starting"} => work[d].at \in {"stop", "start"}
      BY <2>1 DEF Launching, PlaceOf
    <3>2. QED
      BY <1>0, <2>2, <2>4, <3>1 DEF Launched, Moves, Way
  <2>5. QED
    BY <2>3, <2>4
<1>4. CASE Ending
  <2>1. PICK succeeded \in BOOLEAN : HeadDone(succeeded)
    BY <1>4, EndingEffect
  <2>2. /\ work'[e].at = work[e].at
        /\ work'[e].op = work[e].op
        /\ work'[e].outcome = work[e].outcome
        /\ class' = class /\ attached' = attached
        /\ excused \subseteq excused'
    BY <2>1 DEF HeadDone
  <2>3. CASE work'[e].task = work[e].task
    BY <1>0, <2>2, <2>3 DEF Way
  <2>4. CASE work'[e].task # work[e].task
    <3>1. queue[1].waited /\ queue[1].by = e /\ 1 \in Entries
      BY <2>1, <2>4 DEF HeadDone
    <3>2. Awaited(queue[1])
      BY <3>1 DEF Watched
    <3>3. work[e].at = "starting" => queue[1].kind = "on"
      BY <3>1, <3>2 DEF Awaited, PlaceOf
    <3>4. work'[e].task = "error" => Server \in excused'
                                     /\ (work[e].at = "starting" => e \in excused')
      BY <2>1, <3>1, <3>3 DEF HeadDone
    <3>5. QED
      BY <1>0, <2>2, <3>4 DEF Way
  <2>5. QED
    BY <2>3, <2>4
<1>5. CASE UNCHANGED passVars
  BY <1>0, <1>5 DEF passVars, Way
<1>6. QED
  BY <1>1, <1>2, <1>3, <1>4, <1>5, Grouped

LEMMA AllHeldStep ==
    PassTypeOK /\ Watched /\ Unwatched /\ Ways /\ AllHeld /\ [PassNext]_passVars => AllHeld'
<1> SUFFICES ASSUME PassTypeOK, Watched, Unwatched, Ways, AllHeld, [PassNext]_passVars,
                    NEW e \in Device, e \notin excused'
             PROVE  Held(e)'
  BY DEF AllHeld
<1>0. /\ Way(e)
      /\ class \in [Device -> Class] /\ attached \in [Device -> BOOLEAN]
      /\ work \in [Device -> Hand] /\ work[e] \in Hand
      /\ has \in [Device -> 0 .. 2] /\ has[e] \in 0 .. 2
  BY DEF Ways, PassTypeOK, Hand
<1>1. ASSUME NEW d \in Device, Quietly(d) PROVE Held(e)'
  <2>1. Alike /\ Others(d) /\ excused \subseteq excused'
    BY <1>1, QuietEffect
  <2>2. Held(e)
    BY <2>1 DEF AllHeld
  <2>3. CASE e # d
    <3>1. work'[e] = work[e] /\ has' = has /\ attached'[e] = attached[e]
      <4>1. CASE Flag(d)
        BY <2>1, <2>3, <4>1, FlagEffect DEF Others, Alike
      <4>2. CASE ~Flag(d)
        BY <1>1, <2>1, <2>3, <4>2 DEF Quietly, Others, Alike, Called, Skip, Refuse, NotOnHost,
           Prepare, NoNeed, WaitEnds
      <4>3. QED
        BY <4>1, <4>2
    <3>2. QED
      BY <2>2, <3>1 DEF Held, Now, Target
  <2>4. CASE e = d
    <3>1. CASE Called(d)
      BY <2>2, <2>4, <3>1, CalledEffect DEF Moves, Alike, Held, Now, Target
    <3>2. CASE Skip(d)
      BY <1>0, <2>2, <2>4, <3>2, SkipEffect DEF Moves, Alike, Held, Now, Target, Nothing, Hand
    <3>3. CASE Refuse(d)
      BY <2>2, <2>4, <3>3, RefuseEffect DEF Moves, Alike, Held, Now, Target
    <3>4. CASE NotOnHost(d)
      BY <2>2, <2>4, <3>4, NotOnHostEffect DEF Moves, Alike, Held, Now, Target
    <3>5. CASE Prepare(d)
      <4>1. /\ work[d].at = "body" /\ ~Nothing(d)
            /\ Alike /\ UNCHANGED <<attached, saved, excused>>
            /\ \E place \in {"stop", "config"} :
                  /\ place = "stop" <=> class[d] = "bracket"
                  /\ Moves(d, work[d].op, place, "none", work[d].outcome)
        BY <3>5, PrepareEffect
      <4>2. PICK place \in {"stop", "config"} :
                  Moves(d, work[d].op, place, "none", work[d].outcome)
        BY <4>1
      <4>3. attached[d] <=> work[d].op = "detach"
        BY <1>0, <2>2, <2>4, <4>1 DEF Held, Now, Nothing, Hand
      <4>4. QED
        BY <1>0, <2>2, <2>4, <4>1, <4>2, <4>3 DEF Moves, Alike, Held, Now, Target
    <3>6. CASE NoNeed(d)
      BY <2>2, <2>4, <3>6, NoNeedEffect DEF Moves, Alike, Held, Now, Target
    <3>7. CASE WaitEnds(d)
      <4>1. /\ work[d].at \in {"stopping", "configuring", "starting"}
            /\ has'[d] = has[d] /\ attached'[d] = attached[d]
            /\ work'[d].op = work[d].op
        BY <3>7, WaitEndsEffect DEF Moves, Alike, Waits
      <4>2. CASE /\ work[d].task = "success"
                 /\ Moves(d, work[d].op, Following(d), "none", work[d].outcome)
        <5>1. /\ work'[d].at \in {"config", "start", "flag"}
              /\ work'[d].at = "config" <=> work[d].at = "stopping"
          BY <4>1, <4>2 DEF Moves, Following
        <5>2. QED
          BY <2>2, <2>4, <4>1, <4>2, <5>1 DEF Held, Now, Target
      <4>3. CASE /\ work[d].task = "error"
                 /\ Moves(d, work[d].op, "idle", "none", "failed")
        <5>1. work[d].at # "starting"
          BY <1>0, <2>1, <2>4, <4>3 DEF Way
        <5>2. has[d] = Now(d)
          BY <2>2, <2>4, <4>1, <4>3, <5>1 DEF Held
        <5>3. work'[d].at = "idle" /\ work'[d].outcome = "failed"
          BY <4>3 DEF Moves
        <5>4. QED
          BY <2>4, <4>1, <5>2, <5>3 DEF Held, Now
      <4>4. QED
        BY <3>7, <4>2, <4>3, WaitEndsEffect
    <3>8. CASE Flag(d)
      <4>1. /\ work[d].at = "flag" /\ has'[d] = has[d]
            /\ work'[d].op = work[d].op /\ work'[d].at = "idle"
            /\ work[d].op = "attach" => attached'[d]
            /\ work[d].op = "detach" => ~attached'[d]
        BY <2>4, <3>8, FlagEffect DEF Moves, Alike
      <4>2. QED
        BY <1>0, <2>2, <2>4, <4>1 DEF Held, Now, Target, Hand
    <3>9. QED
      BY <1>1, <3>1, <3>2, <3>3, <3>4, <3>5, <3>6, <3>7, <3>8 DEF Quietly
  <2>5. QED
    BY <2>3, <2>4
<1>2. ASSUME NEW d \in Device, Leaves(d) PROVE Held(e)'
  <2>1. /\ Abandoned(d) /\ Others(d) /\ Upsets(d) \subseteq excused'
        /\ work'[d].at = "idle" => d \in excused'
        /\ work'[d].at \in {"idle", "body"} /\ work[d].at # "idle"
    BY <1>2, LeavesEffect
  <2>2. Held(e)
    BY <1>2, LeavesEffect DEF AllHeld
  <2>3. CASE e # d
    BY <2>1, <2>2, <2>3 DEF Abandoned, Others, Held, Now, Target
  <2>4. CASE e = d
    <3>1. work'[d].at = "body"
      BY <2>1, <2>4
    <3>2. work[d].at \in {"body", "stop", "stopping", "config"}
      BY <1>0, <2>1, <2>4 DEF Upsets, Hand, Place
    <3>3. has'[d] = Now(d)'
      BY <2>1, <2>2, <2>4, <3>2 DEF Held, Abandoned, Now
    <3>4. QED
      BY <2>4, <3>1, <3>3 DEF Held
  <2>5. QED
    BY <2>3, <2>4
<1>3. ASSUME NEW d \in Device, Stop(d) \/ Start(d) \/ Configure(d) PROVE Held(e)'
  <2>1. PICK kind \in Kind : Launching(d, kind)
    BY <1>3, LaunchingEffect
  <2>2. Launched(d, kind, PlaceOf(kind))
    BY <2>1 DEF Launching
  <2>3. Held(e)
    BY <2>2 DEF Launched, AllHeld
  <2>4. CASE e # d
    BY <2>2, <2>3, <2>4 DEF Launched, Moves, Held, Now, Target
  <2>5. CASE e = d
    <3>1. \/ work[d].at = "stop" /\ PlaceOf(kind) = "stopping"
          \/ work[d].at = "start" /\ PlaceOf(kind) = "starting"
          \/ work[d].at = "config" /\ PlaceOf(kind) = "configuring"
      BY <2>1 DEF Launching, PlaceOf
    <3>2. /\ work'[d].at = PlaceOf(kind) /\ work'[d].op = work[d].op
          /\ work'[d].task = "running"
          /\ has' = has /\ attached' = attached
      BY <2>2 DEF Launched, Moves
    <3>3. QED
      BY <2>3, <2>5, <3>1, <3>2 DEF Held, Now, Target
  <2>6. QED
    BY <2>4, <2>5
<1>4. CASE Ending
  <2>1. PICK succeeded \in BOOLEAN : HeadDone(succeeded)
    BY <1>4, EndingEffect
  <2>2. /\ work'[e].at = work[e].at
        /\ work'[e].op = work[e].op
        /\ work'[e].outcome = work[e].outcome
        /\ attached' = attached
        /\ excused \subseteq excused'
    BY <2>1 DEF HeadDone
  <2>3. Held(e)
    BY <2>2 DEF AllHeld
  <2>4. /\ work'[e].task # work[e].task => Awaited(queue[1]) /\ queue[1].by = e
        /\ queue[1].by \in Device /\ 1 \in Entries
    <3>1. 1 \in Entries /\ queue[1].by \in Device
      BY <2>1, QueueTyped DEF HeadDone
    <3>2. work'[e].task # work[e].task => queue[1].waited /\ queue[1].by = e
      BY <2>1 DEF HeadDone
    <3>3. QED
      BY <3>1, <3>2 DEF Watched
  <2>5. CASE ReconfigEnds
    <3>1. /\ HeadDone(TRUE)
          /\ queue[1].kind \in Reconfigs
          /\ has'[queue[1].by] = IF queue[1].kind = "add" THEN has[queue[1].by] + 1
                                 ELSE has[queue[1].by] - 1
          /\ \A d \in Device : d # queue[1].by => has'[d] = has[d]
      BY <2>5, ReconfigEndsEffect
    <3>2. CASE queue[1].by # e
      <4>1. has'[e] = has[e] /\ work'[e].task = work[e].task
        BY <2>4, <3>1, <3>2
      <4>2. QED
        BY <2>2, <2>3, <4>1 DEF Held, Now, Target
    <3>3. CASE queue[1].by = e
      <4>1. queue[1].waited
        BY <2>2, <2>4, <3>1, <3>3 DEF Unwatched
      <4>2. Awaited(queue[1]) /\ work'[e].task = "success"
        BY <2>4, <3>1, <3>3, <4>1 DEF Watched, HeadDone
      <4>3. /\ work[e].task = "running" /\ work[e].at = "configuring"
            /\ queue[1].kind = "add" <=> work[e].op = "attach"
        BY <3>1, <3>3, <4>2 DEF Awaited, PlaceOf, Reconfigs
      <4>4. has[e] = Now(e) /\ (attached[e] <=> work[e].op = "detach")
        BY <2>3, <4>3 DEF Held
      <4>5. has'[e] = Target(e)'
        BY <1>0, <2>2, <3>1, <3>3, <4>3, <4>4 DEF Now, Target, Hand
      <4>6. QED
        BY <2>2, <4>2, <4>3, <4>4, <4>5 DEF Held
    <3>4. QED
      BY <3>2, <3>3
  <2>6. CASE PowerEnds \/ TaskFails
    <3>1. has' = has
      BY <2>6, PowerEndsEffect, TaskFailsEffect
    <3>2. CASE work'[e].task = work[e].task
      BY <2>2, <2>3, <3>1, <3>2 DEF Held, Now, Target
    <3>3. CASE work'[e].task # work[e].task /\ work[e].at = "configuring"
      <4>1. queue[1].kind \notin {"off", "on"} /\ work[e].task = "running"
        BY <2>4, <3>3 DEF Awaited, PlaceOf
      <4>2. HeadDone(FALSE)
        BY <2>6, <4>1, PowerEndsEffect, TaskFailsEffect
      <4>3. work'[e].task = "error"
        BY <3>3, <4>2 DEF HeadDone
      <4>4. QED
        BY <2>2, <2>3, <3>1, <3>3, <4>1, <4>3 DEF Held, Now, Target
    <3>4. CASE work[e].at # "configuring"
      BY <2>2, <2>3, <3>1, <3>4 DEF Held, Now, Target
    <3>5. QED
      BY <3>2, <3>3, <3>4
  <2>7. QED
    BY <1>4, <2>5, <2>6 DEF Ending
<1>5. CASE UNCHANGED passVars
  <2>1. Held(e)
    BY <1>5 DEF passVars, AllHeld
  <2>2. QED
    BY <1>5, <2>1 DEF passVars, Held, Now, Target
<1>6. QED
  BY <1>1, <1>2, <1>3, <1>4, <1>5, Grouped

LEMMA RemovableStep ==
    ASSUME PassInv, PassNext, Server \notin excused', NEW e \in Device
    PROVE  Removable(e)'
<1>0. /\ PassTypeOK /\ Watched /\ Unwatched
      /\ has \in [Device -> 0 .. 2] /\ has[e] \in 0 .. 2
      /\ work \in [Device -> Hand] /\ work[e] \in Hand
  BY DEF PassInv, PassTypeOK, Hand
<1>1. ASSUME Server \notin excused PROVE Removable(e)
  BY <1>1 DEF PassInv, Powered
<1>2. ASSUME NEW d \in Device, Quietly(d) PROVE Removable(e)'
  <2>1. Alike /\ Others(d) /\ Server \notin excused
    BY <1>0, <1>2, QuietEffect
  <2>2. CASE e # d
    BY <1>1, <2>1, <2>2 DEF Alike, Others, Removable
  <2>3. CASE e = d
    <3>1. CASE Called(d)
      BY <1>0, <2>3, <3>1, CalledEffect DEF Moves, Removable
    <3>2. CASE Skip(d)
      BY <1>0, <2>3, <3>2, SkipEffect DEF Moves, Removable
    <3>3. CASE Refuse(d)
      BY <1>0, <2>3, <3>3, RefuseEffect DEF Moves, Removable
    <3>4. CASE NotOnHost(d)
      BY <1>0, <2>3, <3>4, NotOnHostEffect DEF Moves, Removable
    <3>5. CASE Prepare(d)
      <4>1. /\ ~Nothing(d) /\ has' = has
            /\ \E place \in {"stop", "config"} :
                  Moves(d, work[d].op, place, "none", work[d].outcome)
        BY <1>0, <3>5, PrepareEffect DEF Alike
      <4>2. PICK place \in {"stop", "config"} :
                  Moves(d, work[d].op, place, "none", work[d].outcome)
        BY <4>1
      <4>3. QED
        BY <1>0, <2>3, <4>1, <4>2 DEF Moves, Nothing, Removable
    <3>6. CASE NoNeed(d)
      BY <1>0, <1>1, <2>1, <2>3, <3>6, NoNeedEffect DEF Moves, Alike, Removable
    <3>7. CASE WaitEnds(d)
      BY <1>0, <1>1, <2>1, <2>3, <3>7, WaitEndsEffect
         DEF Moves, Alike, Removable, Following, Waits
    <3>8. CASE Flag(d)
      BY <1>0, <2>3, <3>8, FlagEffect DEF Moves, Removable
    <3>9. QED
      BY <1>2, <3>1, <3>2, <3>3, <3>4, <3>5, <3>6, <3>7, <3>8 DEF Quietly
  <2>4. QED
    BY <2>2, <2>3
<1>3. ASSUME NEW d \in Device, Leaves(d) PROVE Removable(e)'
  <2>1. /\ Abandoned(d) /\ Others(d) /\ Server \notin excused
        /\ work'[d].at \in {"idle", "body"}
    BY <1>0, <1>3, LeavesEffect
  <2>2. QED
    BY <1>1, <2>1 DEF Abandoned, Others, Removable
<1>4. ASSUME NEW d \in Device, Stop(d) \/ Start(d) \/ Configure(d) PROVE Removable(e)'
  <2>1. PICK kind \in Kind : Launching(d, kind)
    BY <1>0, <1>4, LaunchingEffect
  <2>2. Launched(d, kind, PlaceOf(kind)) /\ Server \notin excused
    BY <2>1 DEF Launching, Launched
  <2>3. CASE e # d
    BY <1>1, <2>2, <2>3 DEF Launched, Moves, Removable
  <2>4. CASE e = d
    <3>1. \/ work[d].at = "stop"
          \/ PlaceOf(kind) \notin {"stop", "stopping", "config"}
      BY <2>1 DEF Launching, PlaceOf
    <3>2. QED
      BY <1>1, <2>2, <2>4, <3>1 DEF Launched, Moves, Removable
  <2>5. QED
    BY <2>3, <2>4
<1>5. CASE Ending
  <2>1. CASE TaskFails
    BY <1>0, <2>1, TaskFailsEffect DEF HeadDone
  <2>2. CASE PowerEnds
    BY <1>0, <1>1, <2>2, PowerEndsEffect DEF HeadDone, Removable
  <2>3. CASE ReconfigEnds
    <3>1. /\ HeadDone(TRUE)
          /\ queue[1].kind \in Reconfigs
          /\ has'[queue[1].by] = IF queue[1].kind = "add" THEN has[queue[1].by] + 1
                                 ELSE has[queue[1].by] - 1
          /\ \A d \in Device : d # queue[1].by => has'[d] = has[d]
      BY <1>0, <2>3, ReconfigEndsEffect
    <3>2. Server \notin excused /\ 1 \in Entries
      BY <3>1 DEF HeadDone
    <3>3. CASE queue[1].by # e
      BY <1>1, <3>1, <3>2, <3>3 DEF HeadDone, Removable
    <3>4. CASE queue[1].by = e /\ queue[1].kind = "add"
      BY <1>0, <3>1, <3>4 DEF Removable
    <3>5. CASE queue[1].by = e /\ queue[1].kind # "add" /\ class[e] = "bracket"
      <4>1. queue[1].kind = "remove"
        BY <3>1, <3>5 DEF Reconfigs
      <4>2. queue[1].waited
        BY <1>0, <3>2, <3>5, <4>1 DEF Unwatched
      <4>3. work[e].at = "configuring"
        BY <1>0, <3>2, <3>5, <4>1, <4>2 DEF Watched, Awaited, PlaceOf
      <4>4. QED
        BY <3>1, <4>3 DEF HeadDone, Removable
    <3>6. CASE class[e] # "bracket"
      BY <3>1, <3>6 DEF HeadDone, Removable
    <3>7. QED
      BY <3>3, <3>4, <3>5, <3>6
  <2>4. QED
    BY <1>5, <2>1, <2>2, <2>3 DEF Ending
<1>6. QED
  BY <1>2, <1>3, <1>4, <1>5, Grouped

\* A task that is doomed stays so, until it is the first one, and fails.
LEMMA DoomedStep ==
    ASSUME PassTypeOK, PassNext, Server \notin excused', Doomed
    PROVE  Doomed'
<1>0. Len(queue) \in Nat
  BY QueueTyped
<1>1. PICK j \in Entries : DoomedAt(j)
  BY DEF Doomed
<1>2. ASSUME Entries \subseteq Entries', power' = power,
             \A i \in Entries : queue'[i].kind = queue[i].kind
      PROVE  Doomed'
  <2>1. \A i \in Entries' : i < j => i \in Entries
    BY <1>0, <1>1 DEF Entries
  <2>2. DoomedAt(j)'
    BY <1>1, <1>2, <2>1 DEF DoomedAt, PowerTask
  <2>3. QED
    BY <1>1, <1>2, <2>2 DEF Doomed
<1>3. ASSUME NEW d \in Device, Quietly(d) PROVE Doomed'
  BY <1>2, <1>3, QuietEffect DEF Alike, Entries
<1>4. ASSUME NEW d \in Device, Leaves(d) PROVE Doomed'
  BY <1>2, <1>4, LeavesEffect DEF Abandoned, Entries
<1>5. ASSUME NEW d \in Device, Stop(d) \/ Start(d) \/ Configure(d) PROVE Doomed'
  <2>1. PICK kind \in Kind : Launching(d, kind)
    BY <1>5, LaunchingEffect
  <2>2. Launched(d, kind, PlaceOf(kind))
    BY <2>1 DEF Launching
  <2>3. Entries \subseteq Entries'
    BY <1>0, <2>2 DEF Launched, Entries
  <2>4. QED
    BY <1>2, <2>2, <2>3 DEF Launched
<1>6. CASE Ending
  <2>1. ~TaskFails
    BY TaskFailsEffect DEF HeadDone
  <2>2. HeadDone(TRUE)
    BY <1>6, <2>1, PowerEndsEffect, ReconfigEndsEffect DEF Ending
  <2>3. /\ 1 \in Entries
        /\ \A i \in Entries' : i + 1 \in Entries /\ queue'[i] = queue[i + 1]
        /\ \A i \in Entries : i # 1 => i - 1 \in Entries' /\ queue'[i - 1] = queue[i]
    BY <1>0, <2>2 DEF HeadDone, Entries
  <2>4. CASE PowerEnds
    <3>1. PowerTask(1) /\ power # queue[1].kind /\ power' = queue[1].kind
      BY <2>4, PowerEndsEffect DEF PowerTask
    <3>2. j # 1 /\ 1 < j
      BY <1>1, <3>1 DEF DoomedAt, Entries
    <3>3. queue[j].kind = power'
      BY <1>1, <2>3, <3>1, <3>2 DEF DoomedAt
    <3>4. j - 1 \in Entries' /\ queue'[j - 1] = queue[j]
      BY <1>1, <2>3, <3>2
    <3>5. \A i \in Entries' : i < j - 1 => i + 1 < j
      BY <1>1 DEF Entries
    <3>6. DoomedAt(j - 1)'
      BY <1>1, <2>3, <3>3, <3>4, <3>5 DEF DoomedAt, PowerTask
    <3>7. QED
      BY <3>4, <3>6 DEF Doomed
  <2>5. CASE ReconfigEnds
    <3>1. ~PowerTask(1) /\ power' = power
      BY <2>5, ReconfigEndsEffect DEF PowerTask, Reconfigs
    <3>2. j # 1
      BY <1>1, <3>1 DEF DoomedAt
    <3>3. j - 1 \in Entries' /\ queue'[j - 1] = queue[j]
      BY <1>1, <2>3, <3>2
    <3>4. \A i \in Entries' : i < j - 1 => i + 1 < j
      BY <1>1 DEF Entries
    <3>5. \A i \in Entries : i < j /\ PowerTask(i) =>
            i - 1 \in Entries' /\ i - 1 < j - 1 /\ queue'[i - 1] = queue[i]
      BY <1>1, <2>3, <3>1 DEF Entries
    <3>6. DoomedAt(j - 1)'
      BY <1>1, <2>3, <3>1, <3>3, <3>4, <3>5 DEF DoomedAt, PowerTask
    <3>7. QED
      BY <3>3, <3>6 DEF Doomed
  <2>6. QED
    BY <1>6, <2>1, <2>4, <2>5 DEF Ending
<1>7. QED
  BY <1>3, <1>4, <1>5, <1>6, Grouped

\* Who restarts the server goes on to do so, or finds that it runs.
LEMMA QuietRestarts ==
    ASSUME PassTypeOK, Ways, NEW d \in Device, Quietly(d), Server \notin excused',
           NEW e \in Device
    PROVE  /\ Restarts(e) => Restarts(e)' \/ power = "on"
           /\ Stopper(e) => Stopper(e)' \/ power = "off" \/ queue = <<>>
<1>0. /\ Alike /\ Others(d) /\ Server \notin excused
      /\ power \in {"on", "off"}
      /\ class \in [Device -> Class]
      /\ Way(d)
  BY QuietEffect DEF PassTypeOK, Ways
<1>1. CASE e # d
  <2>1. work'[e] = work[e] /\ has' = has /\ class' = class /\ attached'[e] = attached[e]
    <3>1. CASE Flag(d)
      BY <1>0, <1>1, <3>1, FlagEffect DEF Others, Alike
    <3>2. CASE ~Flag(d)
      BY <1>0, <1>1, <3>2 DEF Quietly, Others, Alike, Called, Skip, Refuse, NotOnHost,
         Prepare, NoNeed, WaitEnds
    <3>3. QED
      BY <3>1, <3>2
  <2>2. Nothing(e)' = Nothing(e)
    BY <2>1 DEF Nothing
  <2>3. QED
    BY <2>1, <2>2 DEF Restarts, Stopper
<1>2. CASE e = d
  <2>1. CASE Called(d)
    BY <1>2, <2>1 DEF Called, Restarts, Stopper
  <2>2. CASE Skip(d)
    BY <1>2, <2>2 DEF Skip, Restarts, Stopper
  <2>3. CASE Refuse(d)
    BY <1>2, <2>3 DEF Refuse, Restarts, Stopper
  <2>4. CASE NotOnHost(d)
    BY <1>0, <2>4 DEF NotOnHost
  <2>5. CASE Prepare(d)
    <3>1. /\ work[d].at = "body" /\ Alike
          /\ \E place \in {"stop", "config"} :
                /\ place = "stop" <=> class[d] = "bracket"
                /\ Moves(d, work[d].op, place, "none", work[d].outcome)
      BY <2>5, PrepareEffect
    <3>2. class[d] = "bracket" => work'[d].at = "stop"
      BY <3>1 DEF Moves
    <3>3. QED
      BY <1>2, <3>1, <3>2 DEF Restarts, Stopper, Alike
  <2>6. CASE NoNeed(d)
    <3>1. \/ work[d].at = "stop" /\ power = "off" /\ work'[d].at = "config"
          \/ work[d].at = "start" /\ power = "on"
      BY <2>6, NoNeedEffect DEF Moves
    <3>2. QED
      BY <1>0, <1>2, <3>1 DEF Restarts, Stopper, Alike
  <2>7. CASE WaitEnds(d)
    <3>1. /\ work[d].task = "success" /\ work[d].at \in Waits
          /\ Moves(d, work[d].op, Following(d), "none", work[d].outcome)
      BY <1>0, <2>7, WaitEndsEffect DEF Way
    <3>2. class[d] = "bracket" /\ work[d].at \in {"stopping", "configuring"}
             => work'[d].at \in {"config", "start"}
      BY <3>1 DEF Moves, Following
    <3>3. QED
      BY <1>0, <1>2, <3>1, <3>2 DEF Restarts, Stopper, Alike, Waits
  <2>8. CASE Flag(d)
    BY <1>2, <2>8 DEF Flag, Restarts, Stopper
  <2>9. QED
    BY <2>1, <2>2, <2>3, <2>4, <2>5, <2>6, <2>7, <2>8 DEF Quietly
<1>3. QED
  BY <1>1, <1>2

\* Another attempt finds that there is something to do.
LEMMA LeavesRestarts ==
    ASSUME PassInv, NEW d \in Device, Leaves(d), Server \notin excused', NEW e \in Device
    PROVE  /\ Restarts(e) => Restarts(e)'
           /\ Stopper(e) => Stopper(e)'
<1>0. /\ PassTypeOK /\ Way(e) /\ Way(d) /\ Removable(d)
      /\ Abandoned(d) /\ Others(d)
      /\ work'[d].op = work[d].op /\ work'[d].at = "body"
      /\ Server \notin Upsets(d)
      /\ work[d] \in Hand
  BY LeavesEffect DEF PassInv, Ways, Powered, PassTypeOK, Hand
<1>1. class' = class /\ has' = has /\ attached' = attached
  BY <1>0 DEF Abandoned
<1>2. CASE e # d
  BY <1>0, <1>1, <1>2 DEF Others, Restarts, Stopper, Nothing
<1>3. CASE e = d
  <2>1. ASSUME Restarts(d) PROVE ~Nothing(d)
    <3>1. CASE work[d].at = "body"
      BY <2>1, <3>1 DEF Restarts
    <3>2. CASE work[d].at # "body" /\ work[d].op = "attach"
      BY <1>0, <2>1, <3>2 DEF Way, Restarts, Nothing
    <3>3. CASE work[d].at # "body" /\ work[d].op = "detach"
      <4>1. work[d].at \in {"stop", "stopping", "config"}
        BY <1>0, <2>1, <3>3 DEF Restarts, Upsets
      <4>2. has[d] > 0 /\ has[d] \in 0 .. 2
        BY <1>0, <2>1, <3>3, <4>1 DEF Removable, Restarts, PassTypeOK
      <4>3. QED
        BY <3>3, <4>2 DEF Nothing
    <3>4. QED
      BY <1>0, <3>1, <3>2, <3>3 DEF Hand
  <2>2. Nothing(d)' = Nothing(d)
    BY <1>0, <1>1 DEF Nothing
  <2>3. QED
    BY <1>0, <1>1, <1>3, <2>1, <2>2 DEF Restarts, Stopper
<1>4. QED
  BY <1>2, <1>3

\* The queue may lose its waiter, but no task; its workers stay who they are.
LEMMA SameTasksTended ==
    ASSUME PassTypeOK, Tended, Entries' = Entries, power' = power,
           \A i \in Entries : queue'[i].kind = queue[i].kind /\ queue'[i].by = queue[i].by,
           \A d \in Device : Restarts(d) => Restarts(d)' \/ power = "on",
           \A d \in Device : Stopper(d) => Stopper(d)' \/ power = "off" \/ Entries = {}
    PROVE  Tended'
<1>1. \A i \in Entries : PowerTask(i)' = PowerTask(i)
  BY DEF PowerTask
<1>2. ASSUME NEW i \in Entries', PowerTask(i)' PROVE Alone(i)'
  <2>1. Alone(i)
    BY <1>1, <1>2 DEF Tended
  <2>2. /\ queue'[i].kind # power'
        /\ \A j \in Entries' : PowerTask(j)' => j = i
    BY <1>1, <1>2, <2>1 DEF Alone
  <2>3. ASSUME queue'[i].kind = "off" PROVE Stopper(queue[i].by)'
    <3>1. queue[i].kind = "off" /\ power # "off" /\ Stopper(queue[i].by)
      BY <1>2, <2>1, <2>3 DEF Alone
    <3>2. queue'[i].by = queue[i].by /\ Entries # {}
      BY <1>2
    <3>3. PICK b \in Device : b = queue[i].by
      BY <1>2, QueueTyped
    <3>4. Stopper(b)
      BY <3>1, <3>3
    <3>5. Stopper(b)'
      BY <3>1, <3>2, <3>4
    <3>6. QED
      BY <3>2, <3>3, <3>5
  <2>4. QED
    BY <2>2, <2>3 DEF Alone
<1>3. \/ power' = "on"
      \/ \E i \in Entries' : queue'[i].kind = "on"
      \/ \E d \in Device : Restarts(d)'
  BY DEF Tended
<1>4. QED
  BY <1>2, <1>3 DEF Tended

LEMMA TendedStep ==
    ASSUME PassInv, PassNext, Server \notin excused', Tended
    PROVE  Doomed' \/ Tended'
<1>0. /\ PassTypeOK /\ Watched /\ Unwatched /\ Ways
      /\ Len(queue) \in Nat
      /\ power \in {"on", "off"}
      /\ \A i \in Entries : queue[i].by \in Device /\ queue[i].kind \in Kind
  BY QueueTyped DEF PassInv, PassTypeOK
<1>1. ASSUME NEW d \in Device, Quietly(d) PROVE Tended'
  <2>1. Alike
    BY <1>0, <1>1, QuietEffect
  <2>2. queue = <<>> => Entries = {}
    BY DEF Entries
  <2>3. \A e \in Device : /\ Restarts(e) => Restarts(e)' \/ power = "on"
                          /\ Stopper(e) => Stopper(e)' \/ power = "off" \/ Entries = {}
    BY <1>0, <1>1, <2>2, QuietRestarts
  <2>4. Entries' = Entries /\ power' = power /\ queue' = queue
    BY <2>1 DEF Alike, Entries
  <2>5. QED
    BY <1>0, <2>3, <2>4, SameTasksTended
<1>2. ASSUME NEW d \in Device, Leaves(d) PROVE Tended'
  <2>1. Abandoned(d)
    BY <1>0, <1>2, LeavesEffect
  <2>2. \A e \in Device : /\ Restarts(e) => Restarts(e)'
                          /\ Stopper(e) => Stopper(e)'
    BY <1>2, LeavesRestarts
  <2>3. /\ Entries' = Entries /\ power' = power
        /\ \A i \in Entries : queue'[i].kind = queue[i].kind /\ queue'[i].by = queue[i].by
    BY <2>1 DEF Abandoned, Entries
  <2>4. QED
    BY <1>0, <2>2, <2>3, SameTasksTended
<1>3. ASSUME NEW d \in Device, Stop(d) \/ Start(d) \/ Configure(d) PROVE Doomed' \/ Tended'
  <2>1. PICK kind \in Kind : Launching(d, kind)
    BY <1>0, <1>3, LaunchingEffect
  <2>2. Launched(d, kind, PlaceOf(kind))
    BY <2>1 DEF Launching
  <2>0. PICK n \in Nat : n = Len(queue) + 1
    BY <1>0
  <2>3. /\ n \in Entries'
        /\ \A i \in Entries : i \in Entries' /\ i < n
        /\ \A i \in Entries' : i \in Entries \/ i = n
        /\ \A i \in Entries' : i < n => i \in Entries
    BY <1>0, <2>2, <2>0 DEF Launched, Entries
  <2>4. /\ \A i \in Entries : queue'[i] = queue[i]
        /\ queue'[n].kind = kind /\ queue'[n].by = d
        /\ power' = power /\ class' = class
    BY <2>2, <2>0 DEF Launched
  <2>5. \A i \in Entries : PowerTask(i)' = PowerTask(i)
    BY <2>4 DEF PowerTask
  <2>6. \A e \in Device : /\ Restarts(e) => Restarts(e)' \/ kind = "on"
                          /\ Stopper(e) => Stopper(e)'
    <3> SUFFICES ASSUME NEW e \in Device
                 PROVE  /\ Restarts(e) => Restarts(e)' \/ kind = "on"
                        /\ Stopper(e) => Stopper(e)'
      OBVIOUS
    <3>1. has' = has /\ attached' = attached
      BY <2>2 DEF Launched
    <3>2. CASE e # d
      <4>1. work'[e] = work[e]
        BY <2>2, <3>2 DEF Launched, Moves
      <4>2. QED
        BY <2>4, <3>1, <4>1 DEF Restarts, Stopper, Nothing
    <3>3. CASE e = d
      <4>1. \/ work[d].at = "stop" /\ work'[d].at = "stopping" /\ work'[d].task = "running"
            \/ work[d].at = "start" /\ kind = "on"
            \/ work[d].at = "config" /\ work'[d].at = "configuring"
        BY <2>1, <2>2 DEF Launching, Launched, Moves, PlaceOf
      <4>2. QED
        BY <2>4, <3>3, <4>1 DEF Restarts, Stopper
    <3>4. QED
      BY <3>2, <3>3
  <2>7. kind = "off" => power = "on" /\ Stopper(d)'
    <3>1. ASSUME kind = "off" PROVE Stopper(d)'
      <4>1. work[d].at = "stop" /\ Way(d)
        BY <1>0, <2>1, <3>1 DEF Launching, Ways
      <4>2. work'[d].at = "stopping" /\ work'[d].task = "running"
        BY <2>2, <3>1 DEF Launched, Moves, PlaceOf
      <4>3. QED
        BY <2>4, <4>1, <4>2 DEF Way, Restarts, Stopper
    <3>2. QED
      BY <2>1, <3>1 DEF Launching
  <2>8. kind = "on" => power = "off"
    BY <2>1 DEF Launching
  <2>9. \A i \in Entries : PowerTask(i) => Alone(i)
    BY DEF Tended
  <2>10. \/ power' = "on"
         \/ \E i \in Entries' : queue'[i].kind = "on"
         \/ \E e \in Device : Restarts(e)'
    <3>1. CASE kind = "on"
      BY <2>3, <2>4, <3>1
    <3>2. CASE kind # "on"
      BY <2>3, <2>4, <2>6, <3>2 DEF Tended
    <3>3. QED
      BY <3>1, <3>2
  <2>11. CASE kind \in Reconfigs
    <3>1. ~PowerTask(n)'
      BY <2>4, <2>11 DEF PowerTask, Reconfigs
    <3>2. ASSUME NEW i \in Entries', PowerTask(i)' PROVE Alone(i)'
      <4>1. i \in Entries /\ Alone(i)
        BY <2>3, <2>5, <2>9, <3>1, <3>2
      <4>2. \A j \in Entries' : PowerTask(j)' => j = i
        BY <2>3, <2>5, <3>1, <4>1 DEF Alone
      <4>3. queue[i].kind = "off" => Stopper(queue[i].by)'
        <5>1. PICK b \in Device : b = queue[i].by
          BY <1>0, <4>1
        <5>2. ASSUME queue[i].kind = "off" PROVE Stopper(b)'
          BY <2>6, <4>1, <5>1, <5>2 DEF Alone
        <5>3. queue'[i].by = b
          BY <2>4, <4>1, <5>1
        <5>4. QED
          BY <5>2, <5>3
      <4>4. QED
        BY <2>4, <4>1, <4>2, <4>3 DEF Alone
    <3>3. QED
      BY <2>10, <3>2 DEF Tended
  <2>12. CASE kind \in {"off", "on"} /\ \E i \in Entries : PowerTask(i)
    <3>1. \A i \in Entries : PowerTask(i) => queue[i].kind = kind
      BY <1>0, <2>7, <2>8, <2>9, <2>12 DEF Alone, PowerTask
    <3>2. \A i \in Entries' : i < n /\ PowerTask(i)' => queue'[i].kind = kind
      BY <2>3, <2>4, <2>5, <3>1
    <3>3. \E i \in Entries' : i < n /\ PowerTask(i)'
      BY <2>3, <2>5, <2>12
    <3>4. DoomedAt(n)'
      BY <2>4, <2>12, <3>2, <3>3 DEF DoomedAt, PowerTask
    <3>5. QED
      BY <2>3, <3>4 DEF Doomed
  <2>13. CASE kind \in {"off", "on"} /\ ~\E i \in Entries : PowerTask(i)
    <3>1. \A i \in Entries' : PowerTask(i)' => i = n
      BY <2>3, <2>5, <2>13
    <3>2. Alone(n)'
      <4>1. kind # power'
        BY <2>4, <2>7, <2>8, <2>13
      <4>2. QED
        BY <2>4, <2>7, <3>1, <4>1 DEF Alone
    <3>3. QED
      BY <2>10, <3>1, <3>2 DEF Tended
  <2>14. QED
    BY <2>11, <2>12, <2>13 DEF Kind, Reconfigs
<1>4. CASE Ending
  <2>1. ~TaskFails
    BY <1>0, TaskFailsEffect DEF HeadDone
  <2>2. HeadDone(TRUE) /\ Server \notin excused
    BY <1>0, <1>4, <2>1, PowerEndsEffect, ReconfigEndsEffect DEF Ending, HeadDone
  <2>3. /\ 1 \in Entries
        /\ \A i \in Entries' : i + 1 \in Entries /\ queue'[i] = queue[i + 1] /\ i + 1 # 1
        /\ \A i \in Entries : i # 1 => i - 1 \in Entries' /\ queue'[i - 1] = queue[i]
    BY <1>0, <2>2 DEF HeadDone, Entries
  <2>4. class' = class /\ attached' = attached
        /\ \A e \in Device : work'[e].at = work[e].at /\ work'[e].op = work[e].op
    BY <2>2 DEF HeadDone
  <2>5. CASE PowerEnds
    <3>1. PowerTask(1) /\ power' = queue[1].kind /\ power' \in {"off", "on"} /\ has' = has
      BY <1>0, <2>5, PowerEndsEffect DEF PowerTask
    <3>2. Alone(1)
      BY <2>3, <3>1 DEF Tended
    <3>3. \A i \in Entries' : ~PowerTask(i)'
      BY <2>3, <3>2 DEF Alone, PowerTask
    <3>4. ASSUME power' = "off" PROVE \E e \in Device : Restarts(e)'
      <4>1. PICK b \in Device : b = queue[1].by
        BY <1>0, <2>3
      <4>2. Restarts(b)
        BY <3>1, <3>2, <3>4, <4>1 DEF Alone, Stopper
      <4>3. Restarts(b)'
        BY <2>4, <3>1, <4>2 DEF Restarts, Nothing
      <4>4. QED
        BY <4>3
    <3>5. QED
      BY <3>1, <3>3, <3>4 DEF Tended
  <2>6. CASE ReconfigEnds
    <3>1. /\ queue[1].kind \in Reconfigs /\ power' = power
          /\ has' \in [Device -> 0 .. 2]
          /\ has'[queue[1].by] = IF queue[1].kind = "add" THEN has[queue[1].by] + 1
                                 ELSE has[queue[1].by] - 1
          /\ \A e \in Device : e # queue[1].by => has'[e] = has[e]
          /\ ~PowerTask(1)
      BY <1>0, <2>6, ReconfigEndsEffect DEF PowerTask, Reconfigs
    <3>2. ASSUME NEW e \in Device, Restarts(e) PROVE Restarts(e)'
      <4>1. ASSUME work[e].at = "body" PROVE ~Nothing(e)'
        <5>1. ~Nothing(e)
          BY <3>2, <4>1 DEF Restarts
        <5>2. CASE work[e].op = "attach" \/ queue[1].by # e
          BY <2>4, <3>1, <5>1, <5>2 DEF Nothing
        <5>3. CASE work[e].op # "attach" /\ queue[1].by = e /\ queue[1].kind = "add"
          <6>1. has[e] \in 0 .. 2 /\ has'[e] = has[e] + 1
            BY <1>0, <3>1, <5>3 DEF PassTypeOK
          <6>2. QED
            BY <2>4, <5>3, <6>1 DEF Nothing
        <5>4. CASE queue[1].by = e /\ queue[1].kind # "add"
          <6>1. queue[1].kind = "remove" /\ class[e] = "bracket"
            BY <3>1, <3>2, <5>4 DEF Reconfigs, Restarts
          <6>2. queue[1].waited
            BY <1>0, <2>2, <2>3, <5>4, <6>1 DEF Unwatched
          <6>3. work[e].at = "configuring"
            BY <1>0, <2>3, <5>4, <6>1, <6>2 DEF Watched, Awaited, PlaceOf
          <6>4. QED
            BY <4>1, <6>3
        <5>5. QED
          BY <5>2, <5>3, <5>4
      <4>2. QED
        BY <2>4, <3>2, <4>1 DEF Restarts
    <3>3. ASSUME NEW e \in Device, Stopper(e) PROVE Stopper(e)'
      <4>1. Restarts(e)'
        BY <3>2, <3>3 DEF Stopper
      <4>2. work'[e].task = work[e].task \/ work[e].at = "configuring"
        <5>1. CASE queue[1].waited /\ queue[1].by = e
          BY <1>0, <2>3, <3>1, <5>1 DEF Watched, Awaited, PlaceOf, Reconfigs
        <5>2. CASE ~(queue[1].waited /\ queue[1].by = e)
          BY <2>2, <5>2 DEF HeadDone
        <5>3. QED
          BY <5>1, <5>2
      <4>3. QED
        BY <2>4, <3>3, <4>1, <4>2 DEF Stopper
    <3>4. ASSUME NEW i \in Entries', PowerTask(i)' PROVE Alone(i)'
      <4>1. PowerTask(i + 1) /\ i + 1 \in Entries /\ queue'[i] = queue[i + 1]
        BY <2>3, <3>4 DEF PowerTask
      <4>2. Alone(i + 1)
        BY <4>1 DEF Tended
      <4>3. \A j \in Entries' : PowerTask(j)' => j = i
        <5> SUFFICES ASSUME NEW j \in Entries', PowerTask(j)' PROVE j = i
          OBVIOUS
        <5>1. PowerTask(j + 1) /\ j + 1 \in Entries
          BY <2>3 DEF PowerTask
        <5>2. j + 1 = i + 1
          BY <4>2, <5>1 DEF Alone
        <5>3. QED
          BY <5>2 DEF Entries
      <4>4. queue'[i].kind = "off" => Stopper(queue[i].by)'
        <5>1. PICK b \in Device : b = queue[i + 1].by
          BY <1>0, <4>1
        <5>2. queue'[i].by = b
          BY <4>1, <5>1
        <5>3. ASSUME queue'[i].kind = "off" PROVE Stopper(b)'
          BY <3>3, <4>1, <4>2, <5>1, <5>3 DEF Alone
        <5>4. QED
          BY <5>2, <5>3
      <4>5. QED
        BY <3>1, <4>1, <4>2, <4>3, <4>4 DEF Alone
    <3>5. \A i \in Entries : queue[i].kind = "on" => i # 1
      BY <3>1 DEF PowerTask
    <3>6. \/ power' = "on"
          \/ \E i \in Entries' : queue'[i].kind = "on"
          \/ \E e \in Device : Restarts(e)'
      BY <2>3, <3>1, <3>2, <3>5 DEF Tended
    <3>7. QED
      BY <3>4, <3>6 DEF Tended
  <2>7. QED
    BY <1>4, <2>1, <2>5, <2>6 DEF Ending
<1>5. QED
  BY <1>1, <1>2, <1>3, <1>4, Grouped

LEMMA PoweredStep ==
    PassInv /\ [PassNext]_passVars => Powered'
<1> SUFFICES ASSUME PassInv, [PassNext]_passVars, Server \notin excused'
             PROVE  (\A d \in Device : Removable(d)') /\ (Doomed' \/ Tended')
  BY DEF Powered
<1>1. CASE PassNext
  <2>1. Doomed \/ Tended
    <3>1. excused \subseteq excused'
      <4>1. PassTypeOK
        BY DEF PassInv
      <4>2. CASE Ending
        BY <4>1, <4>2, EndingEffect DEF HeadDone
      <4>3. ASSUME NEW d \in Device, Quietly(d) PROVE excused \subseteq excused'
        BY <4>1, <4>3, QuietEffect
      <4>4. ASSUME NEW d \in Device, Leaves(d) PROVE excused \subseteq excused'
        BY <4>1, <4>4, LeavesEffect
      <4>5. ASSUME NEW d \in Device, Stop(d) \/ Start(d) \/ Configure(d)
            PROVE  excused \subseteq excused'
        BY <4>1, <4>5, LaunchingEffect DEF Launching, Launched
      <4>6. QED
        BY <1>1, <4>2, <4>3, <4>4, <4>5, Grouped
    <3>2. QED
      BY <3>1 DEF PassInv, Powered
  <2>2. PassTypeOK
    BY DEF PassInv
  <2>3. QED
    BY <1>1, <2>1, <2>2, RemovableStep, DoomedStep, TendedStep
<1>2. CASE UNCHANGED passVars
  <2>1. (\A d \in Device : Removable(d)) /\ (Doomed \/ Tended)
    BY <1>2 DEF PassInv, Powered, passVars
  <2>2. \A d \in Device : Removable(d)'
    BY <1>2, <2>1 DEF passVars, Removable
  <2>3. Entries' = Entries /\ queue' = queue /\ power' = power
    BY <1>2 DEF passVars, Entries
  <2>4. CASE Doomed
    <3>1. PICK j \in Entries : DoomedAt(j)
      BY <2>4 DEF Doomed
    <3>2. \A i \in Entries : PowerTask(i)' <=> PowerTask(i)
      BY <2>3 DEF PowerTask
    <3>3. DoomedAt(j)'
      BY <2>3, <3>1, <3>2 DEF DoomedAt
    <3>4. QED
      BY <2>2, <2>3, <3>1, <3>3 DEF Doomed
  <2>5. CASE Tended
    <3>1. \A d \in Device : /\ Restarts(d) => Restarts(d)'
                            /\ Stopper(d) => Stopper(d)'
      BY <1>2 DEF passVars, Restarts, Stopper, Nothing
    <3>2. PassTypeOK
      BY DEF PassInv
    <3>3. QED
      BY <2>2, <2>3, <2>5, <3>1, <3>2, SameTasksTended
  <2>6. QED
    BY <2>1, <2>2, <2>4, <2>5
<1>3. QED
  BY <1>1, <1>2

-----------------------------------------------------------------------------
(* What follows *)

LEMMA PassInvInit ==
    PassInit => PassInv
<1> SUFFICES ASSUME PassInit PROVE PassInv
  OBVIOUS
<1>1. /\ queue = <<>> /\ Len(queue) = 0 /\ Entries = {}
      /\ work = [d \in Device |-> Idle("detach", "ok")]
      /\ has = [d \in Device |-> 0] /\ attached = [d \in Device |-> FALSE]
      /\ power \in {"on", "off"}
      /\ excused = IF power = "on" THEN {} ELSE {Server}
  BY DEF PassInit, Entries
<1>2. \A d \in Device : work[d] = [op |-> "detach", at |-> "idle", task |-> "none",
                                   outcome |-> "ok"]
  BY <1>1 DEF Idle
<1>3. PassTypeOK
  <2>1. work \in [Device -> Hand]
    BY <1>1, <1>2 DEF Hand, Place
  <2>2. queue \in Seq(Entry) /\ Len(queue) <= MaxQueue
    BY <1>1, PassThroughAssumption
  <2>3. QED
    <3>1. class \in [Device -> Class] /\ saved \in BOOLEAN
      BY DEF PassInit
    <3>2. has \in [Device -> 0 .. 2]
      BY <1>1
    <3>3. attached \in [Device -> BOOLEAN]
      BY <1>1
    <3>4. excused \in SUBSET (Device \union {Server})
      BY <1>1
    <3>5. QED
      BY <1>1, <2>1, <2>2, <3>1, <3>2, <3>3, <3>4 DEF PassTypeOK, Hand, Entry
<1>4. Watched /\ Unwatched
  BY <1>1 DEF Watched, Unwatched
<1>5. Ways /\ AllHeld
  BY <1>1, <1>2 DEF Ways, Way, AllHeld, Held, Now, Target
<1>6. Powered
  BY <1>1, <1>2 DEF Powered, Removable, Tended
<1>7. QED
  BY <1>3, <1>4, <1>5, <1>6 DEF PassInv

\* The inductive invariant.
THEOREM PassInvariance ==
    PassSpec => []PassInv
<1>1. PassInv /\ [PassNext]_passVars => PassInv'
  <2> SUFFICES ASSUME PassInv, [PassNext]_passVars PROVE PassInv'
    OBVIOUS
  <2>1. PassTypeOK /\ Watched /\ Unwatched /\ Ways /\ AllHeld
    BY DEF PassInv
  <2>2. QED
    BY <2>1, PassTypeOKStep, WatchedStep, UnwatchedStep, WaysStep, AllHeldStep, PoweredStep
       DEF PassInv
<1>2. QED
  BY <1>1, PassInvInit, PTL DEF PassSpec

\* The variables stay within their types: a queue of tasks of known workers, a device
\* that the server has at most twice.
THEOREM PassTypeCorrect ==
    PassSpec => []PassTypeOK
<1>1. PassInv => PassTypeOK
  BY DEF PassInv
<1>2. QED
  BY <1>1, PassInvariance, PTL

\* After an attach_* that ended well the server has the device once, after a detach_*
\* not at all.  Excused are an operation cut short after its task was issued, one that
\* was given up, a server that failed to start, and a USB device once detached, whose
\* flag stays.
THEOREM AttachedAsAsked ==
    PassSpec => []SuccessMeansDone
<1>1. PassInv => SuccessMeansDone
  <2> SUFFICES ASSUME PassInv, NEW d \in Device \ excused, work[d].outcome = "ok"
               PROVE  has[d] = (IF work[d].op = "attach" THEN 1 ELSE 0)
    BY DEF SuccessMeansDone
  <2>1. Way(d) /\ Held(d)
    BY DEF PassInv, Ways, AllHeld
  <2>2. QED
    BY <2>1 DEF Way, Held, Target
<1>2. QED
  BY <1>1, PassInvariance, PTL

\* temp_stop_server and temp_start_server of several operations at once: a server
\* that ran runs again when none of them is at work and no task is left.
THEOREM PowerComesBack ==
    PassSpec => []PowerRestored
<1>1. PassInv => PowerRestored
  <2> SUFFICES ASSUME PassInv, \A d \in Device : work[d].at = "idle", queue = <<>>,
                      Server \notin excused
               PROVE  power = "on"
    BY DEF PowerRestored
  <2>1. Entries = {}
    BY DEF Entries
  <2>2. ~Doomed
    BY <2>1 DEF Doomed
  <2>3. Tended
    BY <2>2 DEF PassInv, Powered
  <2>4. \A d \in Device : ~Restarts(d)
    BY DEF Restarts
  <2>5. QED
    BY <2>1, <2>3, <2>4 DEF Tended
<1>2. QED
  BY <1>1, PassInvariance, PTL

=============================================================================
