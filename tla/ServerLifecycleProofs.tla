------------------------ MODULE ServerLifecycleProofs ------------------------
(***************************************************************************)
(* Theorems about ServerLifecycle, for any tasks, nodes, polls and faults. *)
(*                                                                         *)
(* The invariant has three parts.  Protocol: the wait, as in the other     *)
(* modules.  Machines: what vSphere has and has still to do, compared with *)
(* the stored id; the id is right or there is none (Alive, Known), a clone *)
(* is made only when nothing else is there or on its way out (Fresh), and  *)
(* a machine that is on its way out is one that delete finds (Doomed).     *)
(* Worker: where the operation is (Workflow, Route), what it waits for     *)
(* (InHand, Keys), and what holds once a stage is passed (Results,         *)
(* Upgraded, Cleared, Made, Gone).                                         *)
(***************************************************************************)
EXTENDS ServerLifecycle, TLAPS

Operation ==
    [name : OpName, at : WrapperPlace \union Stage \union {"finish"},
     retry : BOOLEAN, outcome : Outcome]

OpTypes ==
    /\ WaitTypeOK
    /\ op \in Operation
    /\ orphans \in SUBSET Task /\ dropped \in SUBSET Task

ServerTypes ==
    /\ vm \in [Object -> Machine]
    /\ job \in [Task -> Job]
    /\ node \in Nodes
    /\ life \in {"none", "attempted", "created", "deleting"}
    /\ target \in MaybeObject
    /\ external \in BOOLEAN /\ nicKeys \in BOOLEAN /\ meddled \in BOOLEAN

-----------------------------------------------------------------------------
(* The wait *)

\* Where the wrapper and the body may be while the worker waits.
Places ==
    /\ op.at \in {"idle", "dispatch", "body", "finish"} => wait = NotWaiting
    /\ op.at = "deferred" => wait.at \notin {"none", "save"}
    /\ op.at \in Stage => wait.at # "lookup"
    /\ op.at = "clone" => wait.at # "none"
    /\ wait.at = "none" => wait = NotWaiting
    /\ op.outcome # "none" => op.at = "idle"

\* Which task the worker holds, and whether its id is stored.
Holding ==
    /\ wait.at # "none" => wait.task \in Task
    /\ wait.at \in {"lookup", "poll", "timeout"} => props.task = wait.task
    /\ wait.at \in {"save", "failed", "record", "returned"} => props.task = NoTask
    /\ wait.at = "record" => wait.key \in Key
    /\ op.at \in {"body", "finish"} \/ op.outcome = "ok" => props.task = NoTask
    /\ op.at \in Stage /\ wait.at = "none" => props.task = NoTask
    /\ wait.at = "record" => task[wait.task] = "success"
    /\ op.at \in Stage /\ wait.at = "returned" => task[wait.task] = "success"

\* Running tasks are listed, and new ones are not known yet.
Listed ==
    /\ Unfinished \subseteq recent
    /\ \A t \in Task : task[t] = "unused" =>
          t \notin orphans /\ t # props.task /\ t # wait.task

\* Lost tasks apart, only the one the instance knows of runs.
Tracked ==
    \A t \in Unfinished \ orphans :
        \/ props.task = t
        \/ wait.at = "save" /\ wait.task = t

Protocol == OpTypes /\ Places /\ Holding /\ Listed /\ Tracked

-----------------------------------------------------------------------------
(* The machines *)

\* Names are unique: at most one machine has the name of the server.
Serial == \A o, u \in Existing : o = u

\* An external server is somebody else's, any other one came from a clone.  Only clones
\* have the adapters of the template.
Whose ==
    /\ node.external => Existing \subseteq Other /\ \A t \in Task : job[t].kind # "clone"
    /\ ~node.external => Existing \subseteq Task
    /\ \A o \in Existing \cap Other : ~vm[o].oldNics

\* vSphere works on one task of a machine at a time.
OneUnblocked ==
    \A t, u \in Unfinished :
        /\ ~job[t].blocked /\ ~job[u].blocked
        /\ job[t].vm = job[u].vm /\ job[t].vm # NoTask
        => t = u

Id == props.ids[ServerKey]

\* Task t will destroy its machine, if it succeeds.
Destroys(t) == t \in Unfinished /\ job[t].kind = "destroy" /\ ~job[t].blocked

\* While a machine is being destroyed, delete finds it.
Doomed ==
    ~meddled /\ ~node.external =>
        \A t \in Task : Destroys(t) =>
            /\ life = "deleting"
            /\ job[t].vm \in Existing
            /\ Id \in {NoTask, job[t].vm}

\* The worker knows of task t.
Held(t) == props.task = t \/ (wait.at # "none" /\ wait.task = t)

\* A clone is made only when nothing is known of an earlier one.
Fresh ==
    ~meddled => \A t \in Task : Held(t) /\ job[t].kind = "clone" =>
        /\ Id \in {NoTask, t}
        /\ \A u \in Task : ~Destroys(u)
        /\ node.postpone => nicKeys
        /\ task[t] = "success" => t \in Existing

\* Until delete begins, the machine of the stored id is there.
Alive ==
    ~meddled /\ ~node.external =>
        /\ life \in {"attempted", "created"} /\ Id # NoTask => Id \in Existing
        /\ life = "created" => Id # NoTask

\* No machine but a lost clone hides behind another one's id.
Known ==
    ~meddled => \A o \in (Existing \cap Task) \ orphans : Id \in {NoTask, o}

\* The keys of the adapters are there as long as the adapters are.
Noted ==
    ~meddled => \A o \in Existing \ orphans : vm[o].oldNics => nicKeys

Machines ==
    /\ Serial /\ Whose /\ OneUnblocked /\ Doomed /\ Fresh /\ Alive /\ Known /\ Noted

-----------------------------------------------------------------------------
(* The operation *)

\* Which operations run in which phase, and what is known of an external server.
Workflow ==
    /\ op.at # "idle" => life # "none"
    /\ op.at # "idle" /\ op.name = DeleteOp => life = "deleting"
    /\ op.at # "idle" /\ op.name \in Creating => life \in {"attempted", "created"}
    /\ op.at # "idle" /\ op.name = "start" => life = "created"
    /\ life = "none" => Id = NoTask
    /\ external => node.external
    /\ node.external /\ Id # NoTask => external

\* Which operations pass a stage.
Passes(stage) ==
    CASE stage = "reconf" -> {"start"}
      [] stage \in {"clone", "upgrade", "nics"} -> Creating
      [] stage = "poweron" -> {"start", "resume", "power_on", "reset"}
      [] stage = "poweroff" -> {"stop", "power_off", DeleteOp}
      [] stage = "destroy" -> {DeleteOp}
      [] stage \in {"suspend", "reset"} -> {stage}
      [] OTHER -> ServerOps

\* An operation in a stage passes it, is not to spare its server, and found it by its id.
Route ==
    op.at \in Stage \union {"finish"} =>
        /\ op.name \in Passes(op.at)
        /\ ~Spared
        /\ op.name \in Creating /\ node.external => external
        /\ op.at = "clone" => ~node.external
        /\ op.at # "clone" => target \in Object
        /\ op.name = DeleteOp /\ ~meddled /\ ~node.external => Id \in {NoTask, target}

\* What the task of a stage does.
InHand ==
    op.at \in Stage /\ wait.at # "none" =>
        /\ job[wait.task].kind = op.at
        /\ op.at # "clone" => job[wait.task].vm = target
        /\ op.at = "clone" => job[wait.task].on = (op.name = "start" /\ node.startVm)

\* Only clones have a result that is recorded.
Keys ==
    /\ wait.at # "none" /\ wait.key # NoKey =>
          wait.key = ServerKey /\ job[wait.task].kind = "clone"
    /\ props.task # NoTask /\ props.key # NoKey =>
          props.key = ServerKey /\ job[props.task].kind = "clone"

\* The task of the stage has ended well.
Ended(stage) == op.at = stage /\ wait.at # "none" /\ task[wait.task] = "success"

\* The last stage that matters to what the operation promises is passed.
Achieved ==
    \/ op.at \in {"upgrade", "nics", "finish"}
    \/ \E stage \in {"clone", "poweron", "poweroff", "suspend"} : Ended(stage)
    \/ op.outcome = "ok" /\ ~Spared

\* What the operation promises of the machine's power state.
Kept(m) ==
    /\ op.name \in {"stop", "power_off"} => m.power = "off"
    /\ op.name \in {"resume", "power_on"} \/ (op.name = "start" /\ node.startVm) =>
          m.power = "on"
    /\ op.name = "suspend" => m.power \in {"suspended", "off"}

\* A machine that no lost task meets is in the promised state from then on.
Results == Achieved => \A o \in Existing \ Disturbed : Kept(vm[o])

\* The same of the stages of create, of the adapters, and of what create and delete end with.
Upgraded ==
    op.name = "create" /\ (op.at \in {"nics", "finish"} \/ Ended("upgrade") \/ op.outcome = "ok")
        => \A o \in Existing \ Disturbed : ~vm[o].oldHw \/ vm[o].power = "on"

Cleared ==
    ~meddled /\ (Ended("nics") \/ (op.name = "create" /\ (op.at = "finish" \/ op.outcome = "ok")))
        => \A o \in Existing \ orphans : ~vm[o].oldNics

Made ==
    op.name = "create" /\ op.outcome = "ok" /\ ~meddled => Existing # {} \/ orphans # {}

Gone ==
    op.name = DeleteOp /\ ~meddled /\ (op.at = "finish" \/ Ended("destroy") \/ op.outcome = "ok")
        => /\ Existing \cap Task \subseteq orphans
           /\ op.outcome # "ok" /\ ~node.external => \A t \in Task : ~Destroys(t)

Worker ==
    /\ Workflow /\ Route /\ InHand /\ Keys
    /\ Results /\ Upgraded /\ Cleared /\ Made /\ Gone

IInv == Protocol /\ ServerTypes /\ Machines /\ Worker

-----------------------------------------------------------------------------

USE TaskWaitAssumption, NodeOperationAssumption, ServerLifecycleAssumption

\* The ways an attempt ends or goes on keep the type of the operation record.
LEMMA AttemptType ==
    ASSUME op \in Operation
    PROVE  /\ \A outcome \in Outcome : EndAttempt(outcome) =>
                 /\ op' \in Operation /\ op'.at = "idle" /\ op'.outcome = outcome
                 /\ op'.name = op.name
           /\ RetryAttempt => op' \in Operation /\ op'.at = "dispatch"
                              /\ op'.name = op.name /\ op'.outcome = op.outcome
           /\ \A place \in WrapperPlace \union Stage \union {"finish"} :
                 op' = [op EXCEPT !.at = place] =>
                    op' \in Operation /\ op'.at = place /\ op'.name = op.name
                    /\ op'.outcome = op.outcome
BY DEF EndAttempt, RetryAttempt, Operation, WrapperPlace, Outcome

\* Where a body goes first: to a stage of its operation.
LEMMA FirstStageType ==
    ASSUME op \in Operation, NEW o
    PROVE  FirstStage(o) \in Stage \ {"clone"} /\ op.name \in Passes(FirstStage(o))
BY DEF FirstStage, Stage, Operation, Passes, Creating

\* Where a stage leads: to another one of the same operation, or to the end.
LEMMA NextStageType ==
    ASSUME op.at \in Stage, op.name \in Passes(op.at), op \in Operation
    PROVE  /\ NextStage \in (Stage \ {"clone", "reconf"}) \union {"finish"}
           /\ op.name \in Passes(NextStage)
BY DEF NextStage, Stage, Operation, Passes, Creating, ServerOps

\* The wait, as in AsyncOperation, needs to know only which stages follow which.
LEMMA ProtocolStep == Protocol /\ Route /\ [Next]_vars => Protocol'
<1> SUFFICES ASSUME Protocol, Route, [Next]_vars
             PROVE  Protocol'
  OBVIOUS
<1> USE DEF Protocol, OpTypes, Places, Holding, Listed, Tracked, Unfinished, Finished,
            waitVars, opVars, WaitTypeOK, NotWaiting, Properties, Wait, WaitPlace,
            MaybeTask, MaybeKey, Object, MaybeObject, TaskState, Outcome
<1>a. {"idle", "dispatch", "deferred", "body", "finish"} \cap Stage = {} /\ "clone" \in Stage
  BY DEF Stage
<1>b. op.at \in {"idle", "dispatch", "deferred", "body", "finish"} \union Stage
  BY DEF Operation, WrapperPlace
<1>1. ASSUME NEW name \in OpName, Begin(name)
      PROVE  Protocol'
  BY <1>1, <1>a DEF Begin, BeginOperation, Operation, WrapperPlace
<1>2. ASSUME NEW outcome \in {"ok", "failed"}, Ends(outcome), props' \in Properties,
             props'.task = NoTask
      PROVE  Protocol'
  <2>1. op' \in Operation /\ op'.at = "idle"
    BY <1>2, AttemptType DEF Ends
  <2> QED
    BY <1>2, <2>1, <1>a DEF Ends
<1>3. CASE FindServer
  <2>1. op' \in Operation /\ op'.at \in Stage \ {"clone"} /\ op'.outcome = op.outcome
    BY <1>3, AttemptType, FirstStageType DEF FindServer
  <2> QED
    BY <1>3, <2>1, <1>a DEF FindServer
<1>4. ASSUME NEW t \in Task, NEW kind \in Stage, NEW key \in MaybeKey,
             NEW o, StartJob(t, kind, o, key), op.at \in Stage \union {"body"}
      PROVE  Protocol'
  <2>1. op' \in Operation /\ op'.at = kind /\ op'.outcome = op.outcome
    BY <1>4, AttemptType DEF StartJob
  <2>2. OpTypes'
    BY <1>4, <2>1 DEF StartJob, Launch
  <2>3. (Places /\ Holding)'
    BY <1>4, <2>1, <1>a, <1>b DEF StartJob, Launch
  <2>4. (Listed /\ Tracked)'
    BY <1>4, <2>1, <1>a, <1>b DEF StartJob, Launch
  <2> QED
    BY <2>2, <2>3, <2>4
<1>5. CASE CreateNothing \/ StageGone
  <2>1. op' \in Operation /\ op'.at = "dispatch" /\ op'.outcome = op.outcome
    BY <1>5, AttemptType DEF CreateNothing, StageGone
  <2>2. wait = NotWaiting /\ op.at # "idle"
    BY <1>5, <1>a DEF CreateNothing, StageGone, AtStage
  <2>3. UNCHANGED <<task, recent, props, wait, orphans, dropped>>
    BY <1>5 DEF CreateNothing, StageGone
  <2> QED
    BY <2>1, <2>2, <2>3, <1>a
<1>6. CASE SkipStage \/ StageReturned
  <2>1. op' \in Operation /\ op'.at \in (Stage \ {"clone"}) \union {"finish"}
        /\ op'.outcome = op.outcome
    <3>1. op.at \in Stage /\ op.name \in Passes(op.at)
      BY <1>6 DEF SkipStage, StageReturned, AtStage, Route
    <3> QED
      BY <1>6, <3>1, AttemptType, NextStageType DEF SkipStage, StageReturned, StageDone
  <2>2. UNCHANGED <<task, recent, props, orphans, dropped>> /\ wait' = NotWaiting
        /\ op.at \in Stage /\ wait.at \in {"none", "returned"}
    BY <1>6 DEF SkipStage, StageReturned, StageDone, AtStage
  <2> QED
    BY <2>1, <2>2, <1>a
<1>7. CASE NoDeferredTask \/ DeferredTask \/ DeferredReturned
  <2>1. /\ op' \in Operation /\ op'.outcome = op.outcome
        /\ op'.at = IF DeferredTask THEN "deferred" ELSE "body"
    BY <1>7, AttemptType DEF NoDeferredTask, DeferredTask, DeferredReturned, WaitForSaved,
           WrapperPlace
  <2> QED
    BY <1>7, <2>1, <1>a DEF NoDeferredTask, DeferredTask, DeferredReturned, WaitForSaved
<1>8. CASE SaveTask /\ UNCHANGED opVars
  <2>1. OpTypes'
    BY <1>8 DEF SaveTask
  <2>2. (Places /\ Holding)'
    BY <1>8, <1>a, <1>b DEF SaveTask
  <2>3. (Listed /\ Tracked)'
    BY <1>8 DEF SaveTask
  <2> QED
    BY <2>1, <2>2, <2>3
<1>9. CASE (FindTask \/ MissTask) /\ UNCHANGED opVars
  BY <1>9, <1>a DEF FindTask, MissTask
<1>10. CASE (PollAgain \/ PollTimeout) /\ UNCHANGED opVars
  BY <1>10, <1>a DEF PollAgain, PollTimeout
<1>11. CASE ForgetTask /\ UNCHANGED opVars
  <2>1. OpTypes'
    BY <1>11 DEF ForgetTask, AfterTask
  <2>2. (Places /\ Holding)'
    BY <1>11, <1>a, <1>b DEF ForgetTask, AfterTask
  <2>3. (Listed /\ Tracked)'
    BY <1>11 DEF ForgetTask, AfterTask
  <2> QED
    BY <2>1, <2>2, <2>3
<1>12. CASE RecordResult /\ UNCHANGED opVars
  BY <1>12, <1>a DEF RecordResult
<1>13. CASE TaskTimedOut
  <2>1. op' \in Operation /\ op'.at = "dispatch" /\ op'.outcome = op.outcome
    BY <1>13, AttemptType DEF TaskTimedOut
  <2> QED
    BY <1>13, <2>1, <1>a, <1>b DEF TaskTimedOut
<1>14. CASE TaskFailed \/ RetriesExhausted
  <2>1. op' \in Operation /\ op'.at = "idle" /\ op'.outcome = "failed"
    BY <1>14, AttemptType DEF TaskFailed, RetriesExhausted
  <2> QED
    BY <1>14, <2>1, <1>a, <1>b DEF TaskFailed, RetriesExhausted
<1>15. CASE CutShort /\ (RetryAttempt \/ op' = [op EXCEPT !.at = "dispatch"])
  <2>1. op' \in Operation /\ op'.at = "dispatch" /\ op'.outcome = op.outcome
    BY <1>15, AttemptType DEF WrapperPlace
  <2> QED
    BY <1>15, <2>1, <1>a, <1>b DEF CutShort
<1>16. CASE CloneInterrupted
  <2>1. op' \in Operation /\ op'.at = "idle" /\ op'.outcome = "failed"
    BY <1>16, AttemptType DEF CloneInterrupted
  <2> QED
    BY <1>16, <2>1, <1>a, <1>b DEF CloneInterrupted, CutShort
<1>17. ASSUME NEW t \in Task, TaskEnds(t)
       PROVE  Protocol'
  <2>1. PICK r \in {"success", "error"} : EndTask(t, r)
    BY <1>17 DEF TaskEnds, TaskEndsWell, TaskEndsBadly, TaskSucceeds, CloneSucceeds
  <2>2. UNCHANGED opVars
    BY <1>17 DEF TaskEnds, TaskEndsWell, TaskEndsBadly
  <2> QED
    BY <2>1, <2>2 DEF EndTask
<1>18. ASSUME NEW t \in Task, Ageing(t)
       PROVE  Protocol'
  BY <1>18 DEF Ageing, AgeTask
<1>19. CASE ReuseTasks
  <2>1. props.task \notin Reusable /\ wait.task \notin Reusable
    BY DEF Reusable, Remembered
  <2>2. Reusable \subseteq Finished
    BY DEF Reusable
  <2>3. OpTypes'
    BY <1>19, <2>2 DEF ReuseTasks
  <2>4. (Places /\ Holding)'
    BY <1>19, <2>1 DEF ReuseTasks
  <2>5. (Listed /\ Tracked)'
    BY <1>19, <2>1, <2>2 DEF ReuseTasks
  <2> QED
    BY <2>3, <2>4, <2>5
<1>20. CASE UNCHANGED vars \/ MachineVanishes
  BY <1>20 DEF vars, MachineVanishes
<1>21. CASE SkipExternal \/ NothingToDo \/ MissingServer \/ UnknownServer
  <2>1. PICK outcome \in {"ok", "failed"} : Ends(outcome) /\ props' \in {props, CleanedProps}
    BY <1>21 DEF SkipExternal, NothingToDo, MissingServer, UnknownServer, Leaves
  <2>2. props.task = NoTask
    BY <2>1 DEF Ends
  <2>3. props' \in Properties /\ props'.task = NoTask
    BY <2>1, <2>2 DEF CleanedProps, NoProperties
  <2> QED
    BY <1>2, <2>1, <2>3
<1>22. CASE Finish
  <2>1. op' \in Operation /\ op'.at = "idle" /\ op'.outcome = "ok"
    BY <1>22, AttemptType DEF Finish
  <2>2. props.task = NoTask /\ wait = NotWaiting
    BY <1>22 DEF Finish
  <2>3. props' \in Properties /\ props'.task = NoTask
    BY <1>22, <2>2 DEF Finish, Leaves, CleanedProps, NoProperties, Existing
  <2> QED
    BY <1>22, <2>1, <2>2, <2>3, <1>a DEF Finish
<1>23. CASE \E t \in Task : CloneServer(t) \/ StartStage(t)
  <2>1. ServerKey \in MaybeKey /\ NoKey \in MaybeKey
    OBVIOUS
  <2>2. PICK t \in Task : CloneServer(t) \/ StartStage(t)
    BY <1>23
  <2>3. CASE CloneServer(t)
    BY <2>1, <2>3, <1>4, <1>a DEF CloneServer
  <2>4. CASE StartStage(t)
    BY <2>1, <2>4, <1>4, <1>a DEF StartStage, AtStage
  <2> QED
    BY <2>2, <2>3, <2>4
<1>24. CASE WorkerStops
  BY <1>14, <1>15, <1>16, <1>24 DEF WorkerStops, Crash, ConnectionLost
<1>25. CASE Wrapper
  BY <1>7, <1>8, <1>9, <1>10, <1>11, <1>12, <1>13, <1>14, <1>25
     DEF Wrapper, Waiting, WaitStep
<1>26. CASE \E t \in Task : TaskEnds(t) \/ Ageing(t)
  BY <1>17, <1>18, <1>26
<1>27. CASE Body
  BY <1>3, <1>5, <1>6, <1>21, <1>22, <1>23, <1>27 DEF Body
<1> QED
  BY <1>1, <1>19, <1>20, <1>24, <1>25, <1>26, <1>27 DEF Next, Trouble

-----------------------------------------------------------------------------
(* Types *)

\* What a task does to a machine leaves a machine.
LEMMA EffectType ==
    ASSUME NEW m \in Machine, NEW kind
    PROVE  Effect(kind, m) \in Machine
BY DEF Effect, Machine, Power, Absent

\* No effect brings back old hardware or old adapters, and few change the power state.
LEMMA EffectKeeps ==
    ASSUME NEW m \in Machine, NEW kind
    PROVE  /\ Effect(kind, m).oldHw => m.oldHw
           /\ Effect(kind, m).oldNics => m.oldNics
           /\ kind \in {"upgrade", "nics", "reconf"} => Effect(kind, m).power = m.power
<1>1. CASE kind \in {"poweron", "poweroff", "suspend", "upgrade", "nics", "destroy"}
  BY <1>1 DEF Effect, Machine, Absent
<1>2. CASE kind \notin {"poweron", "poweroff", "suspend", "upgrade", "nics", "destroy"}
  <2>1. Effect(kind, m) = m
    BY <1>2 DEF Effect
  <2> QED
    BY <2>1, <1>2
<1> QED
  BY <1>1, <1>2

\* Every step keeps the types of the machines, the tasks and the node.
LEMMA TypesStep == ServerTypes /\ OpTypes /\ Next => ServerTypes'
<1> SUFFICES ASSUME ServerTypes, OpTypes, Next
             PROVE  ServerTypes'
  OBVIOUS
<1> USE DEF ServerTypes, serverVars
<1>a. NoTask \in MaybeObject /\ \A o \in Existing : o \in MaybeObject
  BY DEF MaybeObject, Existing
<1>1. ASSUME NEW name \in OpName, Begin(name)
      PROVE  ServerTypes'
  BY <1>1 DEF Begin
<1>2. ASSUME NEW left, Leaves(left), UNCHANGED <<vm, job, node, meddled>>
      PROVE  ServerTypes'
  BY <1>2, <1>a DEF Leaves
<1>3. CASE FindServer
  BY <1>3, <1>a DEF FindServer, Server, ServerByContext
<1>4. ASSUME NEW t \in Task, NEW kind \in Stage, NEW o \in MaybeObject, NEW key,
             StartJob(t, kind, o, key), nicKeys' \in BOOLEAN, UNCHANGED life
      PROVE  ServerTypes'
  <2>1. node.startVm \in BOOLEAN
    OBVIOUS
  <2> DEFINE b == \E u \in Unfinished : o # NoTask /\ job[u].vm = o
             on == op.name = "start" /\ node.startVm
  <2>2. job' = [job EXCEPT ![t] = [kind |-> kind, vm |-> o, on |-> on, blocked |-> b]]
    BY <1>4 DEF StartJob
  <2>3. on \in BOOLEAN /\ b \in BOOLEAN
    BY <2>1
  <2> HIDE DEF b, on
  <2>4. job' \in [Task -> Job]
    BY <2>2, <2>3 DEF Job
  <2> QED
    BY <1>4, <2>4 DEF StartJob
<1>5. ASSUME NEW t \in Task, CloneServer(t)
      PROVE  ServerTypes'
  <2>1. nicKeys' \in BOOLEAN
    BY <1>5 DEF CloneServer, NotesNicKeys
  <2> QED
    BY <1>4, <1>5, <1>a, <2>1 DEF CloneServer, Stage
<1>6. ASSUME NEW t \in Task, StartStage(t)
      PROVE  ServerTypes'
  BY <1>4, <1>6, <1>a DEF StartStage, AtStage
<1>7. CASE SkipStage \/ StageReturned
  <2>1. UNCHANGED <<vm, job, node, life, external, meddled>> /\ nicKeys' \in BOOLEAN
    BY <1>7 DEF SkipStage, StageReturned, StageDone
  <2>2. target' \in {target, wait.task}
    BY <1>7 DEF SkipStage, StageReturned
  <2>3. wait.task \in MaybeObject
    BY DEF OpTypes, WaitTypeOK, Wait, MaybeTask, MaybeObject, Object
  <2> QED
    BY <2>1, <2>2, <2>3
<1>8. ASSUME NEW t \in Task, CloneSucceeds(t)
      PROVE  vm' \in [Object -> Machine]
  <2>1. node.postpone \in BOOLEAN
    OBVIOUS
  <2> DEFINE m == [power |-> IF job[t].on THEN "on" ELSE "off",
                   oldHw |-> TRUE, oldNics |-> node.postpone]
  <2>2. m \in Machine
    BY <2>1 DEF Machine, Power
  <2>3. vm' = [vm EXCEPT ![t] = m]
    BY <1>8 DEF CloneSucceeds
  <2> HIDE DEF m
  <2> QED
    BY <2>2, <2>3
<1>9. ASSUME NEW t \in Task, TaskSucceeds(t)
      PROVE  vm' \in [Object -> Machine]
  <2>1. vm' = [vm EXCEPT ![job[t].vm] = Effect(job[t].kind, vm[job[t].vm])]
        /\ job[t].vm \in Object
    BY <1>9 DEF TaskSucceeds, Existing
  <2>2. Effect(job[t].kind, vm[job[t].vm]) \in Machine
    BY <2>1, EffectType
  <2> QED
    BY <2>1, <2>2
<1>10. CASE \E t \in Task : TaskEnds(t) \/ Ageing(t)
  BY <1>8, <1>9, <1>10 DEF TaskEnds, TaskEndsWell, TaskEndsBadly, Ageing
<1>11. CASE MachineVanishes
  <2>1. Absent \in Machine
    BY DEF Absent, Machine, Power
  <2>2. vm' \in [Object -> Machine]
    BY <1>11, <2>1 DEF MachineVanishes, Existing
  <2> QED
    BY <1>11, <2>2 DEF MachineVanishes
<1>12. CASE ReuseTasks
  <2>1. NoJob \in Job
    BY <1>a DEF NoJob, Job
  <2>2. job' \in [Task -> Job]
    BY <1>12, <2>1 DEF ReuseTasks
  <2> QED
    BY <1>12, <2>2 DEF ReuseTasks
<1>13. CASE SkipExternal \/ NothingToDo \/ Finish
  BY <1>2, <1>13 DEF SkipExternal, NothingToDo, Finish, Ends
<1>14. CASE MissingServer \/ UnknownServer
  BY <1>14 DEF MissingServer, UnknownServer, Ends
<1>15. CASE CreateNothing \/ StageGone
  BY <1>15, <1>a DEF CreateNothing, StageGone, NotesNicKeys
<1>16. CASE Wrapper \/ WorkerStops
  BY <1>16, <1>a DEF Wrapper, WorkerStops
<1> QED
  BY <1>1, <1>3, <1>5, <1>6, <1>7, <1>10, <1>11, <1>12, <1>13, <1>14, <1>15, <1>16
     DEF Next, Body, Trouble

-----------------------------------------------------------------------------
(* The machines *)

\* A step that leaves the machines alone.
LEMMA Quiet ==
    ASSUME Machines, UNCHANGED <<vm, job, node, meddled, Id>>,
           orphans \subseteq orphans', Unfinished' \subseteq Unfinished,
           nicKeys => nicKeys',
           \A t \in Task : Held(t)' => Held(t) /\ (task'[t] = "success" => task[t] = "success"),
           life = "deleting" => life' = "deleting",
           life' \in {"attempted", "created"} => life \in {"attempted", "created"} \/ Id = NoTask,
           life' = "created" => life = "created"
    PROVE  Machines'
<1>1. Existing' = Existing
  BY DEF Existing
<1>2. \A t \in Task : Destroys(t)' => Destroys(t)
  BY DEF Destroys
<1>3. (Serial /\ Whose /\ OneUnblocked)'
  BY <1>1 DEF Machines, Serial, Whose, OneUnblocked
<1>4. Doomed'
  BY <1>1, <1>2 DEF Machines, Doomed
<1>5. Fresh'
  BY <1>1, <1>2 DEF Machines, Fresh
<1>6. (Alive /\ Known /\ Noted)'
  BY <1>1 DEF Machines, Alive, Known, Noted
<1> QED
  BY <1>3, <1>4, <1>5, <1>6 DEF Machines

\* A clone is made: nothing was there, and an earlier one is not awaited.
LEMMA CloneDone ==
    ASSUME Machines, Protocol, ServerTypes, NEW t \in Task, CloneSucceeds(t),
           UNCHANGED <<opVars, job, node, life, nicKeys, meddled>>
    PROVE  /\ Machines'
           /\ Existing' = {t}
<1>1. /\ Existing = {} /\ job[t].kind = "clone" /\ t \in Unfinished
      /\ task' = [task EXCEPT ![t] = "success"]
      /\ UNCHANGED <<props, wait, orphans, job, node, life, nicKeys, meddled, Id>>
  BY DEF CloneSucceeds, EndTask, opVars, Id
<1> DEFINE m == [power |-> IF job[t].on THEN "on" ELSE "off",
                 oldHw |-> TRUE, oldNics |-> node.postpone]
<1>2. vm' = [vm EXCEPT ![t] = m]
  BY DEF CloneSucceeds
<1>3. m.power # "absent" /\ m.oldNics = node.postpone
  OBVIOUS
<1> HIDE DEF m
<1>4. t \in Object /\ vm \in [Object -> Machine] /\ task \in [Task -> TaskState]
  BY DEF Object, ServerTypes, Protocol, OpTypes, WaitTypeOK
<1>5. Existing' = {t} /\ vm'[t] = m
  BY <1>1, <1>2, <1>3, <1>4 DEF Existing
<1>6. /\ Unfinished' \subseteq Unfinished /\ t \notin Unfinished'
      /\ \A u \in Task : Destroys(u)' => Destroys(u)
      /\ \A u \in Task : u # t => task'[u] = task[u]
  BY <1>1, <1>4 DEF Unfinished, Destroys
<1>7. t \notin orphans => Held(t)
  BY <1>1 DEF Protocol, Tracked, Held
<1>8. (Serial /\ Whose /\ OneUnblocked)'
  BY <1>1, <1>5, <1>6 DEF Machines, Serial, Whose, OneUnblocked
<1>9. Doomed'
  BY <1>1, <1>6 DEF Machines, Doomed
<1>10. Fresh'
  BY <1>1, <1>5, <1>6 DEF Machines, Fresh, Held
<1>11. Alive'
  BY <1>1 DEF Machines, Alive
<1>12. Known' /\ Noted'
  BY <1>1, <1>3, <1>5, <1>7 DEF Machines, Fresh, Known, Noted
<1> QED
  BY <1>5, <1>8, <1>9, <1>10, <1>11, <1>12 DEF Machines

\* What any other task does to the machines.
LEMMA Affected ==
    ASSUME ServerTypes, NEW t \in Task, TaskSucceeds(t)
    PROVE  LET o == job[t].vm
           IN /\ o \in Existing /\ o \in Object /\ o # NoTask
              /\ Existing' = IF job[t].kind = "destroy" THEN Existing \ {o} ELSE Existing
              /\ \A u \in Object \ {o} : vm'[u] = vm[u]
              /\ vm'[o] = Effect(job[t].kind, vm[o])
<1> DEFINE o == job[t].vm
           m == Effect(job[t].kind, vm[o])
<1>1. o \in Existing /\ vm' = [vm EXCEPT ![o] = m]
  BY DEF TaskSucceeds
<1>2. o \in Object /\ vm[o] \in Machine /\ vm[o].power # "absent"
  BY <1>1 DEF Existing, ServerTypes
<1>3. m.power = "absent" <=> job[t].kind = "destroy"
  BY <1>2 DEF Effect, Absent, Machine
<1> HIDE DEF m
<1>4. /\ \A u \in Object \ {o} : vm'[u] = vm[u]
      /\ vm'[o] = m
  BY <1>1, <1>2 DEF ServerTypes
<1>5. Existing' = IF job[t].kind = "destroy" THEN Existing \ {o} ELSE Existing
  BY <1>1, <1>2, <1>3, <1>4 DEF Existing
<1> QED
  BY <1>1, <1>2, <1>4, <1>5 DEF m, Object

\* Any other task ends well: what it destroys was to be destroyed, and by this task alone.
LEMMA TaskDone ==
    ASSUME Machines, Protocol, ServerTypes, NEW t \in Task, TaskSucceeds(t),
           UNCHANGED <<opVars, job, node, life, nicKeys, meddled>>
    PROVE  Machines'
<1> DEFINE o == job[t].vm
<1>1. /\ job[t].kind # "clone" /\ t \in Unfinished /\ ~job[t].blocked
      /\ task' = [task EXCEPT ![t] = "success"]
      /\ UNCHANGED <<props, wait, orphans, job, node, life, nicKeys, meddled, Id>>
  BY DEF TaskSucceeds, EndTask, opVars, Id
<1>2. /\ o \in Existing /\ o \in Object /\ o # NoTask
      /\ Existing' = IF job[t].kind = "destroy" THEN Existing \ {o} ELSE Existing
      /\ \A u \in Object \ {o} : vm'[u] = vm[u]
      /\ vm'[o] = Effect(job[t].kind, vm[o])
  BY Affected
<1>3. \A u \in Existing' : u \in Existing /\ u \in Object /\ (vm'[u].oldNics => vm[u].oldNics)
  <2>1. Existing \subseteq Object /\ Existing' \subseteq Existing
    BY <1>2 DEF Existing
  <2>2. vm[o] \in Machine
    BY <1>2 DEF ServerTypes
  <2>3. vm'[o].oldNics => vm[o].oldNics
    BY <1>2, <2>2, EffectKeeps
  <2> QED
    BY <1>2, <2>1, <2>3
<1>4. task \in [Task -> TaskState]
  BY DEF Protocol, OpTypes, WaitTypeOK
<1>5. /\ Unfinished' \subseteq Unfinished /\ t \notin Unfinished'
      /\ \A u \in Task : Destroys(u)' => Destroys(u) /\ u # t
      /\ \A u \in Task : u # t => task'[u] = task[u]
  BY <1>1, <1>4 DEF Unfinished, Destroys
<1>6. (Serial /\ Whose /\ OneUnblocked)'
  BY <1>1, <1>3, <1>5 DEF Machines, Serial, Whose, OneUnblocked
<1>7. (Known /\ Noted)'
  BY <1>1, <1>3 DEF Machines, Known, Noted
<1>8. CASE job[t].kind # "destroy"
  <2>1. Existing' = Existing
    BY <1>2, <1>8
  <2>2. (Doomed /\ Alive)'
    BY <1>1, <1>5, <2>1 DEF Machines, Doomed, Alive
  <2>3. Fresh'
    BY <1>1, <1>5, <2>1 DEF Machines, Fresh, Held
  <2> QED
    BY <1>6, <1>7, <2>2, <2>3 DEF Machines
<1>9. CASE job[t].kind = "destroy"
  <2>1. Destroys(t)
    BY <1>1, <1>9 DEF Destroys
  <2>2. Alive'
    BY <1>1, <2>1 DEF Machines, Doomed, Alive
  <2>3. Fresh'
    BY <1>1, <2>1 DEF Machines, Fresh, Held
  <2>4. ASSUME NEW u \in Task, Destroys(u)', ~meddled, ~node.external
        PROVE  FALSE
    <3>1. Destroys(u) /\ u # t
      BY <1>5, <2>4
    <3>2. job[u].vm \in Existing
      BY <2>4, <3>1 DEF Machines, Doomed
    <3>3. job[u].vm = o
      BY <1>2, <3>2 DEF Machines, Serial
    <3> QED
      BY <1>1, <1>2, <3>1, <3>3 DEF Machines, OneUnblocked, Destroys
  <2>5. Doomed'
    BY <1>1, <2>4 DEF Doomed
  <2> QED
    BY <1>6, <1>7, <2>2, <2>3, <2>5 DEF Machines
<1> QED
  BY <1>8, <1>9

\* A machine that somebody destroys: nothing more is said of any.
LEMMA Vanishing ==
    ASSUME Machines, ServerTypes, MachineVanishes
    PROVE  Machines' /\ Existing' \subseteq Existing /\ \A o \in Existing' : vm'[o] = vm[o]
<1>1. PICK o \in Existing : vm' = [vm EXCEPT ![o] = Absent]
  BY DEF MachineVanishes
<1>2. Existing' \subseteq Existing /\ \A u \in Existing' : vm'[u] = vm[u]
  BY <1>1 DEF Existing, ServerTypes, Absent
<1>3. meddled' = TRUE /\ UNCHANGED <<task, job, node>>
  BY DEF MachineVanishes, waitVars
<1>4. (Serial /\ Whose /\ OneUnblocked)'
  BY <1>2, <1>3 DEF Machines, Serial, Whose, OneUnblocked, Unfinished
<1> QED
  BY <1>2, <1>3, <1>4 DEF Machines, Doomed, Fresh, Alive, Known, Noted

\* Ids that are used again belong to no machine that is there.
LEMMA Reusing ==
    ASSUME Machines, Protocol, ServerTypes, ReuseTasks
    PROVE  /\ Machines'
           /\ Existing' = Existing
           /\ Existing' \ orphans' = Existing \ orphans
           /\ \A t \in Task \ Reusable : job'[t] = job[t] /\ task'[t] = task[t]
<1>1. UNCHANGED <<props, wait, node, vm, life, nicKeys, meddled, Id>>
  BY DEF ReuseTasks, Id
<1>2. Existing' = Existing /\ Existing \cap Reusable = {}
  BY <1>1 DEF Existing, Reusable, Absent
<1>3. Existing' \ orphans' = Existing \ orphans
  BY <1>2 DEF ReuseTasks
<1>4. \A t \in Task : /\ t \notin Reusable => job'[t] = job[t] /\ task'[t] = task[t]
                      /\ t \in Reusable => job'[t] = NoJob /\ task'[t] = "unused"
  BY DEF ReuseTasks
<1>5. Unfinished' = Unfinished /\ Unfinished \cap Reusable = {}
  BY <1>4 DEF Unfinished, Reusable, Finished
<1>6. \A t \in Task : Destroys(t)' => Destroys(t)
  BY <1>4, <1>5 DEF Destroys
<1>7. \A t \in Task : Held(t)' => Held(t) /\ t \notin Reusable
  BY <1>1 DEF Held, Reusable, Remembered
<1>8. (Serial /\ Whose)'
  BY <1>1, <1>2, <1>4 DEF Machines, Serial, Whose, NoJob
<1>9. OneUnblocked'
  BY <1>4, <1>5 DEF Machines, OneUnblocked, Unfinished
<1>10. Doomed'
  BY <1>1, <1>2, <1>4, <1>5, <1>6 DEF Machines, Doomed, Destroys
<1>11. Fresh'
  BY <1>1, <1>2, <1>4, <1>6, <1>7 DEF Machines, Fresh
<1>12. (Alive /\ Known /\ Noted)'
  BY <1>1, <1>2, <1>3 DEF Machines, Alive, Known, Noted
<1> QED
  BY <1>2, <1>3, <1>4, <1>8, <1>9, <1>10, <1>11, <1>12 DEF Machines

\* The result of a clone is stored: the machine is there, and nothing is about to
\* destroy it.
LEMMA Recording ==
    ASSUME Machines, Protocol, Keys, RecordResult,
           UNCHANGED <<opVars, serverVars>>
    PROVE  /\ Machines'
           /\ Id' = wait.task /\ wait.task \in Task /\ job[wait.task].kind = "clone"
<1>1. /\ wait.at = "record" /\ wait.task \in Task /\ task[wait.task] = "success"
      /\ wait.key \in Key /\ wait.key # NoKey /\ props.task = NoTask
  BY DEF RecordResult, Protocol, Holding
<1>2. wait.key = ServerKey /\ job[wait.task].kind = "clone" /\ Held(wait.task)
  BY <1>1 DEF Keys, Held
<1>3. Id' = wait.task
  BY <1>2 DEF RecordResult, Id, Protocol, OpTypes, WaitTypeOK, Properties
<1>4. /\ UNCHANGED <<task, orphans, vm, job, node, life, nicKeys, meddled>>
      /\ Existing' = Existing /\ Unfinished' = Unfinished
  BY DEF RecordResult, opVars, serverVars, Existing, Unfinished
<1>5. \A t \in Task : (Held(t)' => t = wait.task) /\ (Destroys(t)' => Destroys(t))
  BY <1>1, <1>4 DEF RecordResult, Held, Destroys, Protocol, OpTypes, WaitTypeOK, Wait, Properties
<1>6. ~meddled => /\ wait.task \in Existing
                  /\ \A u \in Task : ~Destroys(u)
                  /\ node.postpone => nicKeys
  BY <1>1, <1>2 DEF Machines, Fresh
<1>7. (Serial /\ Whose /\ OneUnblocked /\ Noted)'
  BY <1>4 DEF Machines, Serial, Whose, OneUnblocked, Noted
<1>8. Doomed' /\ Fresh'
  BY <1>3, <1>4, <1>5, <1>6 DEF Doomed, Fresh
<1>9. Alive'
  BY <1>1, <1>3, <1>4, <1>6 DEF Alive
<1>10. Known'
  BY <1>3, <1>4, <1>6 DEF Machines, Known, Serial
<1> QED
  BY <1>1, <1>2, <1>3, <1>7, <1>8, <1>9, <1>10 DEF Machines

\* A task is started for a stage.  Only delete starts one that destroys, and then on the
\* machine that it looked up by the id, if there is one.
LEMMA Starting ==
    ASSUME Machines, Protocol, ServerTypes, Workflow, Route, NEW t \in Task, StartStage(t)
    PROVE  Machines'
<1>1. /\ StartJob(t, op.at, target, NoKey) /\ target \in Existing
      /\ op.at \in Stage /\ op.at # "clone" /\ wait.at = "none"
      /\ UNCHANGED <<life, nicKeys, node, vm, meddled, orphans, props, Id>>
  BY DEF StartStage, AtStage, StartJob, Launch, Id
<1>2. /\ task[t] = "unused" /\ task' = [task EXCEPT ![t] = "running"]
      /\ wait'.task = t /\ wait'.at = "save"
      /\ props.task = NoTask
  BY <1>1 DEF StartJob, Launch, Protocol, Holding
<1>3. /\ job'[t].kind = op.at /\ job'[t].vm = target
      /\ job'[t].blocked = \E u \in Unfinished : target # NoTask /\ job[u].vm = target
      /\ \A u \in Task : u # t => job'[u] = job[u]
  BY <1>1 DEF StartJob, ServerTypes
<1>4. Unfinished' = Unfinished \union {t} /\ t \notin Unfinished /\ Existing' = Existing
  BY <1>1, <1>2 DEF Unfinished, Existing, Protocol, OpTypes, WaitTypeOK
<1>5. \A u \in Task : Held(u)' => u = t
  BY <1>1, <1>2 DEF Held
<1>6. \A u \in Task : u # t /\ Destroys(u)' => Destroys(u)
  BY <1>3, <1>4 DEF Destroys
<1>7. (Serial /\ Whose)'
  BY <1>1, <1>3, <1>4 DEF Machines, Serial, Whose
<1>8. OneUnblocked'
  <2>1. target # NoTask
    BY <1>1 DEF Existing, Object
  <2>2. \A u \in Unfinished : job[u].vm = target => job'[t].blocked
    BY <1>3, <2>1
  <2> QED
    BY <1>3, <1>4, <2>2 DEF Machines, OneUnblocked, Unfinished
<1>9. Destroys(t)' /\ ~meddled /\ ~node.external =>
        life = "deleting" /\ Id \in {NoTask, target}
  <2>1. op.at = "destroy" => op.name = DeleteOp
    BY <1>1 DEF Route, Passes
  <2> QED
    BY <1>1, <1>3, <2>1 DEF Destroys, Route, Workflow, Stage
<1>10. Doomed'
  BY <1>1, <1>3, <1>4, <1>6, <1>9 DEF Machines, Doomed
<1>11. Fresh'
  BY <1>1, <1>3, <1>5 DEF Fresh
<1>12. (Alive /\ Known /\ Noted)'
  BY <1>1, <1>4 DEF Machines, Alive, Known, Noted
<1> QED
  BY <1>7, <1>8, <1>10, <1>11, <1>12 DEF Machines

\* create clones: unless somebody meddled, no machine is there, none is known, and none
\* is to be destroyed.
LEMMA Cloning ==
    ASSUME Machines, Protocol, ServerTypes, Workflow, NEW t \in Task, CloneServer(t)
    PROVE  Machines'
<1>1. /\ StartJob(t, "clone", NoTask, ServerKey) /\ op.at = "body" /\ op.name \in Creating
      /\ ~node.external /\ Server = {}
      /\ UNCHANGED <<life, node, vm, meddled, orphans, props, Id>>
  BY DEF CloneServer, StartJob, Launch, Id
<1>2. /\ task[t] = "unused" /\ task' = [task EXCEPT ![t] = "running"]
      /\ wait'.task = t /\ wait'.at = "save"
      /\ props.task = NoTask
  BY <1>1 DEF StartJob, Launch, Protocol, Holding
<1>3. /\ job'[t].kind = "clone" /\ job'[t].vm = NoTask
      /\ \A u \in Task : u # t => job'[u] = job[u]
  BY <1>1 DEF StartJob, ServerTypes
<1>4. Unfinished' = Unfinished \union {t} /\ t \notin Unfinished /\ Existing' = Existing
  BY <1>1, <1>2 DEF Unfinished, Existing, Protocol, OpTypes, WaitTypeOK
<1>5. \A u \in Task : Held(u)' => u = t
  BY <1>1, <1>2 DEF Held
<1>6. \A u \in Task : Destroys(u)' => Destroys(u)
  BY <1>3, <1>4 DEF Destroys
<1>7. ~meddled => Id = NoTask /\ Existing = {} /\ op.name = "create"
  <2>1. life \in {"attempted", "created"} /\ (op.name = "start" => life = "created")
    BY <1>1 DEF Workflow
  <2>2. Server = IF Id # NoTask THEN {Id} \cap Existing ELSE Existing
    BY <1>1 DEF Server, ServerByContext, Id
  <2>3. ~meddled => Id = NoTask
    BY <1>1, <2>1, <2>2 DEF Machines, Alive
  <2>4. ~meddled => op.name # "start"
    BY <1>1, <2>1, <2>3 DEF Machines, Alive
  <2> QED
    BY <1>1, <2>2, <2>3, <2>4 DEF Creating
<1>8. ~meddled => \A u \in Task : ~Destroys(u)'
  BY <1>1, <1>6, <1>7 DEF Machines, Doomed
<1>9. (nicKeys => nicKeys') /\ (op.name = "create" /\ node.postpone => nicKeys')
  BY DEF CloneServer, NotesNicKeys
<1>10. (Serial /\ Whose)'
  BY <1>1, <1>3, <1>4 DEF Machines, Serial, Whose
<1>11. OneUnblocked'
  BY <1>3, <1>4 DEF Machines, OneUnblocked, Unfinished
<1>12. Doomed'
  BY <1>1, <1>8 DEF Doomed
<1>13. Fresh'
  BY <1>1, <1>2, <1>3, <1>5, <1>7, <1>8, <1>9 DEF Fresh, Protocol, OpTypes, WaitTypeOK
<1>14. (Alive /\ Known)'
  BY <1>1, <1>4 DEF Machines, Alive, Known
<1>15. Noted'
  BY <1>1, <1>4, <1>9 DEF Machines, Noted
<1> QED
  BY <1>10, <1>11, <1>12, <1>13, <1>14, <1>15 DEF Machines

\* A successful delete forgets everything, and rightly so.
LEMMA Forgetting ==
    ASSUME Machines, Protocol, ServerTypes, op.name = DeleteOp, props.task = NoTask,
           Leaves(CleanedProps), wait.at = "none",
           UNCHANGED <<task, wait, orphans, vm, job, node, meddled>>,
           ~meddled => /\ Existing \cap Task \subseteq orphans
                       /\ ~node.external => \A t \in Task : ~Destroys(t)
    PROVE  Machines'
<1>1. props' = NoProperties /\ Id' = NoTask /\ life' = "none" /\ ~nicKeys'
  BY DEF Leaves, CleanedProps, NoProperties, Id
<1>2. Existing' = Existing /\ Unfinished' = Unfinished
  BY DEF Existing, Unfinished
<1>3. \A t \in Task : Destroys(t)' => Destroys(t)
  BY <1>2 DEF Destroys
<1>4. \A t \in Task : ~Held(t)'
  BY <1>1 DEF Held, NoProperties
<1>5. (Serial /\ Whose /\ OneUnblocked)'
  BY <1>2 DEF Machines, Serial, Whose, OneUnblocked
<1>6. (Doomed /\ Fresh /\ Alive /\ Known)'
  BY <1>1, <1>3, <1>4 DEF Doomed, Fresh, Alive, Known
<1>7. Noted'
  BY <1>2 DEF Machines, Whose, Noted, Existing, Object
<1> QED
  BY <1>5, <1>6, <1>7 DEF Machines

\* create and start store the id of their machine.
LEMMA Storing ==
    ASSUME Machines, Protocol, ServerTypes, Workflow, Finish, op.name \in Creating
    PROVE  Machines' /\ Id' = target /\ target \in Existing
<1>1. /\ target \in Existing /\ wait.at = "none" /\ props.task = NoTask
      /\ life \in {"attempted", "created"} /\ life' \in {"attempted", "created"}
      /\ nicKeys' = nicKeys /\ props' = [props EXCEPT !.ids[ServerKey] = target]
      /\ UNCHANGED <<task, wait, orphans, vm, job, node, meddled>>
  <2>1. wait.at = "none" /\ props.task = NoTask /\ op.at = "finish"
    BY DEF Finish, Protocol, Places, Holding, NotWaiting
  <2>2. life \in {"attempted", "created"} /\ op.name # DeleteOp
    BY <2>1 DEF Workflow, Creating
  <2>3. (nicKeys' <=> nicKeys) /\ life' \in {"attempted", "created"}
    BY <2>2 DEF Finish, Leaves
  <2>4. nicKeys' \in BOOLEAN /\ nicKeys \in BOOLEAN
    BY DEF Finish, Leaves, ServerTypes
  <2> QED
    BY <2>1, <2>2, <2>3, <2>4 DEF Finish, Leaves
<1>2. Id' = target /\ props'.task = NoTask /\ target # NoTask
  BY <1>1 DEF Id, Protocol, OpTypes, WaitTypeOK, Properties, Existing, Object
<1>3. Existing' = Existing /\ Unfinished' = Unfinished
  BY <1>1 DEF Existing, Unfinished
<1>4. \A t \in Task : (Destroys(t)' => Destroys(t)) /\ ~Held(t)'
  BY <1>1, <1>2, <1>3 DEF Destroys, Held
<1>5. (Serial /\ Whose /\ OneUnblocked /\ Noted)'
  BY <1>1, <1>3 DEF Machines, Serial, Whose, OneUnblocked, Noted
<1>6. (Doomed /\ Fresh)'
  BY <1>1, <1>4 DEF Machines, Doomed, Fresh
<1>7. (Alive /\ Known)'
  BY <1>1, <1>2, <1>3 DEF Machines, Serial, Alive, Known
<1> QED
  BY <1>1, <1>2, <1>5, <1>6, <1>7 DEF Machines

\* The adapters of the template are gone, so that their keys can be forgotten.
LEMMA Clearing ==
    ASSUME Machines, Protocol, ServerTypes, Cleared, op.at = "nics", SkipStage \/ StageReturned
    PROVE  /\ Machines'
           /\ ~meddled => \A o \in Existing \ orphans : ~vm[o].oldNics
<1>1. /\ ~nicKeys' /\ wait'.at = "none" /\ wait.at \in {"none", "returned"}
      /\ UNCHANGED <<task, props, orphans, vm, job, node, life, meddled, Id>>
  <2>1. StageDone
    BY DEF SkipStage, StageReturned
  <2>2. ~nicKeys' /\ UNCHANGED <<task, props, orphans, vm, job, node, life, meddled>>
    BY <2>1 DEF StageDone
  <2>3. wait'.at = "none" /\ wait.at \in {"none", "returned"}
    BY DEF SkipStage, StageReturned, AtStage, NotWaiting
  <2> QED
    BY <2>2, <2>3 DEF Id
<1>2. Existing' = Existing /\ Unfinished' = Unfinished
  BY <1>1 DEF Existing, Unfinished
<1>3. \A t \in Task : (Destroys(t)' => Destroys(t)) /\ ~Held(t)'
  BY <1>1, <1>2 DEF Destroys, Held, Protocol, Holding, Stage
<1>4. ~meddled => \A o \in Existing \ orphans : ~vm[o].oldNics
  <2>1. CASE SkipStage
    <3>1. target \in Existing /\ ~(nicKeys /\ vm[target].oldNics)
      BY <2>1 DEF SkipStage, Needed
    <3> QED
      BY <3>1 DEF Machines, Serial, Noted
  <2>2. CASE StageReturned
    <3>1. Ended("nics")
      BY <2>2 DEF StageReturned, Ended, Protocol, Holding, Stage
    <3> QED
      BY <3>1 DEF Cleared
  <2> QED
    BY <2>1, <2>2
<1>5. (Serial /\ Whose /\ OneUnblocked)'
  BY <1>1, <1>2 DEF Machines, Serial, Whose, OneUnblocked
<1>6. (Doomed /\ Fresh)'
  BY <1>1, <1>2, <1>3 DEF Machines, Doomed, Fresh
<1>7. (Alive /\ Known)'
  BY <1>1, <1>2 DEF Machines, Alive, Known
<1>8. Noted'
  BY <1>1, <1>2, <1>4 DEF Noted
<1> QED
  BY <1>4, <1>5, <1>6, <1>7, <1>8 DEF Machines

\* What an attempt knows of its tasks is at most what it knew before.
LEMMA NothingNew ==
    ASSUME Machines, Protocol, ServerTypes, UNCHANGED <<task, vm, job, node, meddled, Id>>,
           orphans \subseteq orphans', nicKeys => nicKeys',
           props'.task \in {NoTask, props.task} \/ (wait.at # "none" /\ props'.task = wait.task),
           wait'.at = "none" \/ (wait.at # "none" /\ wait'.task = wait.task)
                             \/ wait'.task = props.task,
           life = "deleting" => life' = "deleting",
           life' \in {"attempted", "created"} => life \in {"attempted", "created"} \/ Id = NoTask,
           life' = "created" => life = "created"
    PROVE  Machines'
<1>1. Unfinished' = Unfinished
  BY DEF Unfinished
<1>2. \A t \in Task : Held(t)' => Held(t)
  BY DEF Held
<1> QED
  BY <1>1, <1>2, Quiet

\* Every step keeps what the invariant says of the machines.
LEMMA MachinesStep ==
    Machines /\ Protocol /\ ServerTypes /\ Worker /\ [Next]_vars => Machines'
<1> SUFFICES ASSUME Machines, Protocol, ServerTypes, Worker, [Next]_vars
             PROVE  Machines'
  OBVIOUS
<1> USE DEF Worker
<1>1. ASSUME NEW name \in OpName, Begin(name)
      PROVE  Machines'
  BY <1>1, NothingNew DEF Begin, BeginOperation, waitVars, Id, Workflow
<1>2. ASSUME \/ NoDeferredTask \/ DeferredTask \/ DeferredReturned
             \/ TaskTimedOut \/ TaskFailed \/ WorkerStops,
             UNCHANGED <<vm, job, node, life, external, nicKeys, meddled>>
      PROVE  Machines'
  <2>1. /\ props' = props /\ task' = task /\ orphans \subseteq orphans'
        /\ wait'.at = "none" \/ wait' = wait \/ wait'.task = props.task
    BY <1>2 DEF NoDeferredTask, DeferredTask, DeferredReturned, TaskTimedOut, TaskFailed,
           WorkerStops, WaitForSaved, waitVars, Crash, ConnectionLost, CloneInterrupted,
           RetriesExhausted, CutShort, NotWaiting
  <2> QED
    BY <1>2, <2>1, NothingNew DEF Id
<1>3. CASE Waiting /\ UNCHANGED serverVars
  <2>1. CASE RecordResult
    BY <1>3, <2>1, Recording DEF Waiting
  <2>2. CASE SaveTask \/ FindTask \/ MissTask \/ PollAgain \/ PollTimeout \/ ForgetTask
    <3>1. /\ wait.at # "none" /\ wait'.task = wait.task /\ Id' = Id /\ task' = task
          /\ props'.task \in {NoTask, props.task, wait.task}
      BY <2>2 DEF SaveTask, FindTask, MissTask, PollAgain, PollTimeout, ForgetTask, Id,
             Protocol, OpTypes, WaitTypeOK, Wait, Properties
    <3> QED
      BY <1>3, <3>1, NothingNew DEF Waiting, opVars, serverVars
  <2> QED
    BY <1>3, <2>1, <2>2 DEF Waiting, WaitStep
<1>4. CASE MissingServer \/ UnknownServer \/ FindServer \/ CreateNothing \/ StageGone
  <2>1. UNCHANGED <<task, props, wait, orphans, vm, job, node, life, meddled>>
    BY <1>4 DEF MissingServer, UnknownServer, FindServer, CreateNothing, StageGone, Ends,
           waitVars
  <2>2. nicKeys => nicKeys'
    <3>1. CASE CreateNothing
      BY <3>1 DEF CreateNothing, NotesNicKeys
    <3>2. CASE ~CreateNothing
      BY <1>4, <3>2 DEF MissingServer, UnknownServer, FindServer, StageGone
    <3> QED
      BY <3>1, <3>2
  <2> QED
    BY <2>1, <2>2, NothingNew DEF Id
<1>5. ASSUME op.name \notin Creating \union {DeleteOp}, Leaves(CleanedProps),
             UNCHANGED <<task, wait, orphans, vm, job, node, meddled>>
      PROVE  Machines'
  <2>1. props' = props /\ life' = life /\ (nicKeys => nicKeys')
    BY <1>5 DEF Leaves, CleanedProps, Creating
  <2> QED
    BY <1>5, <2>1, NothingNew DEF Id
<1>6. CASE SkipExternal \/ NothingToDo
  <2>1. /\ op.at = "body" /\ Leaves(CleanedProps) /\ op.name \notin Creating
        /\ UNCHANGED <<task, wait, orphans, vm, job, node, meddled>>
    BY <1>6 DEF SkipExternal, NothingToDo, Ends, Spared, Creating
  <2>2. props.task = NoTask /\ wait.at = "none"
    BY <2>1 DEF Protocol, Places, Holding, NotWaiting
  <2>3. CASE op.name # DeleteOp
    BY <1>5, <2>1, <2>3
  <2>4. CASE op.name = DeleteOp
    <3>1. ~meddled => /\ Existing \cap Task \subseteq orphans
                      /\ ~node.external => \A t \in Task : ~Destroys(t)
      <4>1. CASE SkipExternal
        <5>1. node.external
          BY <4>1 DEF SkipExternal, Spared, Workflow
        <5> QED
          BY <5>1 DEF Machines, Whose
      <4>2. CASE NothingToDo
        <5>1. IF Id # NoTask THEN {Id} \cap Existing = {} ELSE Existing = {}
          BY <2>4, <4>2 DEF NothingToDo, Server, ServerByContext, Id, Creating
        <5>2. ~meddled => Existing \cap Task \subseteq orphans
          BY <5>1 DEF Machines, Known
        <5>3. ~meddled /\ ~node.external => \A t \in Task : ~Destroys(t)
          BY <5>1 DEF Machines, Doomed
        <5> QED
          BY <5>2, <5>3
      <4> QED
        BY <1>6, <4>1, <4>2
    <3> QED
      BY <2>1, <2>2, <2>4, <3>1, Forgetting
  <2> QED
    BY <2>3, <2>4
<1>7. CASE Finish
  <2>1. /\ op.at = "finish" /\ props.task = NoTask /\ wait.at = "none" /\ op.outcome = "none"
        /\ UNCHANGED <<task, wait, orphans, vm, job, node, meddled>>
    BY <1>7 DEF Finish, Protocol, OpTypes, Operation, Outcome, Places, Holding, NotWaiting
  <2>2. op.name \notin Creating => Leaves(CleanedProps)
    BY <1>7 DEF Finish
  <2>3. op.name = DeleteOp => op.name \notin Creating
    BY DEF Creating
  <2>4. CASE op.name = DeleteOp
    BY <2>1, <2>2, <2>3, <2>4, Forgetting DEF Gone
  <2> QED
    BY <1>5, <1>7, <2>1, <2>2, <2>4, Storing
<1>8. CASE SkipStage \/ StageReturned
  <2>1. CASE op.at = "nics"
    BY <1>8, <2>1, Clearing
  <2>2. CASE op.at # "nics"
    <3>1. StageDone /\ wait'.at = "none"
      BY <1>8 DEF SkipStage, StageReturned, AtStage, NotWaiting
    <3> QED
      BY <2>2, <3>1, NothingNew DEF StageDone, Id
  <2> QED
    BY <2>1, <2>2
<1>9. CASE \E t \in Task : CloneServer(t) \/ StartStage(t)
  BY <1>9, Cloning, Starting
<1>10. ASSUME NEW t \in Task, TaskEnds(t)
       PROVE  Machines'
  <2>1. CASE TaskEndsWell(t)
    BY <2>1, CloneDone, TaskDone DEF TaskEndsWell
  <2>2. CASE TaskEndsBadly(t)
    <3>1. task' = [task EXCEPT ![t] = "error"] /\ task \in [Task -> TaskState]
          /\ UNCHANGED <<props, wait, opVars, serverVars>>
      BY <2>2 DEF TaskEndsBadly, EndTask, Protocol, OpTypes, WaitTypeOK
    <3>2. Unfinished' \subseteq Unfinished
          /\ \A u \in Task : task'[u] = "success" => task[u] = "success"
      BY <3>1 DEF Unfinished
    <3> QED
      BY <3>1, <3>2, Quiet DEF Held, Id, opVars, serverVars
  <2> QED
    BY <1>10, <2>1, <2>2 DEF TaskEnds
<1>11. ASSUME NEW t \in Task, Ageing(t)
       PROVE  Machines'
  BY <1>11, NothingNew DEF Ageing, AgeTask, opVars, serverVars, Id
<1>12. CASE UNCHANGED vars
  BY <1>12, NothingNew DEF vars, waitVars, opVars, serverVars, Id
<1>13. CASE Wrapper
  BY <1>2, <1>3, <1>13 DEF Wrapper, serverVars
<1>14. CASE WorkerStops
  BY <1>2, <1>14 DEF WorkerStops
<1>15. CASE Body
  BY <1>4, <1>6, <1>7, <1>8, <1>9, <1>15 DEF Body
<1>16. CASE \E t \in Task : TaskEnds(t) \/ Ageing(t)
  BY <1>10, <1>11, <1>16
<1> QED
  BY <1>1, <1>12, <1>13, <1>14, <1>15, <1>16, Vanishing, Reusing DEF Next, Trouble

-----------------------------------------------------------------------------
(* The operation *)

\* Operations and phases fit, and the external flag outlives the stored id.
LEMMA WorkflowStep ==
    Machines /\ Protocol /\ ServerTypes /\ Worker /\ [Next]_vars => Workflow'
<1> SUFFICES ASSUME Machines, Protocol, ServerTypes, Worker, [Next]_vars
             PROVE  Workflow'
  OBVIOUS
<1> USE DEF Worker
<1>1. ASSUME op'.name = op.name, op.at # "idle" \/ op'.at = "idle",
             UNCHANGED <<life, external, node, Id>>
      PROVE  Workflow'
  BY <1>1 DEF Workflow
<1>2. op \in Operation /\ (wait.at # "none" => op.at # "idle")
  BY DEF Protocol, OpTypes, Places, NotWaiting
<1>3. ASSUME NEW name \in OpName, Begin(name)
      PROVE  Workflow'
  BY <1>3 DEF Begin, BeginOperation, waitVars, Id, Workflow, Creating, PowerOps
<1>4. CASE Wrapper \/ WorkerStops
  <2>1. CASE Waiting /\ UNCHANGED serverVars
    <3>1. CASE RecordResult
      <4>1. Id' # NoTask /\ ~node.external
        BY <2>1, <3>1, Recording DEF Waiting, Machines, Whose
      <4>2. op.at # "idle" /\ UNCHANGED <<op, life, external, node>>
        BY <2>1, <3>1, <1>2 DEF RecordResult, Waiting, opVars, serverVars
      <4> QED
        BY <4>1, <4>2 DEF Workflow
    <3>2. CASE ~RecordResult
      <4>1. Id' = Id
        BY <2>1, <3>2 DEF Waiting, WaitStep, SaveTask, FindTask, MissTask, PollAgain,
               PollTimeout, ForgetTask, Id, Protocol, OpTypes, WaitTypeOK, Properties
      <4> QED
        BY <2>1, <4>1, <1>1 DEF Waiting, opVars, serverVars
    <3> QED
      BY <3>1, <3>2
  <2>2. CASE ~(Waiting /\ UNCHANGED serverVars)
    <3>1. op'.name = op.name /\ op.at # "idle" /\ UNCHANGED <<life, external, node, Id>>
      BY <1>2, <1>4, <2>2, AttemptType
         DEF Wrapper, WorkerStops, NoDeferredTask, DeferredTask, DeferredReturned, TaskTimedOut,
             TaskFailed, Crash, ConnectionLost, CloneInterrupted, RetriesExhausted, CutShort,
             WaitForSaved, serverVars, waitVars, Id, WrapperPlace, Outcome
    <3> QED
      BY <1>1, <3>1
  <2> QED
    BY <2>1, <2>2
<1>5. CASE MissingServer \/ UnknownServer \/ CreateNothing \/ StageGone
  <2>1. op'.name = op.name /\ op.at # "idle" /\ UNCHANGED <<life, external, node, Id>>
    BY <1>2, <1>5, AttemptType
       DEF MissingServer, UnknownServer, CreateNothing, StageGone, Ends, AtStage, waitVars, Id,
           Stage, Outcome
  <2> QED
    BY <1>1, <2>1
<1>6. CASE FindServer
  <2>1. op'.name = op.name /\ op.at = "body" /\ UNCHANGED <<life, node, Id>>
    BY <1>2, <1>6, AttemptType, FirstStageType DEF FindServer, waitVars, Id
  <2>2. (external => external') /\ (external' => node.external)
    BY <1>6 DEF FindServer, Workflow
  <2> QED
    BY <2>1, <2>2 DEF Workflow
<1>7. ASSUME Leaves(CleanedProps), op.name \notin Creating, op.at # "idle", op'.at = "idle",
             props.task = NoTask, node' = node
      PROVE  Workflow'
  <2>1. CASE op.name = DeleteOp
    BY <1>7, <2>1 DEF Leaves, CleanedProps, NoProperties, Id, Workflow
  <2>2. CASE op.name # DeleteOp
    <3>1. life' = life /\ props' = props /\ (external' <=> external)
      BY <1>7, <2>2 DEF Leaves, CleanedProps, Creating
    <3> QED
      BY <1>7, <3>1 DEF Id, Workflow
  <2> QED
    BY <2>1, <2>2
<1>8. CASE SkipExternal \/ NothingToDo
  <2>1. /\ op.at = "body" /\ Leaves(CleanedProps) /\ op.name \notin Creating /\ node' = node
        /\ op'.at = "idle"
    BY <1>2, <1>8, AttemptType DEF SkipExternal, NothingToDo, Ends, Spared, Creating, Outcome
  <2> QED
    BY <1>7, <2>1 DEF Protocol, Holding
<1>9. CASE Finish
  <2>1. /\ op.at = "finish" /\ op'.at = "idle" /\ node' = node /\ props.task = NoTask
    BY <1>2, <1>9, AttemptType DEF Finish, Outcome, Protocol, Holding
  <2>2. CASE op.name \notin Creating
    BY <1>7, <1>9, <2>1, <2>2 DEF Finish
  <2>3. CASE op.name \in Creating
    <3>1. life' # "none" /\ (external' <=> external) /\ (node.external => external)
      BY <1>9, <2>1, <2>3 DEF Finish, Leaves, Creating, Workflow, Route
    <3> QED
      BY <2>1, <3>1 DEF Workflow
  <2> QED
    BY <2>2, <2>3
<1>10. CASE \E t \in Task : CloneServer(t) \/ StartStage(t)
  <2>1. op'.name = op.name /\ op.at # "idle" /\ UNCHANGED <<life, external, node, Id>>
    BY <1>2, <1>10, AttemptType DEF CloneServer, StartStage, StartJob, Launch, AtStage, Id, Stage
  <2> QED
    BY <1>1, <2>1
<1>11. CASE SkipStage \/ StageReturned
  <2>1. op.at \in Stage /\ op.name \in Passes(op.at)
    BY <1>11 DEF SkipStage, StageReturned, AtStage, Route
  <2>2. op'.name = op.name /\ op.at # "idle" /\ UNCHANGED <<life, external, node, Id>>
    BY <1>2, <1>11, <2>1, AttemptType, NextStageType
     DEF SkipStage, StageReturned, StageDone, Id, Stage
  <2> QED
    BY <1>1, <2>2
<1>12. CASE \/ MachineVanishes \/ ReuseTasks \/ UNCHANGED vars
            \/ \E t \in Task : TaskEnds(t) \/ Ageing(t)
  <2>1. UNCHANGED <<op, life, external, node, Id>>
    BY <1>12 DEF MachineVanishes, ReuseTasks, vars, waitVars, opVars, serverVars, Id, TaskEnds,
           TaskEndsWell, TaskEndsBadly, CloneSucceeds, TaskSucceeds, EndTask, Ageing, AgeTask
  <2> QED
    BY <1>1, <2>1
<1> QED
  BY <1>3, <1>4, <1>5, <1>6, <1>8, <1>9, <1>10, <1>11, <1>12 DEF Next, Body, Trouble

\* Only a clone is saved or held with the property for its result.
LEMMA KeysStep ==
    Protocol /\ ServerTypes /\ Keys /\ [Next]_vars => Keys'
<1> SUFFICES ASSUME Protocol, ServerTypes, Keys, [Next]_vars
             PROVE  Keys'
  OBVIOUS
<1>1. ASSUME job' = job,
             \/ wait'.at = "none"
             \/ wait.at # "none" /\ wait'.task = wait.task /\ wait'.key = wait.key
             \/ props.task # NoTask /\ wait'.task = props.task /\ wait'.key = props.key,
             \/ props'.task = NoTask
             \/ props'.task = props.task /\ props'.key = props.key
             \/ wait.at # "none" /\ props'.task = wait.task /\ props'.key = wait.key
      PROVE  Keys'
  BY <1>1 DEF Keys
<1>2. wait \in Wait /\ props \in Properties
  BY DEF Protocol, OpTypes, WaitTypeOK
<1>3. ASSUME NEW t \in Task, NEW kind, NEW key, NEW o, StartJob(t, kind, o, key),
             key # NoKey => key = ServerKey /\ kind = "clone", op.at \in Stage \union {"body"}
      PROVE  Keys'
  <2>1. wait'.task = t /\ wait'.key = key /\ props' = props /\ props.task = NoTask
    BY <1>3 DEF StartJob, Launch, Protocol, Holding
  <2>2. job'[t].kind = kind
    BY <1>3 DEF StartJob, ServerTypes
  <2> QED
    BY <1>3, <2>1, <2>2 DEF Keys
<1>4. CASE \E t \in Task : CloneServer(t) \/ StartStage(t)
  BY <1>3, <1>4 DEF CloneServer, StartStage, AtStage
<1>5. CASE ReuseTasks
  <2>1. /\ UNCHANGED <<wait, props>>
        /\ \A t \in Task \ Reusable : job'[t] = job[t]
    BY <1>5 DEF ReuseTasks
  <2>2. props.task \notin Reusable /\ wait.task \notin Reusable
    BY DEF Reusable, Remembered
  <2>3. /\ wait.at # "none" => wait.task \in Task
        /\ props.task # NoTask => props.task \in Task
    BY <1>2 DEF Protocol, Holding, Properties, MaybeTask
  <2> QED
    BY <2>1, <2>2, <2>3 DEF Keys
<1>6. CASE Waiting /\ UNCHANGED serverVars
  <2>1. job' = job /\ wait.at # "none" /\ wait'.task = wait.task /\ wait'.key = wait.key
    BY <1>2, <1>6 DEF Waiting, WaitStep, SaveTask, FindTask, MissTask, PollAgain, PollTimeout,
           ForgetTask, RecordResult, Wait, serverVars
  <2>2. \/ props'.task = NoTask
        \/ props'.task = props.task /\ props'.key = props.key
        \/ props'.task = wait.task /\ props'.key = wait.key
    BY <1>2, <1>6 DEF Waiting, WaitStep, SaveTask, FindTask, MissTask, PollAgain, PollTimeout,
           ForgetTask, RecordResult, Properties
  <2> QED
    BY <1>1, <2>1, <2>2
<1>7. CASE DeferredTask /\ UNCHANGED serverVars
  BY <1>1, <1>7 DEF DeferredTask, WaitForSaved, serverVars
<1>8. CASE (NoDeferredTask \/ DeferredReturned) /\ UNCHANGED serverVars
  BY <1>1, <1>8 DEF NoDeferredTask, DeferredReturned, NotWaiting, waitVars, serverVars
<1>9. CASE (TaskTimedOut \/ TaskFailed \/ WorkerStops) /\ UNCHANGED job
  BY <1>1, <1>9 DEF TaskTimedOut, TaskFailed, WorkerStops, Crash, ConnectionLost,
         CloneInterrupted, RetriesExhausted, CutShort, NotWaiting, waitVars
<1>10. CASE SkipStage \/ StageReturned
  BY <1>1, <1>10 DEF SkipStage, StageReturned, StageDone, NotWaiting, AtStage
<1>11. ASSUME job' = job, wait' = wait, wait.at = "none", props'.task = NoTask \/ props' = props
       PROVE  Keys'
  BY <1>1, <1>11
<1>12. CASE SkipExternal \/ NothingToDo \/ Finish
  <2>1. job' = job /\ wait' = wait /\ op.at \in {"body", "finish"}
    BY <1>12 DEF SkipExternal, NothingToDo, Finish, Ends
  <2>2. props'.task = NoTask
    BY <1>12, <2>1, <1>2 DEF SkipExternal, NothingToDo, Finish, Leaves, CleanedProps,
           NoProperties, Protocol, Holding, Properties
  <2> QED
    BY <1>11, <2>1, <2>2 DEF Protocol, Places, NotWaiting
<1>13. CASE MissingServer \/ UnknownServer \/ FindServer \/ CreateNothing \/ StageGone
            \/ MachineVanishes \/ UNCHANGED vars \/ (\E name \in OpName : Begin(name))
            \/ \E t \in Task : TaskEnds(t) \/ Ageing(t)
  <2>1. UNCHANGED <<job, wait, props>>
    BY <1>13 DEF MissingServer, UnknownServer, FindServer, CreateNothing, StageGone, Ends,
           MachineVanishes, vars, waitVars, serverVars, Begin, BeginOperation, TaskEnds,
           TaskEndsWell, TaskEndsBadly, CloneSucceeds, TaskSucceeds, EndTask, Ageing, AgeTask
  <2> QED
    BY <1>1, <2>1
<1>14. CASE Wrapper
  BY <1>6, <1>7, <1>8, <1>9, <1>14 DEF Wrapper
<1>15. CASE WorkerStops
  BY <1>9, <1>15 DEF WorkerStops
<1> QED
  BY <1>4, <1>5, <1>10, <1>12, <1>13, <1>14, <1>15 DEF Next, Body, Trouble

\* What is said of stages and of reported successes.
Promise == Route /\ InHand /\ Results /\ Upgraded /\ Cleared /\ Made /\ Gone

\* Between the stages and without a success nothing is said.
LEMMA Between ==
    ASSUME op'.at \in {"idle", "dispatch", "deferred", "body"}, op'.outcome # "ok"
    PROVE  Promise'
<1>1. op'.at \notin Stage \union {"finish"}
  BY DEF Stage
<1>2. \A stage \in Stage : ~Ended(stage)'
  BY <1>1 DEF Ended
<1>3. (Route /\ InHand /\ Made)'
  BY <1>1 DEF Route, InHand, Made
<1>4. ~Achieved'
  BY <1>1, <1>2 DEF Achieved, Stage
<1>5. (Upgraded /\ Cleared /\ Gone)'
  BY <1>1, <1>2 DEF Upgraded, Cleared, Gone, Stage
<1> QED
  BY <1>3, <1>4, <1>5 DEF Promise, Results

\* A step inside the wait for the task of a stage, or one that nobody notices.
LEMMA Still ==
    ASSUME Worker, UNCHANGED <<op, vm, node, job, target, external, meddled, orphans>>,
           Id' = Id \/ op.name # DeleteOp,
           Unfinished' \subseteq Unfinished,
           op.at \in Stage => wait'.task = wait.task /\ (wait'.at # "none" => wait.at # "none"),
           wait.at # "none" /\ task'[wait.task] = "success" => task[wait.task] = "success"
    PROVE  Promise'
<1> USE DEF Worker
<1>1. Existing' = Existing /\ Disturbed' = Disturbed /\ Spared' = Spared
  BY DEF Existing, Disturbed, Spared
<1>2. \A stage \in Stage : Ended(stage)' => Ended(stage)
  BY DEF Ended
<1>3. \A t \in Task : Destroys(t)' => Destroys(t)
  BY DEF Destroys
<1>4. (Route /\ InHand)'
  BY <1>1 DEF Route, InHand, Passes
<1>5. Achieved' => Achieved
  BY <1>1, <1>2 DEF Achieved, Stage
<1>6. \A m : Kept(m)' <=> Kept(m)
  BY DEF Kept
<1>7. Results'
  BY <1>1, <1>5, <1>6 DEF Results
<1>8. (Upgraded /\ Cleared /\ Made)'
  BY <1>1, <1>2 DEF Upgraded, Cleared, Made, Stage
<1>9. Gone'
  BY <1>1, <1>2, <1>3 DEF Gone, Stage
<1> QED
  BY <1>4, <1>7, <1>8, <1>9 DEF Promise

\* A task that runs and was not lost is the one the worker waits for.
LEMMA Mine ==
    ASSUME Protocol, NEW t \in Unfinished \ orphans,
           op.at \in Stage \union {"finish"} \/ op.outcome = "ok"
    PROVE  op.at \in Stage /\ wait.at # "none" /\ wait.task = t
<1>1. op.outcome = "ok" => op.at = "idle"
  BY DEF Protocol, Places
<1>2. "idle" \notin Stage \union {"finish"}
  BY DEF Stage
<1>3. \/ props.task = t /\ t \in Task
      \/ wait.at = "save" /\ wait.task = t
  BY DEF Protocol, Tracked, Unfinished
<1> QED
  BY <1>1, <1>2, <1>3 DEF Protocol, OpTypes, WaitTypeOK, Wait, WaitPlace, Properties, Places,
         Holding, NotWaiting, Unfinished

\* The look-up: the machine is the one of the id, if there is one.
LEMMA Finding ==
    ASSUME Protocol, Worker, FindServer
    PROVE  Promise'
<1>1. /\ op'.at = FirstStage(target') /\ op'.name = op.name /\ op'.outcome = op.outcome
      /\ op.at = "body" /\ ~Spared /\ target' \in Server
      /\ UNCHANGED <<node, meddled, props, wait, job, task, Id>>
  BY AttemptType, FirstStageType DEF FindServer, Protocol, OpTypes, waitVars, Id
<1>2. op'.at \in Stage \ {"clone"} /\ op.name \in Passes(op'.at) /\ op'.outcome # "ok"
  BY <1>1, FirstStageType DEF Protocol, OpTypes, Places
<1>3. wait'.at = "none"
  BY <1>1 DEF Protocol, Places, NotWaiting
<1>4. ~Spared' /\ (op.name \in Creating /\ node.external => external')
  <2>1. CASE op.name \in Creating
    BY <1>1, <2>1 DEF FindServer, Spared, Creating
  <2>2. CASE op.name \notin Creating
    <3>1. external' <=> external
      BY <2>2 DEF FindServer
    <3> QED
      BY <1>1, <2>2, <3>1 DEF Spared
  <2> QED
    BY <2>1, <2>2
<1>5. target' \in Object
  BY <1>1 DEF Server, ServerByContext, Existing
<1>6. op.name = DeleteOp => Id \in {NoTask, target'}
  BY <1>1 DEF Server, ServerByContext, Id, Creating
<1>7. Route' /\ InHand'
  BY <1>1, <1>2, <1>3, <1>4, <1>5, <1>6 DEF Route, InHand, Passes
<1>8. \A stage : ~Ended(stage)'
  BY <1>3 DEF Ended
<1>9. op'.at \notin {"nics", "finish"} /\ (op'.at = "upgrade" => op.name = "create")
  BY <1>1 DEF FirstStage, Protocol, OpTypes, Operation
<1>10. Results'
  BY <1>1, <1>2, <1>8, <1>9 DEF Results, Achieved, Kept
<1>11. (Upgraded /\ Cleared /\ Made /\ Gone)'
  BY <1>1, <1>2, <1>8, <1>9 DEF Upgraded, Cleared, Made, Gone
<1> QED
  BY <1>7, <1>10, <1>11 DEF Promise

\* The task of a stage is started: what was achieved stays so.
LEMMA Launching ==
    ASSUME Protocol, ServerTypes, Worker, NEW t \in Task, CloneServer(t) \/ StartStage(t)
    PROVE  Promise'
<1> DEFINE kind == IF op.at = "body" THEN "clone" ELSE op.at
           o == IF op.at = "body" THEN NoTask ELSE target
<1>1. /\ op'.at = kind /\ op'.name = op.name /\ op'.outcome = op.outcome
      /\ kind \in Stage /\ (kind = "clone" <=> op.at = "body")
      /\ op.at \in (Stage \ {"clone"}) \union {"body"}
      /\ op.at = "body" => op.name \in Creating /\ ~node.external
  BY AttemptType DEF CloneServer, StartStage, AtStage, StartJob, Protocol, OpTypes, Stage
<1>2. /\ task[t] = "unused" /\ task' = [task EXCEPT ![t] = "running"]
      /\ wait'.task = t /\ wait.at = "none"
      /\ UNCHANGED <<orphans, vm, node, target, external, meddled, Id>>
  BY DEF CloneServer, StartStage, StartJob, Launch, Id
<1>3. /\ job'[t].kind = kind /\ job'[t].vm = o
      /\ job'[t].on = (op.name = "start" /\ node.startVm)
      /\ \A u \in Task \ {t} : job'[u] = job[u]
  BY DEF CloneServer, StartStage, AtStage, StartJob, ServerTypes, Stage
<1>4. t \notin orphans /\ orphans \subseteq Task /\ task'[t] = "running"
  BY <1>2 DEF Protocol, Listed, OpTypes, WaitTypeOK
<1>5. Existing' = Existing /\ Disturbed' = Disturbed /\ Spared' = Spared
  BY <1>1, <1>2, <1>3, <1>4 DEF Existing, Disturbed, Spared
<1>6. \A stage : ~Ended(stage)'
  BY <1>2, <1>4 DEF Ended
<1>7. op.outcome # "ok"
  BY <1>1 DEF Protocol, Places, Stage
<1>8. Route'
  <2>1. CASE op.at = "body"
    BY <1>1, <1>2, <1>5, <2>1 DEF Route, Passes, Spared, Creating
  <2>2. CASE op.at # "body"
    BY <1>1, <1>2, <1>5, <2>2 DEF Worker, Route, Passes
  <2> QED
    BY <2>1, <2>2
<1>9. InHand'
  BY <1>1, <1>2, <1>3 DEF InHand
<1>10. Results'
  BY <1>1, <1>2, <1>5, <1>6, <1>7 DEF Worker, Results, Achieved, Kept, Stage
<1>11. (Upgraded /\ Cleared /\ Made /\ Gone)'
  BY <1>1, <1>2, <1>5, <1>6, <1>7 DEF Worker, Upgraded, Cleared, Made, Gone, Stage
<1> QED
  BY <1>8, <1>9, <1>10, <1>11 DEF Promise

\* A stage is passed because there was nothing to do, or because its task did it.
LEMMA Passing ==
    ASSUME Machines, Protocol, ServerTypes, Worker, SkipStage \/ StageReturned
    PROVE  Promise'
<1>1. op.at \in Stage /\ op.name \in Passes(op.at) /\ op \in Operation
  BY DEF SkipStage, StageReturned, AtStage, Worker, Route, Protocol, OpTypes
<1>2. /\ op'.at = NextStage /\ op'.name = op.name /\ op'.outcome = op.outcome
      /\ NextStage \in (Stage \ {"clone", "reconf"}) \union {"finish"}
      /\ op.name \in Passes(NextStage)
  BY <1>1, AttemptType, NextStageType DEF SkipStage, StageReturned, StageDone
<1>3. /\ wait'.at = "none"
      /\ UNCHANGED <<vm, node, job, task, external, meddled, orphans, Id>>
  BY DEF SkipStage, StageReturned, StageDone, AtStage, NotWaiting, Id
<1>4. Existing' = Existing /\ Disturbed' = Disturbed /\ Spared' = Spared
  BY <1>2, <1>3 DEF Existing, Disturbed, Spared
<1>5. op.outcome # "ok" /\ \A stage : ~Ended(stage)'
  BY <1>1, <1>3 DEF Ended, Protocol, Places, Stage
<1>6. SkipStage => /\ target \in Existing /\ target' = target /\ op.at # "clone"
                   /\ ~Needed(op.at, vm[target])
                   /\ \A o \in Existing : o = target
  BY DEF SkipStage, AtStage, Machines, Serial
<1>7. ~SkipStage => Ended(op.at)
  BY DEF StageReturned, Ended, Protocol, Holding
<1>8. Route'
  <2>1. target' \in Object /\ (op.at # "clone" => target' = target)
    <3>1. CASE SkipStage
      BY <1>6, <3>1 DEF Existing
    <3>2. CASE StageReturned
      BY <1>1, <3>2 DEF StageReturned, Worker, Route, Protocol, Holding, Object
    <3> QED
      BY <3>1, <3>2
  <2>2. op.name = DeleteOp => op.at # "clone"
    BY <1>1 DEF Passes, Creating
  <2> QED
    BY <1>1, <1>2, <1>3, <1>4, <2>1, <2>2 DEF Worker, Route, Passes
<1>9. InHand'
  BY <1>3 DEF InHand
<1>10. Results'
  <2> SUFFICES ASSUME NEW o \in Existing \ Disturbed, op'.at \in {"upgrade", "nics", "finish"}
               PROVE  Kept(vm[o])
    BY <1>2, <1>3, <1>4, <1>5 DEF Results, Achieved, Kept
  <2>1. CASE Achieved
    BY <2>1 DEF Worker, Results
  <2>2. CASE ~Achieved
    <3>1. /\ op.at \notin {"upgrade", "nics"}
          /\ op.at \in {"clone", "poweron", "poweroff", "suspend"} => SkipStage
      BY <1>1, <1>7, <2>2 DEF Achieved
    <3>2. CASE op.at \in {"poweron", "poweroff", "suspend"}
      <4>1. o = target /\ ~Needed(op.at, vm[o])
        BY <1>6, <3>1, <3>2
      <4>2. vm[o].power \in Power \ {"absent"}
        BY DEF Existing, ServerTypes, Machine
      <4>3. CASE op.at = "poweron"
        BY <1>1, <4>1, <4>3 DEF Needed, Passes, Kept
      <4>4. CASE op.at = "poweroff"
        BY <1>1, <4>1, <4>4 DEF Needed, Passes, Kept
      <4>5. CASE op.at = "suspend"
        BY <1>1, <4>1, <4>2, <4>5 DEF Needed, Passes, Kept, Power
      <4> QED
        BY <3>2, <4>3, <4>4, <4>5
    <3>3. CASE op.at \in {"reconf", "reset", "destroy"}
      BY <1>1, <1>2, <3>3 DEF NextStage, Passes, Kept
    <3> QED
      BY <1>1, <1>6, <3>1, <3>2, <3>3 DEF Stage
  <2> QED
    BY <2>1, <2>2
<1>11. Upgraded'
  <2> SUFFICES ASSUME NEW o \in Existing \ Disturbed, op.name = "create",
                      op'.at \in {"nics", "finish"}
               PROVE  ~vm[o].oldHw \/ vm[o].power = "on"
    BY <1>2, <1>3, <1>4, <1>5 DEF Upgraded
  <2>1. op.at \in {"upgrade", "nics"}
    BY <1>1, <1>2 DEF NextStage, Passes, Stage
  <2>2. CASE op.at = "nics" \/ Ended("upgrade")
    BY <2>2 DEF Worker, Upgraded
  <2>3. CASE op.at = "upgrade" /\ ~Ended("upgrade")
    BY <1>6, <1>7, <2>3 DEF Needed
  <2> QED
    BY <2>1, <2>2, <2>3
<1>12. Cleared'
  <2> SUFFICES ASSUME ~meddled, op.name = "create", op'.at = "finish"
               PROVE  \A o \in Existing \ orphans : ~vm[o].oldNics
    BY <1>2, <1>3, <1>4, <1>5 DEF Cleared
  <2>1. op.at = "nics"
    BY <1>1, <1>2 DEF NextStage, Passes, Stage
  <2> QED
    BY <2>1, Clearing DEF Worker
<1>13. Made'
  BY <1>2, <1>5 DEF Made
<1>14. Gone'
  <2> SUFFICES ASSUME ~meddled, op.name = DeleteOp, op'.at = "finish"
               PROVE  /\ Existing \cap Task \subseteq orphans
                      /\ ~node.external => \A t \in Task : ~Destroys(t)
    BY <1>2, <1>3, <1>4, <1>5 DEF Gone, Destroys, Unfinished
  <2>1. op.at = "destroy"
    BY <1>1, <1>2 DEF NextStage, Passes, Stage, Creating
  <2>2. Ended("destroy")
    BY <1>6, <1>7, <2>1 DEF Needed
  <2> QED
    BY <1>5, <2>2 DEF Worker, Gone
<1> QED
  BY <1>8, <1>9, <1>10, <1>11, <1>12, <1>13, <1>14 DEF Promise

\* A success is reported.
LEMMA Reporting ==
    ASSUME Machines, Protocol, ServerTypes, Worker, SkipExternal \/ NothingToDo \/ Finish
    PROVE  Promise'
<1>1. /\ op'.at = "idle" /\ op'.name = op.name /\ op'.outcome = "ok"
      /\ op.at \in {"body", "finish"}
      /\ UNCHANGED <<task, wait, orphans, vm, job, node, meddled>>
  BY AttemptType DEF SkipExternal, NothingToDo, Finish, Ends, Protocol, OpTypes, Outcome
<1>2. Existing' = Existing /\ Disturbed' = Disturbed /\ op'.at \notin Stage \union {"finish"}
  BY <1>1 DEF Existing, Disturbed, Stage
<1>3. (\A stage \in Stage : ~Ended(stage)') /\ Route' /\ InHand'
  BY <1>2 DEF Ended, Route, InHand
<1>4. op.name # DeleteOp => Spared' = Spared
  <2>1. op.name # DeleteOp => external' = external
    BY DEF SkipExternal, NothingToDo, Finish, Leaves, ServerTypes
  <2> QED
    BY <1>1, <2>1 DEF Spared
<1>5. op.name = "create" => op.at = "finish" /\ target \in Existing
  BY DEF SkipExternal, NothingToDo, Finish, Spared, Creating
<1>6. Results'
  <2> SUFFICES ASSUME NEW o \in Existing \ Disturbed, ~Spared'
               PROVE  Kept(vm[o])
    BY <1>1, <1>2, <1>3 DEF Results, Achieved, Kept, Stage
  <2>1. CASE op.name = DeleteOp
    BY <2>1 DEF Kept
  <2>2. CASE op.name # DeleteOp /\ Finish
    BY <2>2 DEF Finish, Worker, Results, Achieved
  <2>3. CASE op.name # DeleteOp /\ SkipExternal
    BY <1>4, <2>3 DEF SkipExternal
  <2>4. CASE op.name # DeleteOp /\ NothingToDo
    BY <2>4 DEF NothingToDo, Server, ServerByContext, Creating
  <2> QED
    BY <2>1, <2>2, <2>3, <2>4
<1>7. (Upgraded /\ Cleared /\ Made)'
  BY <1>1, <1>2, <1>3, <1>5 DEF Worker, Upgraded, Cleared, Made, Stage
<1>8. Gone'
  <2> SUFFICES ASSUME op.name = DeleteOp, ~meddled
               PROVE  Existing \cap Task \subseteq orphans
    BY <1>1, <1>2 DEF Gone
  <2>1. CASE SkipExternal
    BY <2>1 DEF SkipExternal, Spared, Worker, Workflow, Machines, Whose
  <2>2. CASE NothingToDo
    BY <2>2 DEF NothingToDo, Server, ServerByContext, Id, Creating, Machines, Known
  <2>3. CASE Finish
    BY <2>3 DEF Finish, Worker, Gone
  <2> QED
    BY <2>1, <2>2, <2>3
<1> QED
  BY <1>3, <1>6, <1>7, <1>8 DEF Promise

\* A clone turns up: it is the one that create waits for, or nobody is said to know it.
LEMMA Arriving ==
    ASSUME Machines, Protocol, ServerTypes, Worker, NEW t \in Task, CloneSucceeds(t),
           UNCHANGED <<opVars, job, node, life, target, external, nicKeys, meddled>>
    PROVE  Promise'
<1>1. /\ t \in Unfinished /\ job[t].kind = "clone" /\ Existing = {}
      /\ task' = [task EXCEPT ![t] = "success"]
      /\ UNCHANGED <<props, wait, op, orphans, job, node, target, external, meddled, Id>>
  BY DEF CloneSucceeds, EndTask, opVars, Id
<1>2. Existing' = {t}
  BY CloneDone
<1>3. Disturbed' = Disturbed /\ Spared' = Spared
  BY <1>1 DEF Disturbed, Spared
<1>4. (Route /\ InHand)'
  BY <1>1, <1>3 DEF Worker, Route, InHand, Passes
<1>5. (op.at \in Stage \union {"finish"} \/ op.outcome = "ok") /\ t \notin orphans
         => op.at = "clone" /\ wait.task = t
  BY <1>1, Mine DEF Worker, InHand
<1>6. op.outcome = "ok" => op.at = "idle"
  BY DEF Protocol, Places
<1>7. Results'
  <2> SUFFICES ASSUME t \notin Disturbed, Achieved'
               PROVE  Kept(vm'[t])
    BY <1>1, <1>2, <1>3 DEF Results, Kept
  <2>1. t \notin orphans
    BY DEF Disturbed
  <2>2. op.at \in Stage \union {"finish"} \/ op.outcome = "ok"
    BY <1>1 DEF Achieved, Ended, Stage
  <2>3. op.at = "clone" /\ wait.task = t /\ wait.at # "none"
    BY <1>5, <2>1, <2>2 DEF Protocol, Places
  <2>4. /\ op.name \in Creating
        /\ job[t].on = (op.name = "start" /\ node.startVm)
    BY <2>3 DEF Worker, Route, InHand, Passes, Stage
  <2>5. vm'[t].power = IF job[t].on THEN "on" ELSE "off"
    BY DEF CloneSucceeds, ServerTypes, Object
  <2> QED
    BY <2>4, <2>5 DEF Kept, Creating
<1>8. op.at \in {"upgrade", "nics", "finish", "destroy"} \/ op.outcome = "ok" => t \in orphans
  BY <1>5, <1>6 DEF Stage
<1>9. Upgraded'
  BY <1>1, <1>2, <1>3, <1>8 DEF Upgraded, Ended, Disturbed
<1>10. (Cleared /\ Made)'
  BY <1>1, <1>2, <1>8 DEF Cleared, Made, Ended
<1>11. Gone'
  <2>1. \A u \in Task : Destroys(u)' => Destroys(u)
    BY <1>1 DEF Destroys, Unfinished, Protocol, OpTypes, WaitTypeOK
  <2>2. ~meddled /\ ~node.external => \A u \in Task : ~Destroys(u)'
    BY <1>1, <2>1 DEF Machines, Doomed
  <2> QED
    BY <1>1, <1>2, <1>8, <2>2 DEF Gone, Ended
<1> QED
  BY <1>4, <1>7, <1>9, <1>10, <1>11 DEF Promise

\* A task on a machine ends well: it is the one of the stage, or a lost one, which excuses
\* its machine.
LEMMA Working ==
    ASSUME Machines, Protocol, ServerTypes, Worker, NEW t \in Task, TaskSucceeds(t),
           UNCHANGED <<opVars, job, node, life, target, external, nicKeys, meddled>>
    PROVE  Promise'
<1> DEFINE o == job[t].vm
<1>1. /\ t \in Unfinished /\ job[t].kind # "clone"
      /\ task' = [task EXCEPT ![t] = "success"]
      /\ UNCHANGED <<props, wait, op, orphans, job, node, target, external, meddled, Id>>
  BY DEF TaskSucceeds, EndTask, opVars, Id
<1>2. /\ o \in Existing /\ o \in Object
      /\ Existing' = IF job[t].kind = "destroy" THEN {} ELSE {o}
      /\ vm'[o] = Effect(job[t].kind, vm[o])
      /\ vm[o] \in Machine /\ Existing = {o}
  <2>1. Existing = {o}
    BY Affected DEF Machines, Serial
  <2> QED
    BY <2>1, Affected DEF ServerTypes
<1>3. Disturbed' = Disturbed /\ Spared' = Spared
  BY <1>1 DEF Disturbed, Spared
<1>4. (Route /\ InHand)'
  BY <1>1, <1>3 DEF Worker, Route, InHand, Passes
<1>5. t \in orphans => Existing' \subseteq Disturbed
  BY <1>2 DEF Disturbed
<1>6. (op.at \in Stage \union {"finish"} \/ op.outcome = "ok") /\ t \notin orphans
         => /\ op.at \in Stage \ {"clone"} /\ wait.at # "none" /\ wait.task = t
            /\ job[t].kind = op.at /\ op.name \in Passes(op.at) /\ op.outcome # "ok"
  <2> SUFFICES ASSUME op.at \in Stage \union {"finish"} \/ op.outcome = "ok", t \notin orphans
               PROVE  /\ op.at \in Stage \ {"clone"} /\ wait.at # "none" /\ wait.task = t
                      /\ job[t].kind = op.at /\ op.name \in Passes(op.at) /\ op.outcome # "ok"
    OBVIOUS
  <2>1. op.at \in Stage /\ wait.at # "none" /\ wait.task = t
    BY <1>1, Mine
  <2>2. op.outcome # "ok"
    BY <2>1 DEF Protocol, Places, Stage
  <2> QED
    BY <1>1, <2>1, <2>2 DEF Worker, InHand, Route
<1>7. \A stage \in Stage : Ended(stage)' =>
          Ended(stage) \/ (op.at = stage /\ wait.at # "none" /\ wait.task = t)
  BY <1>1 DEF Ended
<1>8. \A stage \in Stage \ {"clone"} :
        op.at = stage /\ wait.at # "none" /\ wait.task = t => job[t].kind = stage
  BY DEF Worker, InHand
<1>9. Results'
  <2> SUFFICES ASSUME t \notin orphans, Achieved', job[t].kind # "destroy", o \notin Disturbed
               PROVE  Kept(vm'[o])
    BY <1>1, <1>2, <1>3, <1>5 DEF Results, Kept
  <2>1. op.at \in Stage \union {"finish"} \/ op.outcome = "ok"
    BY <1>1 DEF Achieved, Ended, Stage
  <2>2. CASE op.at \in {"upgrade", "nics"}
    <3>1. vm'[o].power = vm[o].power
      BY <1>2, <1>6, <2>1, <2>2, EffectKeeps
    <3> QED
      BY <1>2, <2>2, <3>1 DEF Worker, Results, Achieved, Kept
  <2>3. CASE op.at \in {"poweron", "poweroff", "suspend"}
    BY <1>2, <1>6, <2>1, <2>3 DEF Effect, Machine, Passes, Kept
  <2>4. op.at \in Stage \ {"clone"} /\ op.outcome # "ok"
    BY <1>6, <2>1
  <2>5. op.at \in {"upgrade", "nics", "poweron", "poweroff", "suspend"}
    BY <1>1, <2>4 DEF Achieved, Ended, Stage
  <2> QED
    BY <2>2, <2>3, <2>5
<1>10. Upgraded'
  <2> SUFFICES ASSUME t \notin orphans, o \notin Disturbed, op.name = "create", Existing' = {o},
                      op.at \in {"nics", "finish"} \/ Ended("upgrade")' \/ op.outcome = "ok"
               PROVE  ~vm'[o].oldHw \/ vm'[o].power = "on"
    BY <1>1, <1>2, <1>3, <1>5 DEF Upgraded
  <2>1. op.at \in {"nics", "upgrade"} /\ job[t].kind = op.at
    BY <1>1, <1>6 DEF Ended, Stage
  <2>2. CASE op.at = "nics"
    <3>1. ~vm[o].oldHw \/ vm[o].power = "on"
      BY <1>2, <2>2 DEF Worker, Upgraded
    <3> QED
      BY <1>2, <2>1, <2>2, <3>1, EffectKeeps
  <2>3. CASE op.at = "upgrade"
    BY <1>2, <2>1, <2>3 DEF Effect, Machine
  <2> QED
    BY <2>1, <2>2, <2>3
<1>11. Cleared'
  <2> SUFFICES ASSUME ~meddled, o \notin orphans, Existing' = {o},
                      \/ Ended("nics")'
                      \/ op.name = "create" /\ (op.at = "finish" \/ op.outcome = "ok")
               PROVE  ~vm'[o].oldNics
    BY <1>1, <1>2 DEF Cleared
  <2>1. CASE Ended("nics")' /\ ~Ended("nics")
    <3>1. job[t].kind = "nics"
      BY <1>7, <1>8, <2>1 DEF Stage
    <3> QED
      BY <1>2, <3>1 DEF Effect, Machine
  <2>2. CASE ~(Ended("nics")' /\ ~Ended("nics"))
    <3>1. ~vm[o].oldNics
      BY <1>2, <2>2 DEF Worker, Cleared
    <3> QED
      BY <1>2, <3>1, EffectKeeps
  <2> QED
    BY <2>1, <2>2
<1>12. Made'
  BY <1>1, <1>6 DEF Made
<1>13. Gone'
  <2>1. \A u \in Task : Destroys(u)' => Destroys(u)
    BY <1>1 DEF Destroys, Unfinished, Protocol, OpTypes, WaitTypeOK
  <2>2. Machines'
    BY TaskDone
  <2>3. CASE Ended("destroy")' /\ ~Ended("destroy")
    <3>1. job[t].kind = "destroy"
      BY <1>7, <1>8, <2>3 DEF Stage
    <3>2. Existing' = {}
      BY <1>2, <3>1
    <3> QED
      BY <2>2, <3>2 DEF Gone, Machines, Doomed
  <2>4. CASE ~(Ended("destroy")' /\ ~Ended("destroy"))
    BY <1>1, <1>2, <2>1, <2>4 DEF Worker, Gone
  <2> QED
    BY <2>3, <2>4
<1> QED
  BY <1>4, <1>9, <1>10, <1>11, <1>12, <1>13 DEF Promise

\* A machine is destroyed by somebody else: the promises are about those that are left.
LEMMA Meddling ==
    ASSUME Machines, ServerTypes, Worker, MachineVanishes
    PROVE  Promise'
<1>1. /\ meddled' = TRUE
      /\ UNCHANGED <<task, props, wait, op, orphans, job, node, target, external, Id>>
  BY DEF MachineVanishes, waitVars, Id
<1>2. /\ Existing' \subseteq Existing /\ \A o \in Existing' : vm'[o] = vm[o]
      /\ Disturbed' = Disturbed /\ Spared' = Spared
  BY <1>1, Vanishing DEF Disturbed, Spared
<1>3. (Route /\ InHand)'
  BY <1>1, <1>2 DEF Worker, Route, InHand, Passes
<1>4. Results' /\ Upgraded'
  BY <1>1, <1>2 DEF Worker, Results, Achieved, Kept, Upgraded, Ended
<1>5. (Cleared /\ Made /\ Gone)'
  BY <1>1 DEF Cleared, Made, Gone
<1> QED
  BY <1>3, <1>4, <1>5 DEF Promise

\* Ids are used again: none that a promise names.
LEMMA Recycling ==
    ASSUME Machines, Protocol, ServerTypes, Worker, ReuseTasks
    PROVE  Promise'
<1>1. UNCHANGED <<vm, props, wait, op, node, target, external, meddled, Id, life>>
  BY DEF ReuseTasks, Id
<1>2. op.at = "dispatch" => Promise'
  BY <1>1, Between DEF Protocol, Places
<1>3. CASE op.at # "dispatch"
  <2>1. orphans \cap Reusable = {} /\ orphans \subseteq Task
    BY <1>3 DEF Reusable, Protocol, OpTypes
  <2>2. orphans' = orphans
    BY <2>1 DEF ReuseTasks
  <2>3. \A t \in orphans : job'[t] = job[t]
    BY <2>1, Reusing
  <2>4. wait.task \notin Reusable /\ (wait.at # "none" => wait.task \in Task)
    BY DEF Reusable, Remembered, Protocol, Holding
  <2>5. wait.at # "none" => job'[wait.task] = job[wait.task] /\ task'[wait.task] = task[wait.task]
    BY <2>4, Reusing
  <2>6. Existing' = Existing /\ Disturbed' = Disturbed /\ Spared' = Spared
    BY <1>1, <2>2, <2>3 DEF Existing, Disturbed, Spared
  <2>7. \A t \in Task : Destroys(t)' => Destroys(t)
    BY Reusing DEF Destroys, Unfinished, Reusable, Finished, ReuseTasks
  <2>8. \A stage : Ended(stage)' <=> Ended(stage)
    BY <1>1, <2>5 DEF Ended
  <2>9. (Route /\ InHand)'
    BY <1>1, <2>5, <2>6 DEF Worker, Route, InHand, Passes
  <2>10. Results' /\ Upgraded'
    BY <1>1, <2>6, <2>8 DEF Worker, Results, Achieved, Kept, Upgraded
  <2>11. (Cleared /\ Made)'
    BY <1>1, <2>2, <2>6, <2>8 DEF Worker, Cleared, Made
  <2>12. Gone'
    BY <1>1, <2>2, <2>6, <2>7, <2>8 DEF Worker, Gone
  <2> QED
    BY <2>9, <2>10, <2>11, <2>12 DEF Promise
<1> QED
  BY <1>2, <1>3

\* Every step keeps what the invariant says of the operation.
LEMMA WorkerStep ==
    Machines /\ Protocol /\ ServerTypes /\ Worker /\ [Next]_vars => Worker'
<1> SUFFICES ASSUME Machines, Protocol, ServerTypes, Worker, [Next]_vars
             PROVE  Promise'
  BY WorkflowStep, KeysStep DEF Worker, Promise
<1>1. op \in Operation /\ (op.outcome # "none" => op.at = "idle")
  BY DEF Protocol, OpTypes, Places
<1>2. CASE \E name \in OpName : Begin(name)
  BY <1>2, Between DEF Begin, BeginOperation
<1>3. CASE NoDeferredTask \/ DeferredTask \/ DeferredReturned \/ TaskTimedOut \/ TaskFailed
           \/ WorkerStops
  <2>1. CASE NoDeferredTask \/ DeferredTask \/ DeferredReturned
    <3>1. op'.at \in {"deferred", "body"} /\ op'.outcome = op.outcome /\ op.at # "idle"
      BY <1>1, <2>1, AttemptType DEF NoDeferredTask, DeferredTask, DeferredReturned, WrapperPlace
    <3> QED
      BY <1>1, <3>1, Between
  <2>2. CASE TaskFailed \/ CloneInterrupted \/ RetriesExhausted
    <3>1. op'.at = "idle" /\ op'.outcome = "failed"
      BY <1>1, <2>2, AttemptType DEF TaskFailed, CloneInterrupted, RetriesExhausted, Outcome
    <3> QED
      BY <3>1, Between
  <2>3. CASE TaskTimedOut \/ Crash \/ ConnectionLost
    <3>1. op.at # "idle"
      BY <2>3 DEF TaskTimedOut, Crash, ConnectionLost, CutShort, Protocol, Places, NotWaiting
    <3>2. op'.at = "dispatch" /\ op'.outcome = op.outcome
      BY <1>1, <2>3, AttemptType DEF TaskTimedOut, Crash, ConnectionLost, WrapperPlace
    <3> QED
      BY <1>1, <3>1, <3>2, Between
  <2> QED
    BY <1>3, <2>1, <2>2, <2>3 DEF WorkerStops
<1>4. CASE MissingServer \/ UnknownServer
  <2>1. op'.at = "idle" /\ op'.outcome = "failed"
    BY <1>1, <1>4, AttemptType DEF MissingServer, UnknownServer, Ends, Outcome
  <2> QED
    BY <2>1, Between
<1>5. CASE CreateNothing \/ StageGone
  <2>1. op.at # "idle"
    BY <1>5 DEF CreateNothing, StageGone, AtStage, Stage
  <2>2. op'.at = "dispatch" /\ op'.outcome = op.outcome
    BY <1>1, <1>5, AttemptType DEF CreateNothing, StageGone
  <2> QED
    BY <1>1, <2>1, <2>2, Between
<1>6. CASE Waiting /\ UNCHANGED serverVars
  <2>1. /\ wait.at # "none" /\ wait'.task = wait.task
        /\ UNCHANGED <<task, op, vm, node, job, target, external, meddled, orphans>>
    BY <1>6 DEF Waiting, WaitStep, SaveTask, FindTask, MissTask, PollAgain, PollTimeout,
           ForgetTask, RecordResult, Protocol, OpTypes, WaitTypeOK, Wait, opVars, serverVars
  <2>2. CASE ~RecordResult
    <3>1. Id' = Id
      BY <1>6, <2>2 DEF Waiting, WaitStep, SaveTask, FindTask, MissTask, PollAgain,
             PollTimeout, ForgetTask, Id, Protocol, OpTypes, WaitTypeOK, Properties
    <3> QED
      BY <2>1, <3>1, Still DEF Unfinished
  <2>3. CASE RecordResult /\ op.at \in Stage
    <3>1. job[wait.task].kind = "clone"
      BY <1>6, <2>3, Recording DEF Worker, Waiting
    <3>2. op.name # DeleteOp
      BY <2>1, <2>3, <3>1 DEF Worker, InHand, Route, Passes, Creating
    <3> QED
      BY <2>1, <3>2, Still DEF Unfinished
  <2>4. CASE RecordResult /\ op.at \notin Stage
    <3>1. op.at = "deferred"
      BY <1>1, <2>1, <2>4 DEF Operation, WrapperPlace, Protocol, Places, NotWaiting
    <3> QED
      BY <1>1, <2>1, <3>1, Between
  <2> QED
    BY <2>2, <2>3, <2>4
<1>7. ASSUME NEW t \in Task, TaskEnds(t) \/ Ageing(t)
      PROVE  Promise'
  <2>1. CASE TaskEndsWell(t)
    BY <2>1, Arriving, Working DEF TaskEndsWell
  <2>2. CASE TaskEndsBadly(t) \/ Ageing(t)
    <3>1. /\ UNCHANGED <<op, vm, node, job, target, external, meddled, orphans, props, wait, Id>>
          /\ task' = task \/ task' = [task EXCEPT ![t] = "error"]
      BY <2>2 DEF TaskEndsBadly, Ageing, EndTask, AgeTask, opVars, serverVars, Id
    <3>2. /\ Unfinished' \subseteq Unfinished
          /\ wait.at # "none" /\ task'[wait.task] = "success" => task[wait.task] = "success"
      BY <3>1 DEF Unfinished, Protocol, OpTypes, WaitTypeOK, Holding
    <3> QED
      BY <3>1, <3>2, Still
  <2> QED
    BY <1>7, <2>1, <2>2 DEF TaskEnds
<1>8. CASE UNCHANGED vars
  BY <1>8, Still DEF vars, waitVars, opVars, serverVars, Id, Unfinished
<1>9. CASE Wrapper
  BY <1>3, <1>6, <1>9 DEF Wrapper
<1>10. CASE Body
  BY <1>4, <1>5, <1>10, Finding, Launching, Passing, Reporting DEF Body
<1> QED
  BY <1>2, <1>3, <1>7, <1>8, <1>9, <1>10, Meddling, Recycling DEF Next, Trouble

\* Before the first operation there is at most an external server.
LEMMA InvariantInit == Init => IInv
<1> SUFFICES ASSUME Init
             PROVE  IInv
  OBVIOUS
<1>1. Protocol
  BY DEF Init, WaitInit, OpInit, Protocol, OpTypes, Places, Holding, Listed, Tracked,
         Unfinished, NotWaiting, NoProperties, WaitTypeOK, Properties, Wait, WaitPlace,
         MaybeTask, MaybeKey, Object, MaybeObject, TaskState, Operation, WrapperPlace, Outcome,
         Stage
<1>2. /\ Unfinished = {} /\ Id = NoTask /\ props.task = NoTask /\ wait.at = "none"
      /\ op.at = "idle" /\ op.outcome = "none" /\ life = "none" /\ ~external
      /\ \A t \in Task : job[t].kind = "none"
  BY DEF Init, WaitInit, OpInit, Unfinished, Id, NoProperties, NotWaiting, NoJob
<1>3. ServerTypes
  <2>1. Absent \in Machine /\ NoJob \in Job
    BY DEF Absent, Machine, Power, NoJob, Job, MaybeObject
  <2> QED
    BY <2>1 DEF Init, ServerTypes, MaybeObject
<1>4. \A o \in Existing : ~vm[o].oldNics
  BY DEF Init, Existing, Absent
<1>5. /\ node.external => Existing \subseteq Other
      /\ ~node.external => Existing = {}
      /\ \A o, u \in Existing : o = u
  BY DEF Init
<1>6. (\A t \in Task : ~Destroys(t)) /\ (\A t \in Task : ~Held(t))
  BY <1>2 DEF Destroys, Held
<1>7. Machines
  BY <1>2, <1>4, <1>5, <1>6 DEF Machines, Serial, Whose, OneUnblocked, Doomed, Fresh, Alive,
     Known, Noted
<1>8. Workflow /\ Keys /\ Route /\ InHand /\ Made
  BY <1>2 DEF Workflow, Keys, Route, InHand, Made, Stage
<1>9. Results /\ Upgraded /\ Cleared /\ Gone
  BY <1>2 DEF Results, Achieved, Upgraded, Cleared, Gone, Ended, Stage
<1> QED
  BY <1>1, <1>3, <1>7, <1>8, <1>9 DEF IInv, Worker

\* The inductive invariant holds in every behaviour.
THEOREM Invariance == Spec => []IInv
<1>1. IInv /\ [Next]_vars => IInv'
  <2> SUFFICES ASSUME IInv, [Next]_vars
               PROVE  IInv'
    OBVIOUS
  <2>1. Protocol' /\ Machines' /\ Worker'
    BY ProtocolStep, MachinesStep, WorkerStep DEF IInv, Worker
  <2>2. ServerTypes'
    <3>1. CASE Next
      BY <3>1, TypesStep DEF IInv, Protocol
    <3>2. CASE UNCHANGED vars
      BY <3>2 DEF IInv, ServerTypes, vars, serverVars
    <3> QED
      BY <3>1, <3>2
  <2> QED
    BY <2>1, <2>2 DEF IInv
<1> QED
  BY <1>1, InvariantInit, PTL DEF Spec

-----------------------------------------------------------------------------

\* Every variable keeps its type.
THEOREM TypeCorrect == Spec => []TypeOK
<1>1. IInv => TypeOK
  BY DEF IInv, Protocol, OpTypes, ServerTypes, TypeOK, Operation
<1> QED
  BY <1>1, Invariance, PTL

\* A reported success of stop, start, resume, suspend, power_on and power_off is true,
\* whichever attempt started the task and whichever waited for it.
THEOREM SuccessIsDone == Spec => []SuccessMeansDone
<1>1. IInv => SuccessMeansDone
  <2> SUFFICES ASSUME IInv, NEW o \in Existing \ Disturbed, op.outcome = "ok"
               PROVE  /\ Reported("stop") /\ ~Spared => vm[o].power = "off"
                      /\ Reported("power_off") => vm[o].power = "off"
                      /\ Reported("start") /\ node.startVm => vm[o].power = "on"
                      /\ Reported("resume") /\ ~Spared => vm[o].power = "on"
                      /\ Reported("power_on") => vm[o].power = "on"
                      /\ Reported("suspend") /\ ~Spared => vm[o].power \in {"suspended", "off"}
    BY DEF SuccessMeansDone, Reported
  <2>1. ~Spared => Kept(vm[o])
    BY DEF IInv, Worker, Results, Achieved
  <2>2. op.name \in {"start", "power_on", "power_off"} => ~Spared
    BY DEF Spared
  <2> QED
    BY <2>1, <2>2 DEF Kept, Reported
<1> QED
  BY <1>1, Invariance, PTL

\* After create the server is there, upgraded, and without the adapters of its template.
THEOREM CreatedServersAreReady == Spec => []CreatedIsReady
<1>1. IInv => CreatedIsReady
  BY DEF IInv, Worker, Upgraded, Cleared, Made, CreatedIsReady, Reported, Disturbed
<1> QED
  BY <1>1, Invariance, PTL

\* delete leaves no machine that this instance cloned, but for a clone that a crash lost.
THEOREM NothingStrays == Spec => []NoStrayMachine
<1>1. IInv => NoStrayMachine
  BY DEF IInv, Worker, Gone, NoStrayMachine, Reported
<1> QED
  BY <1>1, Invariance, PTL

\* Without force, only power_off seizes an external server whose id is stored.
THEOREM ExternalIsSafe == Spec => ExternalUntouched
<1> DEFINE Untouched ==
      \A t \in Task : Seizes(t) /\ props.ids[ServerKey] # NoTask =>
          node.force \/ op.name = "power_off"
<1>1. IInv /\ [Next]_vars => [Untouched]_vars
  <2> SUFFICES ASSUME IInv, Next, NEW t \in Task, Seizes(t), Id # NoTask
               PROVE  node.force \/ op.name = "power_off"
    BY DEF Id
  <2> USE DEF IInv
  <2>1. PICK u \in Task : CloneServer(u) \/ StartStage(u)
    <3>1. CASE \E u \in Task : CloneServer(u) \/ StartStage(u)
      BY <3>1
    <3>2. CASE ReuseTasks
      <4>1. job'[t] \in {job[t], NoJob}
        BY <3>2 DEF ReuseTasks
      <4> QED
        BY <4>1 DEF Seizes, NoJob
    <3>3. CASE ~ReuseTasks /\ ~\E u \in Task : CloneServer(u) \/ StartStage(u)
      <4>1. job' = job
        BY <3>3 DEF Next, Begin, Wrapper, Body, Trouble, SkipExternal, NothingToDo, MissingServer,
               UnknownServer, FindServer, CreateNothing, SkipStage, StageReturned, StageDone,
               StageGone, Finish, Ends, WorkerStops, MachineVanishes, TaskEnds, TaskEndsWell,
               TaskEndsBadly, Ageing, serverVars
      <4> QED
        BY <4>1 DEF Seizes
    <3> QED
      BY <3>1, <3>2, <3>3
  <2>2. /\ u = t /\ StartStage(t) /\ target \in Other /\ target \in Existing
        /\ op.at \in {"poweroff", "suspend", "destroy"}
    BY <2>1 DEF Seizes, CloneServer, StartStage, StartJob, ServerTypes
  <2>3. node.external /\ external
    BY <2>2 DEF Machines, Whose, Worker, Workflow
  <2>4. ~Spared /\ op.name \in {"stop", "power_off", "suspend", DeleteOp}
    BY <2>2 DEF Worker, Route, Passes, Stage
  <2> QED
    BY <2>3, <2>4 DEF Spared
<1> QED
  BY <1>1, Invariance, PTL DEF Spec, ExternalUntouched

=============================================================================
