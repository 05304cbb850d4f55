--------------------------- MODULE ServerLifecycle ---------------------------
(***************************************************************************)
(* The lifecycle operations of a cloudify.nodes.vsphere.Server instance:   *)
(* create, start, stop, freeze_suspend, freeze_resume, delete, and the     *)
(* power operations of power.py, over the virtual machines of vSphere.     *)
(*                                                                         *)
(* Every operation finds its server first and then goes through stages; a  *)
(* stage that still has something to do starts one vSphere task and waits  *)
(* for it.  A retried attempt begins again from the look-up.               *)
(*                                                                         *)
(* All machines here have the name that get_vm_name computes, so a look-up *)
(* by name finds any of them.  A machine is named by the Clone task that   *)
(* made it, or is in Other.                                                *)
(***************************************************************************)
EXTENDS NodeOperation

CONSTANTS
    Nodes,      \* node properties and operation inputs to choose from
    ServerKey   \* VSPHERE_SERVER_ID

\* external: use_external_resource.   force: force_stop and force_delete.
\* startVm: enable_start_vm of start. extra: extra_config of start.
\* postpone: postpone_delete_networks, for a template that has adapters.
ASSUME ServerLifecycleAssumption ==
    /\ ServerKey \in Key
    /\ DeleteOp = "delete"
    /\ OpName \subseteq {"create", "start", "stop", "suspend", "resume",
                   "power_on", "power_off", "reset", "delete"}
    /\ Nodes \subseteq [external : BOOLEAN, force : BOOLEAN, startVm : BOOLEAN,
                        extra : BOOLEAN, postpone : BOOLEAN]

VARIABLES
    vm,         \* the virtual machines
    job,        \* what each task does, and to which machine
    node,       \* the element of Nodes this instance has
    life,       \* which operations a workflow may run
    target,     \* the worker's server_obj
    external,   \* runtime property VSPHERE_RESOURCE_EXTERNAL
    nicKeys,    \* runtime property _keys_for_remove is set
    meddled     \* history: somebody else destroyed a machine

serverVars == <<vm, job, node, life, target, external, nicKeys, meddled>>
vars == <<waitVars, opVars, serverVars>>

Power == {"absent", "off", "on", "suspended"}
Machine == [power : Power, oldHw : BOOLEAN, oldNics : BOOLEAN]
Absent == [power |-> "absent", oldHw |-> FALSE, oldNics |-> FALSE]

Stage == {"clone", "reconf", "poweron", "upgrade", "nics", "poweroff",
          "suspend", "reset", "destroy"}

\* blocked: another task held the machine when this one was started.
Job == [kind : Stage \union {"none"}, vm : MaybeObject, on : BOOLEAN, blocked : BOOLEAN]
NoJob == [kind |-> "none", vm |-> NoTask, on |-> FALSE, blocked |-> FALSE]

Creating == {"create", "start"}
ServerOps == Creating \union {"stop", "suspend", "resume", "power_on",
                              "power_off", "reset", "delete"}
PowerOps == {"power_on", "power_off", "reset"}

\* The machines of vSphere that have the name of this server.
Existing == {o \in Object : vm[o].power # "absent"}

Init ==
    /\ WaitInit
    /\ OpInit
    /\ node \in Nodes
    /\ vm \in [Object -> {Absent} \union
                         {m \in Machine : m.power \in {"off", "on"} /\ ~m.oldNics}]
    /\ Existing \subseteq (IF node.external THEN Other ELSE {})
    /\ \A o, u \in Existing : o = u
    /\ job = [t \in Task |-> NoJob]
    /\ life = "none"
    /\ target = NoTask
    /\ external = FALSE
    /\ nicKeys = FALSE
    /\ meddled = FALSE

-----------------------------------------------------------------------------
(* vSphere *)

\* When a task on a machine in this state can succeed.
Fits(kind, power) ==
    CASE kind = "poweron" -> power \in {"off", "suspended"}
      [] kind = "poweroff" -> power \in {"on", "suspended"}
      [] kind \in {"suspend", "reset"} -> power = "on"
      [] kind \in {"upgrade", "destroy"} -> power # "on"
      [] OTHER -> TRUE

Effect(kind, m) ==
    CASE kind = "poweron" -> [m EXCEPT !.power = "on"]
      [] kind = "poweroff" -> [m EXCEPT !.power = "off"]
      [] kind = "suspend" -> [m EXCEPT !.power = "suspended"]
      [] kind = "upgrade" -> [m EXCEPT !.oldHw = FALSE]
      [] kind = "nics" -> [m EXCEPT !.oldNics = FALSE]
      [] kind = "destroy" -> Absent
      [] OTHER -> m

\* Names are unique: a clone fails when the name is taken (DuplicateName).
CloneSucceeds(t) ==
    /\ job[t].kind = "clone"
    /\ Existing = {}
    /\ EndTask(t, "success")
    /\ vm' = [vm EXCEPT ![t] = [power |-> IF job[t].on THEN "on" ELSE "off",
                                oldHw |-> TRUE, oldNics |-> node.postpone]]

TaskSucceeds(t) ==
    LET o == job[t].vm IN
    /\ job[t].kind # "clone"
    /\ o \in Existing
    /\ ~job[t].blocked
    /\ Fits(job[t].kind, vm[o].power)
    /\ EndTask(t, "success")
    /\ vm' = [vm EXCEPT ![o] = Effect(job[t].kind, @)]

Remembered == {props.task, wait.task, target, props.ids[ServerKey]}

\* Ended tasks nobody remembers: their ids stand for new tasks.  That is not a
\* step of the system, and the system's steps wait for it, which keeps the
\* state space small.  (A lost task is forgotten between attempts only:
\* SuccessMeansDone names it.)
Reusable ==
    {t \in Finished \ Remembered :
        vm[t] = Absent /\ (t \in orphans => op.at = "dispatch")}

TaskEndsWell(t) ==
    /\ Reusable = {}
    /\ CloneSucceeds(t) \/ TaskSucceeds(t)
    /\ UNCHANGED <<opVars, job, node, life, target, external, nicKeys, meddled>>

TaskEndsBadly(t) ==
    /\ Reusable = {}
    /\ EndTask(t, "error")
    /\ UNCHANGED <<opVars, serverVars>>

TaskEnds(t) == TaskEndsWell(t) \/ TaskEndsBadly(t)

ReuseTasks ==
    /\ Reusable # {}
    /\ task' = [t \in Task |-> IF t \in Reusable THEN "unused" ELSE task[t]]
    /\ job' = [t \in Task |-> IF t \in Reusable THEN NoJob ELSE job[t]]
    /\ recent' = recent \ Reusable
    /\ orphans' = orphans \ Reusable
    /\ dropped' = dropped \ Reusable
    /\ UNCHANGED <<props, wait, op, faults, vm, node, life, target, external,
                   nicKeys, meddled>>

\* An administrator deletes a machine (once, within the bound on faults).
MachineVanishes ==
    /\ faults < MaxFaults
    /\ faults' = faults + 1
    /\ \E o \in Existing : vm' = [vm EXCEPT ![o] = Absent]
    /\ meddled' = TRUE
    /\ UNCHANGED <<waitVars, op, orphans, dropped, job, node, life, target,
                   external, nicKeys>>

-----------------------------------------------------------------------------
(* Looking the server up *)

\* Mutant: no look-up by name.
ServerById == {props.ids[ServerKey]} \cap Existing

\* get_server_by_context: by id once the id is known, else by name.
ServerByContext ==
    LET id == props.ids[ServerKey] IN
    IF id # NoTask THEN {id} \cap Existing ELSE Existing

\* create and start look an external server up by its configured name.
Server ==
    IF op.name \in Creating /\ node.external THEN Existing ELSE ServerByContext

Ends(outcome) ==
    /\ op.at = "body"
    /\ EndAttempt(outcome)
    /\ UNCHANGED <<task, recent, wait, orphans, dropped, faults, vm, job, node,
                   meddled>>

\* What is left when an operation ends, delete's clean-up included.
Leaves(left) ==
    /\ props' = left
    /\ external' = (external /\ op.name # DeleteOp)
    /\ nicKeys' = (nicKeys /\ op.name # DeleteOp)
    /\ target' = NoTask
    /\ life' = IF op.name = DeleteOp THEN "none"
               ELSE IF op.name = "create" THEN "created" ELSE life

\* An external server is left alone by stop, suspend, resume and delete.
\* (The power operations of power.py do not ask.)
Spared ==
    /\ external
    /\ \/ op.name \in {"stop", DeleteOp} /\ ~node.force
       \/ op.name \in {"suspend", "resume"}

SkipExternal ==
    /\ Spared
    /\ Ends("ok")
    /\ Leaves(CleanedProps)

\* No server.  stop skips a server that was never created, delete skips any.
NothingToDo ==
    /\ ~Spared
    /\ Server = {}
    /\ \/ op.name = DeleteOp
       \/ op.name = "stop" /\ props.ids[ServerKey] = NoTask
    /\ Ends("ok")
    /\ Leaves(CleanedProps)

MissingServer ==
    /\ ~Spared
    /\ Server = {}
    /\ \/ op.name \in Creating /\ node.external
       \/ op.name = "stop" /\ props.ids[ServerKey] # NoTask
       \/ op.name \in {"suspend", "resume"} \union PowerOps
    /\ Ends("failed")
    /\ UNCHANGED <<props, life, target, external, nicKeys>>

\* power.py passes no os_family: without an id it does not even look.
UnknownServer ==
    /\ op.name \in PowerOps
    /\ props.ids[ServerKey] = NoTask
    /\ Ends("failed")
    /\ UNCHANGED <<props, life, target, external, nicKeys>>

FirstStage(o) ==
    CASE op.name = "create" -> "upgrade"
      [] op.name = "start" -> "reconf"
      [] op.name \in {"resume", "power_on"} -> "poweron"
      [] op.name \in {"stop", "power_off", DeleteOp} -> "poweroff"
      [] op.name = "suspend" -> "suspend"
      [] op.name = "reset" -> IF vm[o].power = "off" THEN "poweron" ELSE "reset"

\* Mutant: only start notes that the server is external.
FindServerUnmarked ==
    /\ op.at = "body"
    /\ ~Spared
    /\ op.name \in PowerOps => props.ids[ServerKey] # NoTask
    /\ \E o \in Server :
          /\ target' = o
          /\ op' = [op EXCEPT !.at = FirstStage(o)]
    /\ external' = (external \/ (op.name = "start" /\ node.external))
    /\ UNCHANGED <<waitVars, orphans, dropped, faults, vm, job, node, life,
                   nicKeys, meddled>>

FindServer ==
    /\ op.at = "body"
    /\ ~Spared
    /\ op.name \in PowerOps => props.ids[ServerKey] # NoTask
    /\ \E o \in Server :
          /\ target' = o
          /\ op' = [op EXCEPT !.at = FirstStage(o)]
    /\ external' = (external \/ (op.name \in Creating /\ node.external))
    /\ UNCHANGED <<waitVars, orphans, dropped, faults, vm, job, node, life,
                   nicKeys, meddled>>

\* create_server notes the keys of the adapters of the template (and stores
\* them), unless the clone is to be powered on.
NotesNicKeys ==
    nicKeys' = (nicKeys \/ (node.postpone /\ (op.name = "start" => ~node.startVm)))

\* create_server with retry: nothing is cloned and nothing is found, and what
\* follows trips over the missing server (AttributeError).
CreateNothing ==
    /\ op.at = "body"
    /\ op.name \in Creating
    /\ ~node.external
    /\ Server = {}
    /\ op.retry
    /\ RetryAttempt
    /\ NotesNicKeys
    /\ UNCHANGED <<waitVars, orphans, dropped, faults, vm, job, node, life, target,
                   external, meddled>>

-----------------------------------------------------------------------------
(* Stages *)

StartJob(t, kind, o, key) ==
    /\ Reusable = {}
    /\ Launch(t, key)
    /\ job' = [job EXCEPT ![t] =
          [kind |-> kind, vm |-> o,
           on |-> op.name = "start" /\ node.startVm,
           blocked |-> \E u \in Unfinished : o # NoTask /\ job[u].vm = o]]
    /\ op' = [op EXCEPT !.at = kind]
    /\ UNCHANGED <<orphans, dropped, faults, vm, node, target, external, meddled>>

\* Mutant: the keys are not noted.
CloneServerUnnoted(t) ==
    /\ op.at = "body"
    /\ op.name \in Creating
    /\ ~node.external
    /\ Server = {}
    /\ ~op.retry
    /\ StartJob(t, "clone", NoTask, ServerKey)
    /\ UNCHANGED <<life, nicKeys>>

\* create_server: the template is cloned.
CloneServer(t) ==
    /\ op.at = "body"
    /\ op.name \in Creating
    /\ ~node.external
    /\ Server = {}
    /\ ~op.retry
    /\ StartJob(t, "clone", NoTask, ServerKey)
    /\ NotesNicKeys
    /\ UNCHANGED life

\* Mutants: stop takes a suspended server for a stopped one, or does not look.
NeededWhenOn(stage, m) ==
    CASE stage = "reconf" -> node.extra
      [] stage = "poweron" -> m.power # "on"
      [] stage = "upgrade" -> m.oldHw /\ m.power # "on"
      [] stage = "nics" -> nicKeys /\ m.oldNics
      [] stage \in {"poweroff", "suspend"} -> m.power = "on"
      [] OTHER -> TRUE

NeededAlways(stage, m) ==
    CASE stage = "reconf" -> node.extra
      [] stage = "poweron" -> m.power # "on"
      [] stage = "upgrade" -> m.oldHw /\ m.power # "on"
      [] stage = "nics" -> nicKeys /\ m.oldNics
      [] OTHER -> TRUE

Needed(stage, m) ==
    CASE stage = "reconf" -> node.extra
      [] stage = "poweron" -> m.power # "on"
      [] stage = "upgrade" -> m.oldHw /\ m.power # "on"
      [] stage = "nics" -> nicKeys /\ m.oldNics
      [] stage = "poweroff" ->
            IF op.name = DeleteOp THEN m.power = "on" ELSE m.power # "off"
      [] stage = "suspend" -> m.power = "on"
      [] OTHER -> TRUE

AtStage == op.at \in Stage \ {"clone"} /\ wait.at = "none"

StartStage(t) ==
    /\ AtStage
    /\ target \in Existing
    /\ Needed(op.at, vm[target])
    /\ StartJob(t, op.at, target, NoKey)
    /\ UNCHANGED <<life, nicKeys>>

NextStage ==
    CASE op.at = "clone" -> "upgrade"
      [] op.at = "reconf" -> IF node.startVm THEN "poweron" ELSE "upgrade"
      [] op.at = "poweron" /\ op.name = "start" -> "upgrade"
      [] op.at = "upgrade" -> "nics"
      [] op.at = "poweroff" /\ op.name = DeleteOp -> "destroy"
      [] OTHER -> "finish"

\* The keys are forgotten once all their adapters are removed.
StageDone ==
    /\ Reusable = {}
    /\ op' = [op EXCEPT !.at = NextStage]
    /\ nicKeys' = (nicKeys /\ op.at # "nics")
    /\ UNCHANGED <<task, recent, props, orphans, dropped, faults, vm, job, node,
                   life, external, meddled>>

SkipStage ==
    /\ AtStage
    /\ target \in Existing
    /\ ~Needed(op.at, vm[target])
    /\ StageDone
    /\ UNCHANGED <<wait, target>>

StageReturned ==
    /\ op.at \in Stage
    /\ wait.at = "returned"
    /\ StageDone
    /\ wait' = NotWaiting
    /\ target' = IF op.at = "clone" THEN wait.task ELSE target

\* The machine is gone: the call raises, and Cloudify retries.
StageGone ==
    /\ AtStage \/ (op.at = "finish" /\ op.name \in Creating)
    /\ target \notin Existing
    /\ RetryAttempt
    /\ target' = NoTask
    /\ UNCHANGED <<waitVars, orphans, dropped, faults, vm, job, node, life,
                   external, nicKeys, meddled>>

\* store_server_details after create and start, the wrapper's clean-up after
\* delete.
Finish ==
    /\ op.at = "finish"
    /\ op.name \in Creating => target \in Existing
    /\ EndAttempt("ok")
    /\ Leaves(IF op.name \in Creating THEN [props EXCEPT !.ids[ServerKey] = target]
              ELSE CleanedProps)
    /\ UNCHANGED <<task, recent, wait, orphans, dropped, faults, vm, job, node,
                   meddled>>

-----------------------------------------------------------------------------
(* The whole *)

\* What workflows and users run: create first (again, if it failed); stop and
\* delete once create was tried, power operations until delete begins; the
\* others once create succeeded.  After delete began, create waits for a delete
\* that succeeds.
Begin(name) ==
    /\ CASE name = "create" -> life \in {"none", "attempted"}
         [] name \in {"stop", DeleteOp} -> life # "none"
         [] name \in PowerOps -> life \in {"attempted", "created"}
         [] OTHER -> life = "created"
    /\ Reusable = {}
    /\ BeginOperation(name)
    /\ life' = CASE name = "create" -> "attempted"
                 [] name = DeleteOp -> "deleting"
                 [] OTHER -> life
    /\ UNCHANGED <<vm, job, node, target, external, nicKeys, meddled>>

\* create_server turns an exception around the clone into NonRecoverableError.
CloneInterrupted ==
    /\ op.at = "clone"
    /\ CutShort
    /\ EndAttempt("failed")

WorkerStops ==
    /\ \/ Crash
       \/ op.at # "clone" /\ ConnectionLost
       \/ CloneInterrupted
       \/ RetriesExhausted
    /\ target' = NoTask
    /\ UNCHANGED <<vm, job, node, life, external, nicKeys, meddled>>

Wrapper ==
    \/ /\ Reusable = {}
       /\ \/ NoDeferredTask
          \/ DeferredTask
          \/ DeferredReturned
          \/ Waiting
       /\ UNCHANGED serverVars
    \/ /\ Reusable = {}
       /\ TaskTimedOut \/ TaskFailed
       /\ target' = NoTask
       /\ UNCHANGED <<vm, job, node, life, external, nicKeys, meddled>>

Body ==
    \/ SkipExternal
    \/ NothingToDo
    \/ MissingServer
    \/ UnknownServer
    \/ FindServer
    \/ CreateNothing
    \/ \E t \in Task : CloneServer(t) \/ StartStage(t)
    \/ SkipStage
    \/ StageReturned
    \/ StageGone
    \/ Finish

Trouble ==
    \/ WorkerStops
    \/ MachineVanishes

\* Only of a remembered task does the worker see that it aged.
Ageing(t) ==
    /\ Reusable = {}
    /\ t \in Remembered
    /\ AgeTask(t)
    /\ UNCHANGED <<opVars, serverVars>>

Next ==
    \/ \E name \in OpName : Begin(name)
    \/ Wrapper
    \/ Body
    \/ Trouble
    \/ \E t \in Task : TaskEnds(t) \/ Ageing(t)
    \/ ReuseTasks

Spec == Init /\ [][Next]_vars

\* The worker goes on, vSphere ends every task, and a task that is asked for
\* again and again succeeds at last.
FairSpec ==
    /\ Spec
    /\ SF_vars(ReuseTasks)
    /\ WF_vars(Wrapper)
    /\ WF_vars(Body)
    /\ \A t \in Task : WF_vars(TaskEnds(t)) /\ SF_vars(TaskEndsWell(t))

-----------------------------------------------------------------------------
(* Properties *)

\* Every variable has its type.
TypeOK ==
    /\ WaitTypeOK
    /\ op.name \in OpName /\ op.outcome \in Outcome /\ op.retry \in BOOLEAN
    /\ op.at \in WrapperPlace \union Stage \union {"finish"}
    /\ orphans \subseteq Task /\ dropped \subseteq Task
    /\ vm \in [Object -> Machine]
    /\ job \in [Task -> Job]
    /\ node \in Nodes
    /\ life \in {"none", "attempted", "created", "deleting"}
    /\ target \in MaybeObject
    /\ external \in BOOLEAN /\ nicKeys \in BOOLEAN /\ meddled \in BOOLEAN

Reported(name) == op.outcome = "ok" /\ op.name = name

\* An operation that reports success did what its name says, whichever attempt
\* started the task and whichever attempt waited for it: the server is off
\* after stop, on after start (when asked for) and resume, and so on.  (Not
\* when a task that a crash lost meets the server later.)
Disturbed == orphans \union {job[t].vm : t \in orphans}

SuccessMeansDone ==
    \A o \in Existing \ Disturbed :
        /\ Reported("stop") /\ ~Spared => vm[o].power = "off"
        /\ Reported("power_off") => vm[o].power = "off"
        /\ Reported("start") /\ node.startVm => vm[o].power = "on"
        /\ Reported("resume") /\ ~Spared => vm[o].power = "on"
        /\ Reported("power_on") => vm[o].power = "on"
        /\ Reported("suspend") /\ ~Spared => vm[o].power \in {"suspended", "off"}

\* After create the server is there, upgraded and without the adapters of its
\* template, even if the clone or the removal outlived an attempt: the noted
\* keys survive the retry.
CreatedIsReady ==
    Reported("create") /\ ~meddled =>
        /\ Existing # {} \/ orphans # {}
        /\ \A o \in Existing \ Disturbed :
              (~vm[o].oldHw \/ vm[o].power = "on") /\ ~vm[o].oldNics

\* After delete no machine that this instance cloned is left, even if create
\* failed, timed out for good or was retried: a machine whose id was never
\* stored is found by name.  Only a clone a crash lost may still turn up.
NoStrayMachine ==
    Reported(DeleteOp) /\ ~meddled => Existing \cap Task \subseteq orphans

\* A task t that stops, suspends or destroys a server this instance did not
\* create is started.
Seizes(t) ==
    /\ job'[t] # job[t]
    /\ job'[t].vm \in Other
    /\ job'[t].kind \in {"poweroff", "suspend", "destroy"}

\* Once create stored the id of an external server, only power_off ever seizes
\* it without force, whatever failed in between: the property
\* VSPHERE_RESOURCE_EXTERNAL is there as long as the id is.
ExternalUntouched ==
    [][\A t \in Task : Seizes(t) /\ props.ids[ServerKey] # NoTask =>
          node.force \/ op.name = "power_off"]_vars

\* Operations that look before they act end, however slow vSphere is.
\* (reset resets again in every attempt; create and start may never end.)
OperationsEnd ==
    \A name \in OpName \ (Creating \union {"reset"}) :
        (op.at # "idle" /\ op.name = name) ~> (op.at = "idle")

=============================================================================
