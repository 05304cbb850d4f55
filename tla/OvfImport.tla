------------------------------ MODULE OvfImport ------------------------------
(***************************************************************************)
(* A machine imported from an OVF package and deleted again.  vSphere      *)
(* gives out a lease for the import: disks are uploaded under it, a timer  *)
(* in a thread of its own tells vSphere of the progress to keep it, and    *)
(* the worker completes or aborts it.  A lease nobody tells about expires  *)
(* and takes the half-imported machine with it.                            *)
(*                                                                         *)
(* create has no client decorator: it never waits for a task of an earlier *)
(* attempt, and imports again.  vSphere then refuses the name.  What the   *)
(* Reconfigure changes, and a machine of the same name in another folder,  *)
(* are left out.                                                           *)
(***************************************************************************)
EXTENDS Naturals

CONSTANT Disks      \* bound: files of the package that are uploaded

ASSUME OvfAssumption == Disks \in Nat

VARIABLES
    lease,      \* HttpNfcLease.state of the last import
    vm,         \* the machine of that name
    job,        \* the last task of the machine
    connected,  \* the session to vCenter works
    timer,      \* "told": Progress done, the state of the lease not yet looked at
    props,      \* stored runtime properties: the id of the machine, a task id
    worker,     \* what the worker does
    stranded    \* history: an Abort did not reach vSphere while the timer went on

ovfVars == <<lease, vm, job, connected, timer, props, worker, stranded>>

Waits == {"wait", "deferred"}
OvfPlace == {"idle", "raised", "body", "lease", "upload", "complete", "abort",
             "find", "reconfigure", "poweron", "look", "poweroff", "destroy", "save"} \union Waits

NoProps == [id |-> FALSE, task |-> FALSE]

At(op, place, outcome) ==
    [op |-> op, at |-> place, left |-> 0, found |-> FALSE, outcome |-> outcome]

OvfInit ==
    /\ lease = "none" /\ vm = "none" /\ timer = "off"
    /\ connected = TRUE /\ stranded = FALSE
    /\ job = [kind |-> "destroy", state |-> "success"]
    /\ props = NoProps
    /\ worker = At("delete", "idle", "ok")

-----------------------------------------------------------------------------
(* vSphere and the network *)

LeaseReady ==
    /\ lease = "initializing"
    /\ lease' = "ready"
    /\ vm' = "importing"
    /\ UNCHANGED <<job, connected, timer, props, worker, stranded>>

LeaseErrors ==
    /\ lease \in {"initializing", "ready"}
    /\ lease' = "error"
    /\ vm' = "none"
    /\ UNCHANGED <<job, connected, timer, props, worker, stranded>>

LeaseExpires ==
    /\ lease = "ready"
    /\ timer = "off"
    /\ LeaseErrors

TaskEnds ==
    /\ job.state = "running"
    /\ \E state \in {"success", "error"} :
          /\ job' = [job EXCEPT !.state = state]
          /\ state = "success" => vm # "none" /\ (job.kind = "destroy" => vm = "off")
          /\ vm' = CASE state = "success" /\ job.kind = "poweron" -> "on"
                     [] state = "success" /\ job.kind = "poweroff" -> "off"
                     [] state = "success" /\ job.kind = "destroy" -> "none"
                     [] OTHER -> vm
    /\ UNCHANGED <<lease, connected, timer, props, worker, stranded>>

UserDestroys ==
    /\ vm \in {"off", "on"}
    /\ vm' = "none"
    /\ UNCHANGED <<lease, job, connected, timer, props, worker, stranded>>

ConnectionFlips ==
    /\ connected' = ~connected
    /\ UNCHANGED <<lease, vm, job, timer, props, worker, stranded>>

-----------------------------------------------------------------------------
(* The timer.  Any exception ends it without a word. *)

Tell ==
    /\ timer = "armed"
    /\ timer' = IF connected /\ lease = "ready" THEN "told" ELSE "off"
    /\ UNCHANGED <<lease, vm, job, connected, props, worker, stranded>>

Rearm ==
    /\ timer = "told"
    /\ timer' = IF connected /\ lease \notin {"done", "error"} THEN "armed" ELSE "off"
    /\ UNCHANGED <<lease, vm, job, connected, props, worker, stranded>>

-----------------------------------------------------------------------------
(* Attempts *)

GoesOn(place) == worker' = [worker EXCEPT !.at = place]

\* The attempt ends: Cloudify stores the runtime properties it has set.
Stored == [props EXCEPT !.id = props.id \/ worker.found]

Raises ==
    /\ worker' = At(worker.op, "raised", "none")
    /\ props' = Stored
    /\ UNCHANGED <<lease, vm, job, connected, timer, stranded>>

Fails ==
    /\ worker' = At(worker.op, "idle", "failed")
    /\ props' = Stored
    /\ UNCHANGED <<lease, vm, job, connected, timer, stranded>>

\* The process of an attempt that ended stays as long as its timer does, or is ended.
ProcessGoes == timer' \in {timer, "off"}

FirstPlace(op) == IF op = "create" THEN "body" ELSE "deferred"

Begin ==
    /\ worker.at = "idle"
    /\ \E op \in {"create", "delete"} :
          /\ op = "create" <=> worker.op = "delete" /\ worker.outcome = "ok"
          /\ worker' = At(op, FirstPlace(op), "none")
    /\ ProcessGoes
    /\ UNCHANGED <<lease, vm, job, connected, props, stranded>>

Again ==
    /\ worker.at = "raised"
    /\ worker' = At(worker.op, FirstPlace(worker.op), "none")
    /\ ProcessGoes
    /\ UNCHANGED <<lease, vm, job, connected, props, stranded>>

GivesUp ==
    /\ worker.at = "raised"
    /\ Fails

\* The worker process ends, its threads with it; the operation is resumed.
Crash ==
    /\ worker.at \notin {"idle", "raised"}
    /\ worker' = At(worker.op, "raised", "none")
    /\ timer' = "off"
    /\ UNCHANGED <<lease, vm, job, connected, props, stranded>>

\* A call to vCenter raises.  (In the upload, that is a reason to abort.)
CallRaises ==
    /\ ~connected
    /\ worker.at \notin {"idle", "raised", "save", "upload", "complete", "abort"}
    /\ Raises

-----------------------------------------------------------------------------
(* create *)

\* Wrong names, an unreadable package, errors of the import spec.
InputsRefused ==
    /\ worker.at = "body"
    /\ Fails

NameRefused ==
    /\ worker.at = "body"
    /\ vm # "none" \/ lease \in {"initializing", "ready"}
    /\ Raises

\* (A timer that is left looks at a lease of its own, which has ended.)
ImportVApp ==
    /\ worker.at = "body"
    /\ connected
    /\ vm = "none"
    /\ lease \notin {"initializing", "ready"}
    /\ lease' = "initializing"
    /\ timer' = "off"
    /\ GoesOn("lease")
    /\ UNCHANGED <<vm, job, connected, props, stranded>>

LeaseRefused ==
    /\ worker.at = "lease"
    /\ connected
    /\ lease \in {"error", "done"}
    /\ Fails

StartTimer ==
    /\ worker.at = "lease"
    /\ connected
    /\ lease = "ready"
    /\ timer' = "armed"
    /\ worker' = [worker EXCEPT !.at = "upload", !.left = Disks]
    /\ UNCHANGED <<lease, vm, job, connected, props, stranded>>

\* Mutant: one disk more than there are.
UploadBeyond ==
    /\ worker.at = "upload"
    /\ worker' = [worker EXCEPT !.left = @ - 1]
    /\ UNCHANGED <<lease, vm, job, connected, timer, props, stranded>>

Upload ==
    /\ worker.at = "upload"
    /\ worker.left > 0
    /\ connected
    /\ worker' = [worker EXCEPT !.left = @ - 1]
    /\ UNCHANGED <<lease, vm, job, connected, timer, props, stranded>>

UploadEnds ==
    /\ worker.at = "upload"
    /\ worker.left = 0
    /\ GoesOn("complete")
    /\ UNCHANGED <<lease, vm, job, connected, timer, props, stranded>>

\* Mutant: the error leaves create, the lease is not aborted.
UploadRaises ==
    /\ worker.at \in {"upload", "complete"}
    /\ Fails

\* No URL for the disk, the host refuses it, Complete raises...
UploadFails ==
    /\ worker.at \in {"upload", "complete"}
    /\ GoesOn("abort")
    /\ UNCHANGED <<lease, vm, job, connected, timer, props, stranded>>

Complete ==
    /\ worker.at = "complete"
    /\ connected
    /\ lease = "ready"
    /\ lease' = "done"
    /\ vm' = "off"
    /\ GoesOn("find")
    /\ UNCHANGED <<job, connected, timer, props, stranded>>

Abort ==
    /\ worker.at = "abort"
    /\ connected
    /\ lease = "ready"
    /\ lease' = "error"
    /\ vm' = "none"
    /\ worker' = At("create", "idle", "failed")
    /\ UNCHANGED <<job, connected, timer, props, stranded>>

\* Abort raises itself.
AbortRaises ==
    /\ worker.at = "abort"
    /\ ~connected \/ lease # "ready"
    /\ worker' = At("create", "raised", "none")
    /\ stranded' = (stranded \/ (lease = "ready" /\ timer # "off"))
    /\ UNCHANGED <<lease, vm, job, connected, timer, props>>

Find ==
    /\ worker.at = "find"
    /\ connected
    /\ vm # "none"
    /\ worker' = [worker EXCEPT !.at = "reconfigure", !.found = TRUE]
    /\ UNCHANGED <<lease, vm, job, connected, timer, props, stranded>>

\* The machine is gone: there is nothing to reconfigure, start, stop or destroy.
MachineGone ==
    /\ worker.at \in {"find", "reconfigure", "poweron", "poweroff", "destroy"}
    /\ connected
    /\ vm = "none"
    /\ Raises

-----------------------------------------------------------------------------
(* Tasks of the machine *)

Launch ==
    /\ worker.at \in {"reconfigure", "poweron", "poweroff", "destroy"}
    /\ connected
    /\ vm # "none"
    /\ worker.at = "poweron" => vm # "on"
    /\ job.state # "running"
    /\ job' = [kind |-> worker.at, state |-> "running"]
    /\ GoesOn("save")
    /\ UNCHANGED <<lease, vm, connected, timer, props, stranded>>

SaveTask ==
    /\ worker.at = "save"
    /\ props' = [Stored EXCEPT !.task = TRUE]
    /\ GoesOn("wait")
    /\ UNCHANGED <<lease, vm, job, connected, timer, stranded>>

TimesOut ==
    /\ worker.at \in Waits
    /\ props.task
    /\ job.state = "running"
    /\ Raises

Following ==
    CASE worker.at = "deferred" -> "look"
      [] job.kind = "reconfigure" -> "poweron"
      [] job.kind = "poweroff" -> "destroy"
      [] OTHER -> "idle"

\* The task succeeded, or is not in the list of recent tasks any more.
WaitEnds ==
    /\ worker.at \in Waits
    /\ connected
    /\ props.task
    /\ job.state = "success" \/ (worker.at = "deferred" /\ job.state = "error")
    /\ IF Following = "idle"
       THEN /\ worker' = At(worker.op, "idle", "ok")
            /\ props' = IF worker.op = "delete" THEN NoProps ELSE [Stored EXCEPT !.task = FALSE]
       ELSE /\ GoesOn(Following)
            /\ props' = [props EXCEPT !.task = FALSE]
    /\ UNCHANGED <<lease, vm, job, connected, timer, stranded>>

WaitFails ==
    /\ worker.at \in Waits
    /\ connected
    /\ props.task
    /\ job.state = "error"
    /\ worker' = At(worker.op, "idle", "failed")
    /\ props' = [Stored EXCEPT !.task = FALSE]
    /\ UNCHANGED <<lease, vm, job, connected, timer, stranded>>

\* start_server finds the machine running.
Running ==
    /\ worker.at = "poweron"
    /\ connected
    /\ vm = "on"
    /\ worker' = At("create", "idle", "ok")
    /\ props' = Stored
    /\ UNCHANGED <<lease, vm, job, connected, timer, stranded>>

-----------------------------------------------------------------------------
(* delete *)

NoDeferred ==
    /\ worker.at = "deferred"
    /\ ~props.task
    /\ GoesOn("look")
    /\ UNCHANGED <<lease, vm, job, connected, timer, props, stranded>>

\* KeyError without an id; no machine, AttributeError.
NotKnown ==
    /\ worker.at = "look"
    /\ ~props.id \/ vm = "none"
    /\ Raises

Look ==
    /\ worker.at = "look"
    /\ connected
    /\ props.id
    /\ vm # "none"
    /\ GoesOn(IF vm = "on" THEN "poweroff" ELSE "destroy")
    /\ UNCHANGED <<lease, vm, job, connected, timer, props, stranded>>

Create ==
    \/ InputsRefused \/ NameRefused \/ ImportVApp \/ LeaseRefused \/ StartTimer
    \/ Upload \/ UploadEnds \/ UploadFails \/ Complete \/ Abort \/ AbortRaises
    \/ Find \/ Running

Delete == NoDeferred \/ NotKnown \/ Look

Worker ==
    \/ Create \/ Delete \/ CallRaises \/ MachineGone
    \/ Launch \/ SaveTask \/ TimesOut \/ WaitEnds \/ WaitFails

Timer == Tell \/ Rearm

OvfNext ==
    \/ Worker \/ Timer \/ Begin \/ Again \/ GivesUp \/ Crash
    \/ LeaseReady \/ LeaseErrors \/ LeaseExpires \/ TaskEnds
    \/ UserDestroys \/ ConnectionFlips

\* The worker goes on while its process lives, an armed timer fires, and vSphere
\* ends a lease nobody keeps.
Fairness == WF_ovfVars(Worker) /\ WF_ovfVars(Timer) /\ WF_ovfVars(LeaseExpires)

OvfSpec == OvfInit /\ [][OvfNext]_ovfVars /\ Fairness

-----------------------------------------------------------------------------
(* Correctness *)

\* The variables stay within their types.
OvfTypeOK ==
    /\ lease \in {"none", "initializing", "ready", "done", "error"}
    /\ vm \in {"none", "importing", "off", "on"}
    /\ job \in [kind : {"reconfigure", "poweron", "poweroff", "destroy"},
               state : {"running", "success", "error"}]
    /\ connected \in BOOLEAN
    /\ timer \in {"off", "armed", "told"}
    /\ props \in [id : BOOLEAN, task : BOOLEAN]
    /\ worker \in [op : {"create", "delete"}, at : OvfPlace, left : 0 .. Disks,
                found : BOOLEAN, outcome : {"none", "ok", "failed"}]
    /\ stranded \in BOOLEAN

\* No half-imported machine is kept by its lease for ever: the upload completes it,
\* or aborts it whatever went wrong, and when the worker is gone, so is the timer
\* that kept it.  (Not if the very Abort does not reach vSphere: the timer, once
\* there is a connection again, goes on without end.)
LeaseEnds == lease = "ready" ~> (lease # "ready" \/ stranded)

=============================================================================
