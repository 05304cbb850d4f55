----------------------------- MODULE StorageDisks -----------------------------
(***************************************************************************)
(* Several cloudify.nodes.vsphere.Storage instances that add disks to one  *)
(* server and remove them again, at the same time.                         *)
(*                                                                         *)
(* To add a disk an instance reads the devices of the server, derives a    *)
(* file name and a unit number, starts a Reconfigure task, stores the file *)
(* name ("vm_disk_name"), and waits for the task as TaskWait says; here    *)
(* the wait is cut down to what instances can see of each other.  A        *)
(* retried create that finds the stored name only looks for that disk.     *)
(*                                                                         *)
(* File number n is <base>_n.vmdk.  The disk of the template, which has no *)
(* number, is the first device of the one SCSI controller.  The server is  *)
(* there and not suspended.                                                *)
(***************************************************************************)
EXTENDS Naturals, FiniteSets, FiniteSetsExt

CONSTANTS
    Storage,    \* the instances
    Nobody,     \* made no disk
    Reserved,   \* unit number of the controller itself: 7
    LastUnit,   \* highest unit number, and number of disks, of a controller: 15
    MaxFile,    \* bound on file numbers
    MaxFaults   \* bound on crashes

ASSUME StorageDisksAssumption ==
    /\ Nobody \notin Storage
    /\ LastUnit \in Nat
    /\ Reserved \in 1 .. LastUnit
    /\ MaxFile \in Nat
    /\ MaxFaults \in Nat

VARIABLES
    disk,       \* the numbered disks of the server: who made them, their unit
    work,       \* what each worker does
    props,      \* stored runtime properties of each instance
    job,        \* the Reconfigure task of each instance
    lost,       \* running tasks whose id a crash lost
    excused,    \* history: instances that may have made a disk they do not know
    doubtful,   \* history: a stored name may mean the disk of another instance
    faults      \* number of crashes

vars == <<disk, work, props, job, lost, excused, doubtful, faults>>

File == 1 .. MaxFile
NoFile == 0
MaybeFile == File \union {NoFile}
Unit == 0 .. LastUnit

Free == [by |-> Nobody, unit |-> 0]

\* What a worker is about to ask for: a disk to add, or the one to remove.
Plan == [kind : {"none", "add", "remove"}, file : MaybeFile, unit : Unit,
         by : Storage \union {Nobody}]
NoPlan == [kind |-> "none", file |-> NoFile, unit |-> 0, by |-> Nobody]

JobState == {"none", "running", "success", "clash", "error"}

\* "ready": devices read.  "note": task started, vm_disk_name not stored.
\* "save": task id not stored.  "forget": task ended well.  "find": looking for
\* the disk by its name.  "stored": the disk is stored, create not returned.
Place == {"idle", "dispatch", "deferred", "body", "ready", "note", "save", "poll",
          "forget", "find", "stored"}

\* pending: vm_disk_name.  file: VSPHERE_STORAGE_FILE_NAME (stored together with
\* the id of the server).  task: a task id is saved.
NoProps == [pending |-> NoFile, file |-> NoFile, task |-> FALSE]

NoJob == [plan |-> NoPlan, state |-> "none"]

Init ==
    /\ disk = [f \in File |-> Free]
    /\ work = [s \in Storage |->
          [op |-> "delete", at |-> "idle", outcome |-> "ok", plan |-> NoPlan]]
    /\ props = [s \in Storage |-> NoProps]
    /\ job = [s \in Storage |-> NoJob]
    /\ lost = {}
    /\ excused = {}
    /\ doubtful = FALSE
    /\ faults = 0

Taken == {f \in File : disk[f].by # Nobody}

-----------------------------------------------------------------------------
(* vSphere *)

\* What becomes of a task: no two disks have one file name or one unit.
Results(p) ==
    CASE p.kind = "remove" -> IF disk[p.file].by = p.by THEN {"success", "error"}
                              ELSE {"error"}
      [] p.file \in Taken -> {"clash"}
      [] p.unit \in {disk[f].unit : f \in Taken} -> {"error"}
      [] OTHER -> {"success", "error"}

Reconfigured(p, result) ==
    IF result # "success" THEN disk
    ELSE [disk EXCEPT ![p.file] =
             IF p.kind = "remove" THEN Free ELSE [by |-> p.by, unit |-> p.unit]]

Spoils(p, result) ==
    IF p.kind = "add" /\ result # "success" THEN {p.by} ELSE {}

TaskEnds(s) ==
    /\ job[s].state = "running"
    /\ \E result \in Results(job[s].plan) :
          /\ disk' = Reconfigured(job[s].plan, result)
          /\ job' = [job EXCEPT ![s].state = result]
          /\ excused' = excused \union Spoils(job[s].plan, result)
          /\ doubtful' = (doubtful \/ Spoils(job[s].plan, result) # {})
    /\ UNCHANGED <<work, props, lost, faults>>

LostTaskEnds ==
    /\ \E p \in lost : \E result \in Results(p) :
          /\ disk' = Reconfigured(p, result)
          /\ lost' = lost \ {p}
          /\ excused' = excused \union Spoils(p, result)
          /\ doubtful' = (doubtful \/ Spoils(p, result) # {})
    /\ UNCHANGED <<work, props, job, faults>>

-----------------------------------------------------------------------------
(* The wrapper of an operation, and the wait *)

\* An operation runs on from this place.
Goes(s, place) == work' = [work EXCEPT ![s].at = place]

Ends(s, outcome) ==
    work' = [work EXCEPT ![s].at = "idle", ![s].outcome = outcome, ![s].plan = NoPlan]

\* OperationRetry: another attempt, unless it was the last.
Retries(s) ==
    /\ work' \in {[work EXCEPT ![s].at = "dispatch", ![s].plan = NoPlan],
                  [work EXCEPT ![s].at = "idle", ![s].plan = NoPlan,
                               ![s].outcome = "failed"]}
    /\ excused' = IF work'[s].at = "idle" /\ work[s].op = "create"
                  THEN excused \union {s} ELSE excused

\* After a delete that works the wrapper empties the runtime properties.
Deleted(s) ==
    /\ Ends(s, "ok")
    /\ props' = [props EXCEPT ![s] = NoProps]

\* install runs create, once more if it failed; uninstall runs delete, until it
\* works.
MayBegin(s, name) ==
    \/ /\ name = "create"
       /\ work[s].op = "delete" <=> work[s].outcome = "ok"
    \/ /\ name = "delete"
       /\ work[s].op = "create" \/ work[s].outcome = "failed"

Begin(s) ==
    /\ work[s].at = "idle"
    /\ \E name \in {"create", "delete"} :
          /\ MayBegin(s, name)
          /\ work' = [work EXCEPT ![s] =
                [op |-> name, at |-> "dispatch", outcome |-> "none", plan |-> NoPlan]]
    /\ UNCHANGED <<disk, props, job, lost, excused, doubtful, faults>>

\* run_deferred_task waits for the task an earlier attempt left.
Dispatch(s) ==
    /\ work[s].at = "dispatch"
    /\ Goes(s, IF props[s].task THEN "deferred" ELSE "body")
    /\ UNCHANGED <<disk, props, job, lost, excused, doubtful, faults>>

WaitTimesOut(s) ==
    /\ work[s].at \in {"deferred", "poll"}
    /\ job[s].state = "running"
    /\ Retries(s)
    /\ doubtful' = (doubtful \/ job[s].plan.kind = "remove")
    /\ UNCHANGED <<disk, props, job, lost, faults>>

ForgetsTask(s) ==
    /\ job[s].state \notin {"none", "running"}
    /\ props' = [props EXCEPT ![s].task = FALSE]
    /\ job' = [job EXCEPT ![s] = NoJob]
    /\ UNCHANGED <<disk, lost, doubtful, faults>>

\* The deferred task succeeded, or is no longer listed: the body goes on.
DeferredReturns(s) ==
    /\ work[s].at = "deferred"
    /\ ForgetsTask(s)
    /\ Goes(s, "body")
    /\ UNCHANGED excused

DeferredFails(s) ==
    /\ work[s].at = "deferred"
    /\ job[s].state \in {"clash", "error"}
    /\ ForgetsTask(s)
    /\ Ends(s, "failed")
    /\ UNCHANGED excused

-----------------------------------------------------------------------------
(* create and delete *)

\* Already created: nothing to do.
SkipCreate(s) ==
    /\ work[s].at = "body"
    /\ work[s].op = "create"
    /\ props[s].file # NoFile
    /\ Ends(s, "ok")
    /\ UNCHANGED <<disk, props, job, lost, excused, doubtful, faults>>

\* create_storage with a stored vm_disk_name.
PickUp(s) ==
    /\ work[s].at = "body"
    /\ work[s].op = "create"
    /\ props[s].file = NoFile
    /\ props[s].pending # NoFile
    /\ work' = [work EXCEPT ![s].at = "forget", ![s].plan.file = props[s].pending]
    /\ UNCHANGED <<disk, props, job, lost, excused, doubtful, faults>>

Devices == Cardinality(Taken) + 1

\* Mutant: the unit of the controller is not left out.
NextUnitReserved == Devices

\* The next unit number, without the controller's.
NextUnit == IF Devices < Reserved THEN Devices ELSE Devices + 1

\* create_storage: the next name, and a unit of the only controller.
LookToAdd(s) ==
    /\ work[s].at = "body"
    /\ work[s].op = "create"
    /\ props[s].file = NoFile
    /\ props[s].pending = NoFile
    /\ Devices # LastUnit
    /\ Max(Taken \union {0}) < MaxFile
    /\ work' = [work EXCEPT
          ![s].at = "ready",
          ![s].plan = [kind |-> "add", file |-> Max(Taken \union {0}) + 1,
                       unit |-> NextUnit, by |-> s]]
    /\ UNCHANGED <<disk, props, job, lost, excused, doubtful, faults>>

\* One SCSI controller cannot have more disks.
ControllerFull(s) ==
    /\ work[s].at = "body"
    /\ work[s].op = "create"
    /\ props[s].file = NoFile
    /\ props[s].pending = NoFile
    /\ Devices = LastUnit
    /\ Ends(s, "failed")
    /\ UNCHANGED <<disk, props, job, lost, excused, doubtful, faults>>

\* "Storage deletion not needed due to not being fully initialized."
SkipDelete(s) ==
    /\ work[s].at = "body"
    /\ work[s].op = "delete"
    /\ props[s].file = NoFile
    /\ Deleted(s)
    /\ UNCHANGED <<disk, job, lost, excused, doubtful, faults>>

\* "Storage removed on previous step."
AlreadyRemoved(s) ==
    /\ work[s].at = "body"
    /\ work[s].op = "delete"
    /\ props[s].file # NoFile
    /\ props[s].file \notin Taken
    /\ Deleted(s)
    /\ UNCHANGED <<disk, job, lost, excused, doubtful, faults>>

\* Mutant: the last disk is taken, whatever its name.
LookToRemoveLast(s) ==
    /\ work[s].at = "body"
    /\ work[s].op = "delete"
    /\ props[s].file \in Taken
    /\ LET f == Max(Taken) IN
       work' = [work EXCEPT
          ![s].at = "ready",
          ![s].plan = [kind |-> "remove", file |-> f, unit |-> disk[f].unit,
                       by |-> disk[f].by]]
    /\ UNCHANGED <<disk, props, job, lost, excused, doubtful, faults>>

\* delete_storage looks the disk up by its file name.
LookToRemove(s) ==
    /\ work[s].at = "body"
    /\ work[s].op = "delete"
    /\ props[s].file \in Taken
    /\ LET f == props[s].file IN
       work' = [work EXCEPT
          ![s].at = "ready",
          ![s].plan = [kind |-> "remove", file |-> f, unit |-> disk[f].unit,
                       by |-> disk[f].by]]
    /\ UNCHANGED <<disk, props, job, lost, excused, doubtful, faults>>

Reconfigure(s) ==
    /\ work[s].at = "ready"
    /\ job' = [job EXCEPT ![s] = [plan |-> work[s].plan, state |-> "running"]]
    /\ Goes(s, IF work[s].op = "create" THEN "note" ELSE "save")
    /\ UNCHANGED <<disk, props, lost, excused, doubtful, faults>>

\* Mutant: the name is not stored.
NoteNameNot(s) ==
    /\ work[s].at = "note"
    /\ Goes(s, "save")
    /\ UNCHANGED <<disk, props, job, lost, excused, doubtful, faults>>

\* vm_disk_name is stored before the wait begins.
NoteName(s) ==
    /\ work[s].at = "note"
    /\ props' = [props EXCEPT ![s].pending = work[s].plan.file]
    /\ Goes(s, "save")
    /\ UNCHANGED <<disk, job, lost, excused, doubtful, faults>>

SaveTask(s) ==
    /\ work[s].at = "save"
    /\ props' = [props EXCEPT ![s].task = TRUE]
    /\ Goes(s, "poll")
    /\ UNCHANGED <<disk, job, lost, excused, doubtful, faults>>

AddReturns(s) ==
    /\ work[s].at = "poll"
    /\ job[s].state = "success"
    /\ work[s].op = "create"
    /\ ForgetsTask(s)
    /\ Goes(s, "forget")
    /\ UNCHANGED excused

RemoveReturns(s) ==
    /\ work[s].at = "poll"
    /\ job[s].state = "success"
    /\ work[s].op = "delete"
    /\ job' = [job EXCEPT ![s] = NoJob]
    /\ Deleted(s)
    /\ UNCHANGED <<disk, lost, excused, doubtful, faults>>

\* Any error but a name clash fails the operation.
WaitFails(s) ==
    /\ work[s].at = "poll"
    /\ job[s].state = "error"
    /\ ForgetsTask(s)
    /\ Ends(s, "failed")
    /\ UNCHANGED excused

\* FileAlreadyExists: "the loser will retry".
NameClash(s) ==
    /\ work[s].at = "poll"
    /\ job[s].state = "clash"
    /\ ForgetsTask(s)
    /\ Retries(s)

ForgetName(s) ==
    /\ work[s].at = "forget"
    /\ props' = [props EXCEPT ![s].pending = NoFile]
    /\ Goes(s, "find")
    /\ UNCHANGED <<disk, job, lost, excused, doubtful, faults>>

\* The disk is found by its name, and the name is stored for good.
Finish(s) ==
    /\ work[s].at = "find"
    /\ work[s].plan.file \in Taken
    /\ props' = [props EXCEPT ![s].file = work[s].plan.file]
    /\ work' = [work EXCEPT ![s].at = "stored", ![s].plan = NoPlan]
    /\ UNCHANGED <<disk, job, lost, excused, doubtful, faults>>

CreateReturns(s) ==
    /\ work[s].at = "stored"
    /\ Ends(s, "ok")
    /\ UNCHANGED <<disk, props, job, lost, excused, doubtful, faults>>

\* "Could not find SCSI bus ID for disk": its task has not ended, or failed.
NotFound(s) ==
    /\ work[s].at = "find"
    /\ work[s].plan.file \notin Taken
    /\ Ends(s, "failed")
    /\ excused' = excused \union {s}
    /\ UNCHANGED <<disk, props, job, lost, doubtful, faults>>

-----------------------------------------------------------------------------
(* The whole *)

\* The worker dies (or loses its connection); the operation is run again.
Crash(s) ==
    /\ work[s].at \notin {"idle", "dispatch"}
    /\ faults < MaxFaults
    /\ faults' = faults + 1
    /\ work' = [work EXCEPT ![s].at = "dispatch", ![s].plan = NoPlan]
    /\ LET unsaved == {p \in {job[s].plan} : work[s].at \in {"note", "save"}}
           alive == {p \in unsaved : job[s].state = "running"}
       IN /\ lost' = lost \union alive
          /\ job' = IF unsaved = {} THEN job ELSE [job EXCEPT ![s] = NoJob]
          /\ excused' = IF \/ alive # {} /\ work[s].op = "create"
                           \/ work[s].at \in {"note", "find"}
                        THEN excused \union {s} ELSE excused
          /\ doubtful' = (doubtful \/ alive # {} \/ job[s].plan.kind = "remove")
    /\ UNCHANGED <<disk, props>>

Create(s) ==
    \/ SkipCreate(s)
    \/ PickUp(s)
    \/ LookToAdd(s)
    \/ ControllerFull(s)
    \/ NoteName(s)
    \/ AddReturns(s)
    \/ NameClash(s)
    \/ ForgetName(s)
    \/ Finish(s)
    \/ CreateReturns(s)
    \/ NotFound(s)

Delete(s) ==
    \/ SkipDelete(s)
    \/ AlreadyRemoved(s)
    \/ LookToRemove(s)
    \/ RemoveReturns(s)

Wrapper(s) ==
    \/ Dispatch(s)
    \/ WaitTimesOut(s)
    \/ DeferredReturns(s)
    \/ DeferredFails(s)
    \/ Reconfigure(s)
    \/ SaveTask(s)
    \/ WaitFails(s)

Next ==
    \/ \E s \in Storage :
          \/ Begin(s)
          \/ Wrapper(s)
          \/ Create(s)
          \/ Delete(s)
          \/ TaskEnds(s)
          \/ Crash(s)
    \/ LostTaskEnds

Spec == Init /\ [][Next]_vars

-----------------------------------------------------------------------------
(* Properties *)

\* Every variable has its type; no disk gets the unit of the controller or one
\* beyond the last, however full the controller is.
TypeOK ==
    /\ disk \in [File -> [by : Storage \union {Nobody}, unit : Unit]]
    /\ props \in [Storage -> [pending : MaybeFile, file : MaybeFile, task : BOOLEAN]]
    /\ \A s \in Storage :
          /\ work[s].at \in Place
          /\ work[s].plan \in Plan
          /\ job[s].state \in JobState
          /\ work[s].plan.kind = "add" => work[s].plan.unit # Reserved
    /\ excused \subseteq Storage

Idle(s, name) == work[s].at = "idle" /\ work[s].op = name /\ work[s].outcome = "ok"

\* Two storages of one server never get hold of each other's disks, in spite of
\* timeouts, retries and crashes of both: a storage that is created has a disk of
\* its own, as long as no adding task failed or was lost (see OneOwner) and no
\* delete is tried again after it started to remove: the disk it then finds by
\* the same name may be a new one.
OwnDisk ==
    ~doubtful =>
        \A s \in Storage : Idle(s, "create") => disk[props[s].file].by = s

\* After delete no disk of the storage is left, through timeouts, retries and
\* crashes of its create, as long as one of the two names was stored when it
\* broke off, it did not run out of retries and none of its tasks failed or was
\* lost.
NoDiskLeft ==
    \A s \in Storage \ excused :
        Idle(s, "delete") => \A f \in Taken : disk[f].by # s

\* "If that happens the loser will retry" (vsphere_storage_plugin/storage.py),
\* for a disk of its own: no two storages hold one file.
OneOwner ==
    \A s, u \in Storage :
        Idle(s, "create") /\ Idle(u, "create") /\ s # u => props[s].file # props[u].file

=============================================================================
