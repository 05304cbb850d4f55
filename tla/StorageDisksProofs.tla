-------------------------- MODULE StorageDisksProofs --------------------------
(***************************************************************************)
(* Theorems about StorageDisks, for any storages, controllers and numbers  *)
(* of files and of crashes.                                                *)
(*                                                                         *)
(* The invariant has four parts.  Units: the disks of the controller are   *)
(* at distinct units, none of them the controller's own, which bounds      *)
(* their number.  Stage: how a worker's place, the stored names and the    *)
(* task of an instance fit together.  Owned: as long as no history is      *)
(* doubtful, a stored name means a disk of the instance, or one that its   *)
(* task is about to make or has removed.  Tracked: an instance that is not *)
(* excused knows each disk it made.                                        *)
(***************************************************************************)
EXTENDS StorageDisks, FiniteSetTheorems, WellFoundedInduction, TLAPS

Worker == [op : {"create", "delete"}, at : Place, outcome : {"none", "ok", "failed"},
           plan : Plan]
Properties == [pending : MaybeFile, file : MaybeFile, task : BOOLEAN]
Job == [plan : Plan, state : JobState]

Types ==
    /\ disk \in [File -> [by : Storage \union {Nobody}, unit : Unit]]
    /\ work \in [Storage -> Worker]
    /\ props \in [Storage -> Properties]
    /\ job \in [Storage -> Job]
    /\ lost \in SUBSET Plan
    /\ excused \in SUBSET Storage
    /\ doubtful \in BOOLEAN

-----------------------------------------------------------------------------
(* Units *)

\* Units a disk may get.
Usable == (1 .. LastUnit) \ {Reserved}

\* What a worker asks for is something vSphere can do.
Sound(p) ==
    /\ p.kind # "none" => p.file \in File
    /\ p.kind = "add" => p.unit \in Usable

\* Disks have units of their own, and every task asks for one of those units.
Units ==
    /\ \A f \in Taken : disk[f].unit \in Usable
    /\ \A f, g \in Taken : disk[f].unit = disk[g].unit => f = g
    /\ \A s \in Storage : Sound(work[s].plan) /\ Sound(job[s].plan)
    /\ \A p \in lost : Sound(p) /\ p.kind # "none"

-----------------------------------------------------------------------------
(* Places *)

\* Which plan a worker has, and which task its instance.
Planned(s) ==
    /\ work[s].at \in {"idle", "dispatch", "deferred", "body", "stored"} =>
          work[s].plan = NoPlan
    /\ work[s].at \in {"ready", "note", "save", "poll"} =>
          work[s].plan.kind = IF work[s].op = "create" THEN "add" ELSE "remove"
    /\ work[s].plan.kind = "add" => work[s].plan.by = s
    /\ work[s].at \in {"note", "forget", "find", "stored"} => work[s].op = "create"
    /\ work[s].at \in {"note", "save", "poll"} => job[s].plan = work[s].plan
    /\ job[s].state = "none" => job[s] = NoJob
    /\ job[s].state # "none" => job[s].plan.kind # "none"
    /\ job[s].plan.kind = "add" => job[s].plan.by = s
    /\ job[s].plan.kind = "remove" =>
          work[s].op = "delete" /\ job[s].plan.file = props[s].file

\* When the id of a task is stored.
Filed(s) ==
    /\ job[s].state # "none" <=> props[s].task \/ work[s].at \in {"note", "save"}
    /\ work[s].at \in {"deferred", "poll"} => props[s].task
    /\ work[s].at \notin {"idle", "dispatch", "deferred", "poll"} => ~props[s].task
    /\ work[s].at = "idle" /\ work[s].outcome = "ok" => ~props[s].task

\* When the name of a disk is stored, and where.
Named(s) ==
    /\ props[s].file = NoFile \/ props[s].pending = NoFile
    /\ work[s].at = "stored" \/ Idle(s, "create") => props[s].file # NoFile
    /\ work[s].op = "create" /\ work[s].at \in {"ready", "note", "find"} =>
          props[s].file = NoFile /\ props[s].pending = NoFile
    /\ work[s].op = "create" /\ work[s].at \in {"save", "poll", "forget"} =>
          props[s].file = NoFile /\ props[s].pending = work[s].plan.file
    /\ work[s].op = "delete" /\ work[s].at = "ready" => work[s].plan.file = props[s].file
    /\ work[s].at \in {"forget", "find"} => work[s].plan.file \in File

Stage == \A s \in Storage : Planned(s) /\ Filed(s) /\ Named(s)

-----------------------------------------------------------------------------
(* Disks *)

\* Instance s made file f.
Made(s, f) == disk[f].by = s

\* The names of an instance mean its own disks.
Owns(s) ==
    /\ props[s].file # NoFile =>
          Made(s, props[s].file) \/ (job[s].plan.kind = "remove" /\ job[s].state = "success")
    /\ props[s].pending # NoFile =>
          \/ Made(s, props[s].pending)
          \/ job[s].plan.kind = "add" /\ job[s].plan.file = props[s].pending
    /\ job[s].plan.kind = "add" =>
          job[s].state = "running" \/ (job[s].state = "success" /\ Made(s, job[s].plan.file))
    /\ work[s].at \in {"forget", "find"} => Made(s, work[s].plan.file)
    /\ work[s].plan.kind = "remove" => work[s].plan.by = s
    /\ job[s].plan.kind = "remove" => job[s].plan.by = s /\ work[s].at \in {"save", "poll"}

Owned == ~doubtful => lost = {} /\ \A s \in Storage : Owns(s)

\* Instance s has the name of file f, in its properties or in its worker's memory.
Knows(s, f) ==
    \/ f \in {props[s].file, props[s].pending}
    \/ work[s].at \in {"note", "find"} /\ f = work[s].plan.file

\* An instance knows each disk it made, and deletes only what it has stored for good.
Tracks(s) ==
    /\ \A f \in File : Made(s, f) => Knows(s, f)
    /\ job[s].plan.kind = "add" =>
          /\ work[s].op = "create" /\ work[s].at # "idle"
          /\ Knows(s, job[s].plan.file)
          /\ job[s].state \in {"running", "success"}
    /\ job[s].plan.kind = "remove" /\ job[s].state = "success" => ~Made(s, job[s].plan.file)
    /\ work[s].op = "delete" \/ work[s].at = "idle" => props[s].pending = NoFile
    /\ Idle(s, "delete") => props[s].file = NoFile

Tracked ==
    /\ \A s \in Storage \ excused : Tracks(s)
    /\ \A p \in lost : p.kind = "add" => p.by \in excused

IInv == Types /\ Units /\ Stage /\ Owned /\ Tracked

-----------------------------------------------------------------------------

USE StorageDisksAssumption

\* A set of numbers that is not empty and has a bound has a greatest element, and Max
\* chooses it.
LEMMA MaxIsGreatest ==
    ASSUME NEW n \in Nat, NEW T \in SUBSET (0 .. n), T # {}
    PROVE  Max(T) \in T /\ \A y \in T : Max(T) >= y
<1> DEFINE Above(x) == {y \in T : y > x}
           Sets == {Above(x) : x \in T}
<1>1. Sets \subseteq FiniteSubsetsOf(T) /\ Sets # {}
  <2> HIDE DEF Above, Sets
  <2>0. IsFiniteSet(0 .. n)
    BY FS_Interval
  <2>1. IsFiniteSet(T)
    BY <2>0, FS_Subset
  <2>2. \A x \in T : IsFiniteSet(Above(x)) /\ Above(x) \in SUBSET T
    BY <2>1, FS_Subset DEF Above
  <2> QED
    BY <2>2 DEF FiniteSubsetsOf, Sets
<1>2. PICK A \in Sets : \A B \in Sets : ~(<<B, A>> \in StrictSubsetOrdering(T))
  BY <1>1, FS_StrictSubsetOrderingWellFounded, WFMin
<1>3. PICK x \in T : A = Above(x)
  OBVIOUS
<1>4. \A y \in T : x >= y
  <2> SUFFICES ASSUME NEW y \in T, y > x
               PROVE  FALSE
    <3>1. \A y \in T : x >= y \/ y > x
      OBVIOUS
    <3> QED
      BY <3>1
  <2>1. Above(y) \subseteq A /\ y \in A \ Above(y)
    <3>1. \A z \in T : (z > y => z > x) /\ ~(y > y)
      OBVIOUS
    <3> QED
      BY <3>1, <1>3
  <2>2. <<Above(y), A>> \in StrictSubsetOrdering(T)
    <3>1. Above(y) \in SUBSET T /\ A \in SUBSET T /\ Above(y) # A
      BY <2>1, <1>3
    <3> HIDE DEF Above
    <3> QED
      BY <2>1, <3>1 DEF StrictSubsetOrdering
  <2> QED
    BY <1>2, <2>2
<1> QED
  BY <1>4 DEF Max

\* There are fewer disks than units, so that Devices is at most LastUnit.
LEMMA DevicesBounded ==
    ASSUME Types, Units
    PROVE  Devices \in 1 .. LastUnit
<1> DEFINE unit == [f \in Taken |-> disk[f].unit]
<1>1. IsFiniteSet(Usable) /\ Cardinality(Usable) = LastUnit - 1
  <2>1. IsFiniteSet(1 .. LastUnit) /\ Cardinality(1 .. LastUnit) = LastUnit
    BY FS_Interval
  <2> QED
    BY <2>1, FS_RemoveElement DEF Usable
<1>2. unit \in Injection(Taken, Usable)
  BY DEF Units, Injection, IsInjective
<1>3. IsFiniteSet(Taken) /\ Cardinality(Taken) <= LastUnit - 1
  BY <1>1, <1>2, FS_Injection
<1>4. Cardinality(Taken) \in Nat
  BY <1>3, FS_CardinalityType
<1> QED
  BY <1>3, <1>4 DEF Devices

\* Unless the controller is full, the next unit is one a disk may get.
LEMMA NextUnitUsable ==
    ASSUME Types, Units, Devices # LastUnit
    PROVE  NextUnit \in Usable
BY DevicesBounded DEF NextUnit, Usable

\* The next file has a number of its own.
LEMMA NextFile ==
    ASSUME Types, Max(Taken \union {0}) < MaxFile
    PROVE  Max(Taken \union {0}) + 1 \in File \ Taken
<1> DEFINE T == Taken \union {0}
<1>1. T \in SUBSET (0 .. MaxFile) /\ T # {}
  BY DEF Taken, File
<1>2. Max(T) \in T /\ \A y \in T : Max(T) >= y
  BY <1>1, MaxIsGreatest
<1>3. Max(T) \in 0 .. MaxFile /\ Max(T) + 1 \notin T
  <2>1. \A m \in T : m \in 0 .. MaxFile
    BY <1>1
  <2> HIDE DEF T
  <2>2. Max(T) + 1 \in T => Max(T) >= Max(T) + 1
    BY <1>2
  <2>3. Max(T) \in 0 .. MaxFile
    BY <1>2, <2>1
  <2> QED
    BY <2>2, <2>3
<1> QED
  BY <1>3 DEF File

-----------------------------------------------------------------------------
(* Steps *)

\* The steps of the worker of s, and those of its task.
Step(s) == Begin(s) \/ Wrapper(s) \/ Create(s) \/ Delete(s) \/ TaskEnds(s) \/ Crash(s)

\* Every action of an instance leaves the others alone.
LEMMA OthersKept ==
    ASSUME Types, NEW s \in Storage, Step(s), NEW u \in Storage \ {s}
    PROVE  work'[u] = work[u] /\ props'[u] = props[u] /\ job'[u] = job[u]
<1> USE DEF Types, Goes, Ends, Retries, Deleted, ForgetsTask
<1>1. CASE Begin(s) \/ TaskEnds(s) \/ Crash(s)
  BY <1>1 DEF Begin, TaskEnds, Crash
<1>2. CASE Wrapper(s)
  BY <1>2 DEF Wrapper, Dispatch, WaitTimesOut, DeferredReturns, DeferredFails, Reconfigure,
     SaveTask, WaitFails
<1>3. CASE Create(s)
  BY <1>3 DEF Create, SkipCreate, PickUp, LookToAdd, ControllerFull, NoteName, AddReturns,
     NameClash, ForgetName, Finish, CreateReturns, NotFound
<1>4. CASE Delete(s)
  BY <1>4 DEF Delete, SkipDelete, AlreadyRemoved, LookToRemove, RemoveReturns
<1> QED
  BY <1>1, <1>2, <1>3, <1>4 DEF Step

\* A task ends in a state it may have, and leaves what is a disk or free.
LEMMA ReconfiguredType ==
    ASSUME Types, NEW p \in Plan, Sound(p), p.kind # "none", NEW result \in Results(p)
    PROVE  /\ result \in {"success", "clash", "error"}
           /\ Reconfigured(p, result) \in [File -> [by : Storage \union {Nobody}, unit : Unit]]
           /\ Spoils(p, result) \in SUBSET (Storage \union {Nobody})
<1>1. result \in {"success", "clash", "error"}
  <2>1. Results(p) \subseteq {"success", "clash", "error"}
    <3>1. CASE p.kind = "remove"
      BY <3>1 DEF Results
    <3>2. CASE p.kind # "remove" /\ p.file \in Taken
      BY <3>2 DEF Results
    <3>3. CASE p.kind # "remove" /\ p.file \notin Taken
      BY <3>3 DEF Results
    <3> QED
      BY <3>1, <3>2, <3>3
  <2> QED
    BY <2>1
<1>2. /\ Free \in [by : Storage \union {Nobody}, unit : Unit]
      /\ p.file \in File /\ [by |-> p.by, unit |-> p.unit] \in
            [by : Storage \union {Nobody}, unit : Unit]
  BY DEF Free, Unit, Plan, Sound
<1>3. Reconfigured(p, result) \in [File -> [by : Storage \union {Nobody}, unit : Unit]]
  BY <1>2 DEF Types, Reconfigured
<1> QED
  BY <1>1, <1>3 DEF Spoils, Plan

\* Workers, properties and tasks keep their types under the updates the actions make.
LEMMA Updates ==
    ASSUME Types, NEW s \in Storage
    PROVE  /\ \A at \in Place : [work EXCEPT ![s].at = at] \in [Storage -> Worker]
           /\ \A at \in Place, plan \in Plan :
                [work EXCEPT ![s].at = at, ![s].plan = plan] \in [Storage -> Worker]
           /\ \A at \in Place, file \in MaybeFile :
                [work EXCEPT ![s].at = at, ![s].plan.file = file] \in [Storage -> Worker]
           /\ \A outcome \in {"none", "ok", "failed"} :
                [work EXCEPT ![s].at = "idle", ![s].outcome = outcome, ![s].plan = NoPlan] \in
                   [Storage -> Worker]
           /\ [work EXCEPT ![s].at = "idle", ![s].plan = NoPlan, ![s].outcome = "failed"] \in
                 [Storage -> Worker]
           /\ \A filed \in BOOLEAN : [props EXCEPT ![s].task = filed] \in [Storage -> Properties]
           /\ \A file \in MaybeFile :
                /\ [props EXCEPT ![s].pending = file] \in [Storage -> Properties]
                /\ [props EXCEPT ![s].file = file] \in [Storage -> Properties]
<1>1. NoPlan \in Plan /\ "idle" \in Place
  BY DEF NoPlan, Plan, MaybeFile, Unit, Place
<1>2. /\ \A w \in Worker, at \in Place : [w EXCEPT !.at = at] \in Worker
      /\ \A w \in Worker, at \in Place, plan \in Plan :
            [w EXCEPT !.at = at, !.plan = plan] \in Worker
      /\ \A w \in Worker, at \in Place, file \in MaybeFile :
            [w EXCEPT !.at = at, !.plan.file = file] \in Worker
  BY DEF Worker, Plan
<1>3. \A w \in Worker, outcome \in {"none", "ok", "failed"} :
         /\ [w EXCEPT !.at = "idle", !.outcome = outcome, !.plan = NoPlan] \in Worker
         /\ [w EXCEPT !.at = "idle", !.plan = NoPlan, !.outcome = outcome] \in Worker
  BY <1>1 DEF Worker
<1>4. /\ \A p \in Properties, filed \in BOOLEAN : [p EXCEPT !.task = filed] \in Properties
      /\ \A p \in Properties, file \in MaybeFile :
            [p EXCEPT !.pending = file] \in Properties /\ [p EXCEPT !.file = file] \in Properties
  BY DEF Properties
<1>5. /\ \A at \in Place : [work EXCEPT ![s].at = at] \in [Storage -> Worker]
      /\ \A at \in Place, plan \in Plan :
            [work EXCEPT ![s].at = at, ![s].plan = plan] \in [Storage -> Worker]
      /\ \A at \in Place, file \in MaybeFile :
            [work EXCEPT ![s].at = at, ![s].plan.file = file] \in [Storage -> Worker]
  BY <1>2 DEF Types
<1>6. /\ \A outcome \in {"none", "ok", "failed"} :
            [work EXCEPT ![s].at = "idle", ![s].outcome = outcome, ![s].plan = NoPlan] \in
               [Storage -> Worker]
      /\ [work EXCEPT ![s].at = "idle", ![s].plan = NoPlan, ![s].outcome = "failed"] \in
            [Storage -> Worker]
  BY <1>3 DEF Types
<1>7. /\ \A filed \in BOOLEAN : [props EXCEPT ![s].task = filed] \in [Storage -> Properties]
      /\ \A file \in MaybeFile :
            /\ [props EXCEPT ![s].pending = file] \in [Storage -> Properties]
            /\ [props EXCEPT ![s].file = file] \in [Storage -> Properties]
  BY <1>4 DEF Types
<1> QED
  BY <1>5, <1>6, <1>7

LEMMA TypesStep ==
    ASSUME IInv, NEW s \in Storage, Step(s)
    PROVE  Types'
<1> DEFINE Disks == [File -> [by : Storage \union {Nobody}, unit : Unit]]
           Typed == /\ work' \in [Storage -> Worker] /\ props' \in [Storage -> Properties]
                    /\ job' \in [Storage -> Job] /\ disk' \in Disks
                    /\ lost' \in SUBSET Plan /\ excused' \in SUBSET Storage
                    /\ doubtful' \in BOOLEAN
<1>1. /\ NoPlan \in Plan /\ NoFile \in MaybeFile /\ File \subseteq MaybeFile
      /\ [props EXCEPT ![s] = NoProps] \in [Storage -> Properties]
      /\ [job EXCEPT ![s] = NoJob] \in [Storage -> Job]
  BY DEF IInv, Types, Plan, MaybeFile, Unit, JobState, NoPlan, NoJob, NoProps, Properties, Job
<1>2. /\ work \in [Storage -> Worker] /\ props \in [Storage -> Properties]
      /\ job \in [Storage -> Job] /\ disk \in Disks
      /\ lost \in SUBSET Plan /\ excused \in SUBSET Storage /\ doubtful \in BOOLEAN
      /\ work[s].plan \in Plan /\ work[s].plan.file \in MaybeFile /\ props[s].file \in MaybeFile
      /\ props[s].pending \in MaybeFile /\ job[s].plan \in Plan
  BY DEF IInv, Types, Worker, Plan, Properties, Job
<1>3. Place = {"idle", "dispatch", "deferred", "body", "ready", "note", "save", "poll",
               "forget", "find", "stored"}
  BY DEF Place
<1>4. /\ \A at \in Place : [work EXCEPT ![s].at = at] \in [Storage -> Worker]
      /\ \A at \in Place, plan \in Plan :
           [work EXCEPT ![s].at = at, ![s].plan = plan] \in [Storage -> Worker]
      /\ \A at \in Place, file \in MaybeFile :
           [work EXCEPT ![s].at = at, ![s].plan.file = file] \in [Storage -> Worker]
      /\ \A outcome \in {"none", "ok", "failed"} :
           [work EXCEPT ![s].at = "idle", ![s].outcome = outcome, ![s].plan = NoPlan] \in
              [Storage -> Worker]
      /\ [work EXCEPT ![s].at = "idle", ![s].plan = NoPlan, ![s].outcome = "failed"] \in
            [Storage -> Worker]
      /\ \A filed \in BOOLEAN : [props EXCEPT ![s].task = filed] \in [Storage -> Properties]
      /\ \A file \in MaybeFile :
           /\ [props EXCEPT ![s].pending = file] \in [Storage -> Properties]
           /\ [props EXCEPT ![s].file = file] \in [Storage -> Properties]
  BY Updates DEF IInv
<1> SUFFICES Typed
  BY DEF Types
<1> HIDE DEF Disks
<1>5. Retries(s) => work' \in [Storage -> Worker] /\ excused' \in SUBSET Storage
  <2>1. ASSUME Retries(s)
        PROVE  work' \in [Storage -> Worker]
    <3>1. "dispatch" \in Place
      BY <1>3
    <3>2. [work EXCEPT ![s].at = "dispatch", ![s].plan = NoPlan] \in [Storage -> Worker]
      BY <1>1, <1>4, <3>1
    <3> QED
      BY <1>4, <2>1, <3>2 DEF Retries
  <2>2. ASSUME Retries(s)
        PROVE  excused' \in SUBSET Storage
    BY <1>2, <2>2 DEF Retries
  <2> QED
    BY <2>1, <2>2
<1>6. CASE Begin(s)
  <2>1. \A name \in {"create", "delete"} :
          [op |-> name, at |-> "dispatch", outcome |-> "none", plan |-> NoPlan] \in Worker
    BY <1>1, <1>3 DEF Worker
  <2> QED
    BY <1>2, <1>6, <2>1 DEF Begin
<1>7. CASE Crash(s)
  <2> QED
    BY <1>1, <1>2, <1>3, <1>4, <1>7 DEF Crash
<1>8. CASE TaskEnds(s)
  <2>1. job[s].plan \in Plan /\ Sound(job[s].plan) /\ job[s].plan.kind # "none"
    BY <1>2, <1>8 DEF IInv, TaskEnds, Units, Stage, Planned
  <2>2. PICK result \in Results(job[s].plan) :
          /\ disk' = Reconfigured(job[s].plan, result)
          /\ job' = [job EXCEPT ![s].state = result]
          /\ excused' = excused \union Spoils(job[s].plan, result)
          /\ doubtful' = (doubtful \/ Spoils(job[s].plan, result) # {})
    BY <1>8 DEF TaskEnds
  <2>3. Spoils(job[s].plan, result) \subseteq Storage
    BY <2>1 DEF IInv, Stage, Planned, Spoils
  <2>4. result \in JobState /\ disk' \in Disks
    BY <2>1, <2>2, ReconfiguredType DEF IInv, JobState, Disks
  <2>5. \A j \in Job : [j EXCEPT !.state = result] \in Job
    BY <2>4 DEF Job
  <2>6. job' \in [Storage -> Job]
    BY <1>2, <2>2, <2>5
  <2> QED
    BY <1>2, <1>8, <2>2, <2>3, <2>4, <2>6 DEF TaskEnds
<1>9. CASE Wrapper(s)
  <2>1. [job EXCEPT ![s] = [plan |-> work[s].plan, state |-> "running"]] \in [Storage -> Job]
    BY <1>2 DEF Job, JobState
  <2>2. CASE Reconfigure(s)
    BY <1>2, <1>3, <1>4, <2>1, <2>2 DEF Reconfigure, Goes
  <2>3. CASE Dispatch(s)
    BY <1>2, <1>3, <1>4, <2>3 DEF Dispatch, Goes
  <2>7. CASE SaveTask(s)
    BY <1>2, <1>3, <1>4, <2>7 DEF SaveTask, Goes
  <2>4. CASE WaitTimesOut(s)
    BY <1>2, <1>5, <2>4 DEF WaitTimesOut
  <2>5. CASE DeferredReturns(s)
    BY <1>1, <1>2, <1>3, <1>4, <2>5 DEF DeferredReturns, ForgetsTask, Goes
  <2>6. CASE DeferredFails(s)
    BY <1>1, <1>2, <1>4, <2>6 DEF DeferredFails, ForgetsTask, Ends
  <2>8. CASE WaitFails(s)
    BY <1>1, <1>2, <1>4, <2>8 DEF WaitFails, ForgetsTask, Ends
  <2> QED
    BY <1>9, <2>2, <2>3, <2>4, <2>5, <2>6, <2>7, <2>8 DEF Wrapper
<1>10. CASE Create(s)
  <2>1. CASE LookToAdd(s)
    <3>1. NextUnit \in Unit /\ Max(Taken \union {0}) + 1 \in File
      BY <2>1, NextUnitUsable, NextFile DEF IInv, LookToAdd, Usable, Unit
    <3>2. [kind |-> "add", file |-> Max(Taken \union {0}) + 1, unit |-> NextUnit, by |-> s] \in Plan
      BY <3>1 DEF Plan, MaybeFile
    <3> QED
      BY <1>2, <1>3, <1>4, <2>1, <3>2 DEF LookToAdd
  <2>2. CASE NameClash(s)
    BY <1>1, <1>2, <1>4, <1>5, <2>2 DEF NameClash, ForgetsTask
  <2>3. CASE PickUp(s)
    BY <1>2, <1>3, <1>4, <2>3 DEF PickUp
  <2>4. CASE NoteName(s)
    BY <1>1, <1>2, <1>3, <1>4, <2>4 DEF NoteName, Goes
  <2>9. CASE ForgetName(s)
    BY <1>1, <1>2, <1>3, <1>4, <2>9 DEF ForgetName, Goes
  <2>7. CASE Finish(s)
    BY <1>1, <1>2, <1>3, <1>4, <2>7 DEF Finish
  <2>5. CASE SkipCreate(s) \/ ControllerFull(s) \/ CreateReturns(s)
    BY <1>1, <1>2, <1>4, <2>5 DEF SkipCreate, ControllerFull, CreateReturns, Ends
  <2>8. CASE NotFound(s)
    BY <1>1, <1>2, <1>4, <2>8 DEF NotFound, Ends
  <2>6. CASE AddReturns(s)
    BY <1>1, <1>2, <1>3, <1>4, <2>6 DEF AddReturns, ForgetsTask, Goes
  <2> QED
    BY <1>10, <2>1, <2>2, <2>3, <2>4, <2>5, <2>6, <2>7, <2>8, <2>9 DEF Create
<1>11. CASE Delete(s)
  <2>1. CASE LookToRemove(s)
    <3>1. props[s].file \in File
      BY <2>1 DEF LookToRemove, Taken
    <3>2. [kind |-> "remove", file |-> props[s].file, unit |-> disk[props[s].file].unit,
           by |-> disk[props[s].file].by] \in Plan
      BY <1>1, <1>2, <3>1 DEF Plan, Disks
    <3> QED
      BY <1>2, <1>3, <1>4, <2>1, <3>2 DEF LookToRemove
  <2>2. CASE SkipDelete(s) \/ AlreadyRemoved(s) \/ RemoveReturns(s)
    BY <1>1, <1>2, <1>4, <2>2 DEF SkipDelete, AlreadyRemoved, RemoveReturns, Deleted, Ends
  <2> QED
    BY <1>11, <2>1, <2>2 DEF Delete
<1> QED
  BY <1>6, <1>7, <1>8, <1>9, <1>10, <1>11 DEF Step

\* What a task does to the disks: an add takes a file and a unit that are free, a remove
\* frees a disk of the instance it was asked for.
LEMMA DiskStep ==
    ASSUME Types, Units, NEW p \in Plan, Sound(p), p.kind # "none",
           NEW result \in Results(p), disk' = Reconfigured(p, result)
    PROVE  /\ result # "success" => disk' = disk
           /\ \A f \in File \ {p.file} : disk'[f] = disk[f]
           /\ result = "success" /\ p.kind = "add" =>
                 p.file \notin Taken /\ disk'[p.file] = [by |-> p.by, unit |-> p.unit]
           /\ result = "success" /\ p.kind = "remove" =>
                 disk[p.file].by = p.by /\ disk'[p.file].by = Nobody
           /\ \A f \in Taken' : disk'[f].unit \in Usable
           /\ \A f, g \in Taken' : disk'[f].unit = disk'[g].unit => f = g
<1>1. result # "success" => disk' = disk
  BY DEF Reconfigured
<1>2. /\ p.file \in File /\ p.kind \in {"add", "remove"}
      /\ Taken' = {f \in File : disk'[f].by # Nobody}
  BY DEF Sound, Plan, Taken
<1>3. CASE result # "success"
  BY <1>1, <1>2, <1>3 DEF Units, Taken
<1>4. CASE result = "success" /\ p.kind = "add"
  <2>1. p.file \notin Taken /\ p.unit \notin {disk[f].unit : f \in Taken}
    BY <1>4 DEF Results
  <2>2. disk' = [disk EXCEPT ![p.file] = [by |-> p.by, unit |-> p.unit]]
    BY <1>4 DEF Reconfigured
  <2>3. /\ disk'[p.file] = [by |-> p.by, unit |-> p.unit]
        /\ \A f \in File \ {p.file} : disk'[f] = disk[f]
    BY <1>2, <2>2 DEF Types
  <2>4. \A f \in Taken' : f = p.file \/ (f \in Taken /\ disk'[f] = disk[f])
    BY <1>2, <2>3 DEF Taken
  <2>5. p.unit \in Usable /\ disk'[p.file].unit = p.unit
    BY <1>4, <2>3 DEF Sound
  <2>6. \A f \in Taken' : disk'[f].unit \in Usable
    BY <2>4, <2>5 DEF Units
  <2>7. \A f, g \in Taken' : disk'[f].unit = disk'[g].unit => f = g
    BY <2>1, <2>4, <2>5 DEF Units
  <2> QED
    BY <1>4, <2>1, <2>3, <2>6, <2>7
<1>5. CASE result = "success" /\ p.kind = "remove"
  <2>1. disk[p.file].by = p.by
    BY <1>5 DEF Results
  <2>2. disk' = [disk EXCEPT ![p.file] = Free]
    BY <1>5 DEF Reconfigured
  <2>3. disk'[p.file] = Free /\ \A f \in File \ {p.file} : disk'[f] = disk[f]
    BY <1>2, <2>2 DEF Types
  <2>4. \A f \in Taken' : f \in Taken /\ disk'[f] = disk[f]
    BY <1>2, <2>3 DEF Taken, Free
  <2> QED
    BY <1>5, <2>1, <2>3, <2>4 DEF Units, Free
<1> QED
  BY <1>2, <1>3, <1>4, <1>5

LEMMA UnitsStep ==
    ASSUME IInv, NEW s \in Storage, Step(s)
    PROVE  Units'
<1>1. Types /\ Types' /\ Units
  BY TypesStep DEF IInv
<1>2. \A u \in Storage \ {s} : Sound(work'[u].plan) /\ Sound(job'[u].plan)
  BY <1>1, OthersKept DEF Units
<1>3. Sound(NoPlan) /\ Sound(work[s].plan) /\ Sound(job[s].plan)
  BY <1>1 DEF Units, Sound, NoPlan
<1>4. work[s].plan \in Plan /\ job[s].plan \in Plan
  BY <1>1 DEF Types, Worker, Job
<1> DEFINE Kept == disk' = disk /\ lost' = lost
           New == Sound(work'[s].plan) /\ Sound(job'[s].plan)
<1>5. Kept /\ New => Units'
  BY <1>1, <1>2 DEF Units, Taken
<1> USE DEF Types
<1>6. CASE Begin(s)
  BY <1>1, <1>3, <1>5, <1>6 DEF Begin
<1>7. CASE Wrapper(s)
  <2>1. NoJob.plan = NoPlan
    BY DEF NoJob
  <2>2. CASE Dispatch(s) \/ WaitTimesOut(s)
    BY <1>1, <1>3, <1>5, <2>2 DEF Dispatch, WaitTimesOut, Goes, Retries, Worker
  <2>3. CASE DeferredReturns(s)
    BY <1>1, <1>3, <1>5, <2>1, <2>3 DEF DeferredReturns, ForgetsTask, Goes, Worker
  <2>4. CASE DeferredFails(s)
    BY <1>1, <1>3, <1>5, <2>1, <2>4 DEF DeferredFails, ForgetsTask, Ends, Worker
  <2>5. CASE Reconfigure(s)
    BY <1>1, <1>3, <1>5, <2>5 DEF Reconfigure, Goes, Worker, Job
  <2>6. CASE SaveTask(s)
    BY <1>1, <1>3, <1>5, <2>6 DEF SaveTask, Goes, Worker
  <2>7. CASE WaitFails(s)
    BY <1>1, <1>3, <1>5, <2>1, <2>7 DEF WaitFails, ForgetsTask, Ends, Worker
  <2> QED
    BY <1>7, <2>2, <2>3, <2>4, <2>5, <2>6, <2>7 DEF Wrapper
<1>8. CASE Create(s)
  <2>1. NoJob.plan = NoPlan
    BY DEF NoJob
  <2>2. CASE SkipCreate(s) \/ ControllerFull(s) \/ CreateReturns(s)
    BY <1>1, <1>3, <1>5, <2>2 DEF SkipCreate, ControllerFull, CreateReturns, Ends, Worker
  <2>3. CASE PickUp(s)
    <3>1. props[s].pending \in File /\ work[s].plan = NoPlan
      <4>1. Planned(s)
        BY DEF IInv, Stage
      <4>2. props[s].pending \in MaybeFile
        BY <1>1 DEF Properties
      <4> QED
        BY <2>3, <4>1, <4>2 DEF PickUp, Planned, MaybeFile
    <3>2. Sound([NoPlan EXCEPT !.file = props[s].pending])
      BY <3>1 DEF Sound, NoPlan
    <3>3. work'[s].plan = [work[s].plan EXCEPT !.file = props[s].pending]
      BY <1>1, <2>3 DEF PickUp, Worker
    <3>4. job' = job /\ Kept
      BY <2>3 DEF PickUp
    <3> QED
      BY <1>3, <1>5, <3>1, <3>2, <3>3, <3>4
  <2>4. CASE LookToAdd(s)
    <3>1. NextUnit \in Usable /\ Max(Taken \union {0}) + 1 \in File
      BY <1>1, <2>4, NextUnitUsable, NextFile DEF LookToAdd
    <3>2. Sound([kind |-> "add", file |-> Max(Taken \union {0}) + 1, unit |-> NextUnit, by |-> s])
      BY <3>1 DEF Sound
    <3> QED
      BY <1>1, <1>3, <1>5, <2>4, <3>2 DEF LookToAdd, Worker
  <2>5. CASE NoteName(s)
    BY <1>1, <1>3, <1>5, <2>5 DEF NoteName, Goes, Worker
  <2>6. CASE AddReturns(s)
    BY <1>1, <1>3, <1>5, <2>1, <2>6 DEF AddReturns, ForgetsTask, Goes, Worker
  <2>7. CASE NameClash(s)
    BY <1>1, <1>3, <1>5, <2>1, <2>7 DEF NameClash, ForgetsTask, Retries, Worker
  <2>8. CASE ForgetName(s)
    BY <1>1, <1>3, <1>5, <2>8 DEF ForgetName, Goes, Worker
  <2>9. CASE Finish(s) \/ NotFound(s)
    BY <1>1, <1>3, <1>5, <2>9 DEF Finish, NotFound, Ends, Worker
  <2> QED
    BY <1>8, <2>2, <2>3, <2>4, <2>5, <2>6, <2>7, <2>8, <2>9 DEF Create
<1>9. CASE Delete(s)
  <2>1. NoJob.plan = NoPlan
    BY DEF NoJob
  <2>2. CASE SkipDelete(s) \/ AlreadyRemoved(s)
    BY <1>1, <1>3, <1>5, <2>2 DEF SkipDelete, AlreadyRemoved, Deleted, Ends, Worker
  <2>3. CASE LookToRemove(s)
    <3>1. Sound([kind |-> "remove", file |-> props[s].file, unit |-> disk[props[s].file].unit,
                 by |-> disk[props[s].file].by])
      BY <2>3 DEF LookToRemove, Taken, Sound
    <3> QED
      BY <1>1, <1>3, <1>5, <2>3, <3>1 DEF LookToRemove, Worker
  <2>4. CASE RemoveReturns(s)
    BY <1>1, <1>3, <1>5, <2>1, <2>4 DEF RemoveReturns, Deleted, Ends, Worker
  <2> QED
    BY <1>9, <2>2, <2>3, <2>4 DEF Delete
<1>10. CASE TaskEnds(s)
  <2>1. job[s].plan.kind # "none"
    BY <1>10 DEF TaskEnds, IInv, Stage, Planned
  <2>2. PICK result \in Results(job[s].plan) :
          disk' = Reconfigured(job[s].plan, result) /\ job' = [job EXCEPT ![s].state = result]
    BY <1>10 DEF TaskEnds
  <2>3. /\ \A f \in Taken' : disk'[f].unit \in Usable
        /\ \A f, g \in Taken' : disk'[f].unit = disk'[g].unit => f = g
    <3> HIDE DEF Types
    <3> QED
      BY <1>1, <1>3, <1>4, <2>1, <2>2, DiskStep
  <2>4. New
    BY <1>1, <1>3, <1>10, <2>2 DEF TaskEnds, Job
  <2> QED
    BY <1>1, <1>2, <1>10, <2>3, <2>4 DEF Units, TaskEnds
<1>11. CASE Crash(s)
  <2>1. NoJob.plan = NoPlan
    BY DEF NoJob
  <2>2. New
    BY <1>1, <1>3, <1>11, <2>1 DEF Crash, Worker, Job
  <2>3. \A p \in lost' \ lost : p = job[s].plan /\ job[s].state = "running"
    BY <1>11 DEF Crash
  <2>4. \A p \in lost' : Sound(p) /\ p.kind # "none"
    BY <1>1, <1>3, <2>3 DEF IInv, Stage, Planned, Units
  <2>5. disk' = disk
    BY <1>11 DEF Crash
  <2> QED
    BY <1>1, <1>2, <2>2, <2>4, <2>5 DEF Units, Taken
<1> QED
  BY <1>6, <1>7, <1>8, <1>9, <1>10, <1>11 DEF Step

\* The stages of an instance depend on its own worker, names and task only.
LEMMA StageKept ==
    ASSUME Types, Stage, NEW s \in Storage, Step(s), Planned(s)', Filed(s)', Named(s)'
    PROVE  Stage'
<1> SUFFICES ASSUME NEW u \in Storage \ {s}
             PROVE  Planned(u)' /\ Filed(u)' /\ Named(u)'
  BY DEF Stage
<1>1. work'[u] = work[u] /\ props'[u] = props[u] /\ job'[u] = job[u]
  BY OthersKept
<1> QED
  BY <1>1 DEF Stage, Planned, Filed, Named, Idle

LEMMA StageStep ==
    ASSUME IInv, NEW s \in Storage, Step(s)
    PROVE  Stage'
<1>1. /\ work \in [Storage -> Worker] /\ props \in [Storage -> Properties]
      /\ job \in [Storage -> Job]
      /\ work[s].op \in {"create", "delete"} /\ props[s].file \in MaybeFile
      /\ props[s].pending \in MaybeFile /\ props[s].task \in BOOLEAN
      /\ work[s].plan.kind \in {"none", "add", "remove"}
      /\ job[s].plan.kind \in {"none", "add", "remove"}
  BY DEF IInv, Types, Worker, Properties, Job, Plan
<1>2. Planned(s) /\ Filed(s) /\ Named(s)
  BY DEF IInv, Stage
<1>3. /\ NoPlan.kind = "none" /\ NoJob.plan = NoPlan /\ NoJob.state = "none"
      /\ NoProps.pending = NoFile /\ NoProps.file = NoFile /\ NoProps.task = FALSE
  BY DEF NoPlan, NoJob, NoProps
<1> DEFINE Staged == Planned(s)' /\ Filed(s)' /\ Named(s)'
<1> SUFFICES Staged
  BY StageKept DEF IInv
<1>4. CASE Begin(s)
  <2>1. PICK name \in {"create", "delete"} :
          /\ MayBegin(s, name)
          /\ work'[s] = [op |-> name, at |-> "dispatch", outcome |-> "none", plan |-> NoPlan]
    BY <1>1, <1>4 DEF Begin
  <2>2. props' = props /\ job' = job /\ work[s].at = "idle"
    BY <1>4 DEF Begin
  <2>3. Planned(s)'
    BY <1>1, <1>2, <1>3, <2>1, <2>2 DEF Planned, Filed, MayBegin
  <2>4. Filed(s)'
    BY <1>1, <1>2, <2>1, <2>2 DEF Filed, MayBegin
  <2>5. Named(s)'
    BY <1>1, <1>2, <2>1, <2>2 DEF Named, Idle
  <2> QED
    BY <2>3, <2>4, <2>5
<1>5. CASE Wrapper(s)
  <2>1. CASE Dispatch(s)
    BY <1>1, <1>2, <1>3, <2>1
    DEF Dispatch, Goes, Planned, Filed, Named, Idle
  <2>2. CASE WaitTimesOut(s)
    <3>1. /\ work'[s].op = work[s].op /\ work'[s].plan = NoPlan
          /\ work'[s].at = "dispatch" \/ (work'[s].at = "idle" /\ work'[s].outcome = "failed")
      BY <1>1, <2>2 DEF WaitTimesOut, Retries, Worker
    <3>2. /\ props' = props /\ job' = job /\ work[s].at \in {"deferred", "poll"}
      BY <2>2 DEF WaitTimesOut
    <3> QED
      BY <1>1, <1>2, <1>3, <3>1, <3>2 DEF Planned, Filed, Named, Idle
  <2>3. CASE DeferredReturns(s)
    BY <1>1, <1>2, <1>3, <2>3
    DEF DeferredReturns, ForgetsTask, Goes, Planned, Filed, Named, Idle
  <2>4. CASE DeferredFails(s)
    BY <1>1, <1>2, <1>3, <2>4
    DEF DeferredFails, ForgetsTask, Ends, Planned, Filed, Named, Idle
  <2>5. CASE Reconfigure(s)
    BY <1>1, <1>2, <1>3, <2>5
    DEF Reconfigure, Goes, Planned, Filed, Named, Idle
  <2>6. CASE SaveTask(s)
    BY <1>1, <1>2, <1>3, <2>6
    DEF SaveTask, Goes, Planned, Filed, Named, Idle
  <2>7. CASE WaitFails(s)
    BY <1>1, <1>2, <1>3, <2>7
    DEF WaitFails, ForgetsTask, Ends, Planned, Filed, Named, Idle
  <2> QED
    BY <1>5, <2>1, <2>2, <2>3, <2>4, <2>5, <2>6, <2>7 DEF Wrapper
<1>6. CASE Create(s)
  <2>1. CASE SkipCreate(s)
    BY <1>1, <1>2, <1>3, <2>1
    DEF SkipCreate, Ends, Planned, Filed, Named, Idle
  <2>2. CASE PickUp(s)
    <3>1. /\ work[s].at = "body" /\ work[s].op = "create" /\ props' = props /\ job' = job
          /\ props[s].file = NoFile /\ props[s].pending # NoFile
      BY <2>2 DEF PickUp
    <3>2. /\ work'[s].op = "create" /\ work'[s].at = "forget"
          /\ work'[s].plan = [work[s].plan EXCEPT !.file = props[s].pending]
      BY <1>1, <2>2 DEF PickUp, Worker
    <3>3. work'[s].plan.kind = work[s].plan.kind /\ work'[s].plan.file = props[s].pending
      BY <3>2, <1>1 DEF Plan, Worker
    <3>4. work[s].plan.kind = "none" /\ props[s].pending \in File
      BY <1>1, <1>2, <1>3, <3>1 DEF Planned, MaybeFile
    <3> QED
      BY <1>1, <1>2, <1>3, <3>1, <3>2, <3>3, <3>4 DEF Planned, Filed, Named, Idle
  <2>3. CASE LookToAdd(s)
    BY <1>1, <1>2, <1>3, <2>3
    DEF LookToAdd, Planned, Filed, Named, Idle
  <2>4. CASE ControllerFull(s)
    BY <1>1, <1>2, <1>3, <2>4
    DEF ControllerFull, Ends, Planned, Filed, Named, Idle
  <2>5. CASE NoteName(s)
    BY <1>1, <1>2, <1>3, <2>5
    DEF NoteName, Goes, Planned, Filed, Named, Idle
  <2>6. CASE AddReturns(s)
    <3>1. /\ work[s].at = "poll" /\ work[s].op = "create" /\ job'[s] = NoJob
          /\ work'[s].op = "create" /\ work'[s].at = "forget" /\ work'[s].plan = work[s].plan
          /\ props'[s].file = props[s].file /\ props'[s].pending = props[s].pending
          /\ props'[s].task = FALSE
      BY <1>1, <2>6 DEF AddReturns, ForgetsTask, Goes, Worker, Properties
    <3>2. work[s].plan.file \in File
      BY <1>2, <3>1 DEF IInv, Units, Sound, Planned
    <3> QED
      BY <1>1, <1>2, <1>3, <3>1, <3>2 DEF Planned, Filed, Named, Idle
  <2>7. CASE NameClash(s)
    <3>1. /\ work'[s].op = work[s].op /\ work'[s].plan = NoPlan
          /\ work'[s].at = "dispatch" \/ (work'[s].at = "idle" /\ work'[s].outcome = "failed")
      BY <1>1, <2>7 DEF NameClash, Retries, Worker
    <3>2. /\ props'[s] = [props[s] EXCEPT !.task = FALSE] /\ job'[s] = NoJob
          /\ work[s].at = "poll"
      BY <1>1, <2>7 DEF NameClash, ForgetsTask
    <3>3. /\ props'[s].file = props[s].file /\ props'[s].pending = props[s].pending
          /\ props'[s].task = FALSE
      BY <1>1, <3>2 DEF Properties
    <3> QED
      BY <1>1, <1>2, <1>3, <3>1, <3>2, <3>3 DEF Planned, Filed, Named, Idle
  <2>8. CASE ForgetName(s)
    BY <1>1, <1>2, <1>3, <2>8
    DEF ForgetName, Goes, Planned, Filed, Named, Idle
  <2>9. CASE Finish(s)
    <3>1. /\ work[s].at = "find" /\ job' = job
          /\ work'[s].op = work[s].op /\ work'[s].at = "stored" /\ work'[s].plan = NoPlan
          /\ props'[s].file = work[s].plan.file /\ props'[s].pending = props[s].pending
          /\ props'[s].task = props[s].task
      BY <1>1, <2>9 DEF Finish, Worker, Properties
    <3>2. work[s].plan.file # NoFile
      BY <1>2, <3>1 DEF Named, File, NoFile
    <3> QED
      BY <1>1, <1>2, <1>3, <3>1, <3>2 DEF Planned, Filed, Named, Idle
  <2>10. CASE CreateReturns(s)
    BY <1>1, <1>2, <1>3, <2>10
    DEF CreateReturns, Ends, Planned, Filed, Named, Idle
  <2>11. CASE NotFound(s)
    BY <1>1, <1>2, <1>3, <2>11
    DEF NotFound, Ends, Planned, Filed, Named, Idle
  <2> QED
    BY <1>6, <2>1, <2>2, <2>3, <2>4, <2>5, <2>6, <2>7, <2>8, <2>9, <2>10, <2>11 DEF Create
<1>7. CASE Delete(s)
  <2>1. CASE SkipDelete(s)
    <3>1. /\ work'[s].at = "idle" /\ work'[s].op = "delete" /\ work'[s].plan = NoPlan
          /\ props'[s] = NoProps /\ job' = job /\ work[s].at = "body"
      BY <1>1, <2>1 DEF SkipDelete, Deleted, Ends, Worker
    <3> QED
      BY <1>1, <1>2, <1>3, <3>1 DEF Planned, Filed, Named, Idle
  <2>2. CASE AlreadyRemoved(s)
    <3>1. /\ work'[s].at = "idle" /\ work'[s].op = "delete" /\ work'[s].plan = NoPlan
          /\ props'[s] = NoProps /\ job' = job /\ work[s].at = "body"
      BY <1>1, <2>2 DEF AlreadyRemoved, Deleted, Ends, Worker
    <3> QED
      BY <1>1, <1>2, <1>3, <3>1 DEF Planned, Filed, Named, Idle
  <2>3. CASE LookToRemove(s)
    BY <1>1, <1>2, <1>3, <2>3
    DEF LookToRemove, Planned, Filed, Named, Idle
  <2>4. CASE RemoveReturns(s)
    <3>1. /\ work'[s].at = "idle" /\ work'[s].op = "delete" /\ work'[s].plan = NoPlan
          /\ props'[s] = NoProps /\ job'[s] = NoJob
      BY <1>1, <2>4 DEF RemoveReturns, Deleted, Ends, Worker
    <3> QED
      BY <1>1, <1>2, <1>3, <3>1 DEF Planned, Filed, Named, Idle
  <2> QED
    BY <1>7, <2>1, <2>2, <2>3, <2>4 DEF Delete
<1>8. CASE TaskEnds(s)
  <2>1. PICK result \in Results(job[s].plan) : job' = [job EXCEPT ![s].state = result]
    BY <1>8 DEF TaskEnds
  <2>2. result # "none" /\ job[s].state = "running" /\ work' = work /\ props' = props
    BY <1>8 DEF TaskEnds, Results
  <2>3. job'[s].plan = job[s].plan /\ job'[s].state = result
    BY <1>1, <2>1 DEF Job
  <2> QED
    BY <1>2, <2>2, <2>3 DEF Planned, Filed, Named, Idle
<1>9. CASE Crash(s)
  BY <1>1, <1>2, <1>3, <1>9 DEF Crash, Planned, Filed, Named, Idle
<1> QED
  BY <1>4, <1>5, <1>6, <1>7, <1>8, <1>9 DEF Step

\* Unless a history is doubtful, every stored name still means a disk of its instance.
LEMMA OwnedStep ==
    ASSUME IInv, NEW s \in Storage, Step(s)
    PROVE  Owned'
<1>1. /\ work \in [Storage -> Worker] /\ props \in [Storage -> Properties]
      /\ job \in [Storage -> Job] /\ doubtful \in BOOLEAN
      /\ work[s].op \in {"create", "delete"} /\ props[s].file \in MaybeFile
      /\ props[s].pending \in MaybeFile /\ props[s].task \in BOOLEAN
      /\ work[s].plan.kind \in {"none", "add", "remove"}
      /\ job[s].plan.kind \in {"none", "add", "remove"}
  BY DEF IInv, Types, Worker, Properties, Job, Plan
<1>2. Planned(s) /\ Filed(s) /\ Named(s)
  BY DEF IInv, Stage
<1>3. /\ NoPlan.kind = "none" /\ NoJob.plan = NoPlan /\ NoJob.state = "none"
      /\ NoProps.pending = NoFile /\ NoProps.file = NoFile /\ NoProps.task = FALSE
  BY DEF NoPlan, NoJob, NoProps
<1> SUFFICES ASSUME ~doubtful'
             PROVE  lost' = {} /\ \A u \in Storage : Owns(u)'
  BY DEF Owned
<1>4. ~doubtful /\ lost = {} /\ \A u \in Storage : Owns(u)
  <2>1. doubtful => doubtful'
    BY DEF Step, Begin, TaskEnds, Crash, Wrapper, Dispatch, WaitTimesOut, DeferredReturns,
       DeferredFails, Reconfigure, SaveTask, WaitFails, ForgetsTask, Create, SkipCreate, PickUp,
       LookToAdd, ControllerFull, NoteName, AddReturns, NameClash, ForgetName, Finish,
       CreateReturns, NotFound, Delete, SkipDelete, AlreadyRemoved, LookToRemove, RemoveReturns
  <2> QED
    BY <2>1 DEF IInv, Owned
<1> DEFINE Local == disk' = disk /\ lost' = lost /\ Owns(s)'
<1>5. ASSUME Local
      PROVE  lost' = {} /\ \A u \in Storage : Owns(u)'
  <2>1. ASSUME NEW u \in Storage \ {s}
        PROVE  Owns(u)'
    <3>1. work'[u] = work[u] /\ props'[u] = props[u] /\ job'[u] = job[u]
      BY OthersKept DEF IInv
    <3> QED
      BY <1>4, <1>5, <3>1 DEF Owns, Made
  <2> QED
    BY <1>4, <1>5, <2>1
<1>6. CASE Begin(s)
  BY <1>1, <1>2, <1>3, <1>4, <1>5, <1>6 DEF Begin, Owns, Made, Planned
<1>7. CASE Wrapper(s)
  <2>1. CASE Dispatch(s)
    BY <1>1, <1>2, <1>3, <1>4, <1>5, <2>1
    DEF Dispatch, Goes, Owns, Made, Planned, Named, Filed
  <2>2. CASE WaitTimesOut(s)
    <3>1. /\ work'[s].plan = NoPlan /\ work'[s].at \in {"idle", "dispatch"}
      BY <1>1, <2>2 DEF WaitTimesOut, Retries, Worker
    <3>2. /\ props' = props /\ job' = job /\ disk' = disk /\ lost' = lost
          /\ job[s].plan.kind # "remove"
      BY <2>2 DEF WaitTimesOut
    <3> QED
      BY <1>3, <1>4, <1>5, <3>1, <3>2 DEF Owns, Made
  <2>3. CASE DeferredReturns(s)
    BY <1>1, <1>2, <1>3, <1>4, <1>5, <2>3
    DEF DeferredReturns, ForgetsTask, Goes, Owns, Made, Planned, Named, Filed
  <2>4. CASE DeferredFails(s)
    BY <1>1, <1>2, <1>3, <1>4, <1>5, <2>4
    DEF DeferredFails, ForgetsTask, Ends, Owns, Made, Planned, Named, Filed
  <2>5. CASE Reconfigure(s)
    BY <1>1, <1>2, <1>3, <1>4, <1>5, <2>5
    DEF Reconfigure, Goes, Owns, Made, Planned, Named, Filed
  <2>6. CASE SaveTask(s)
    BY <1>1, <1>2, <1>3, <1>4, <1>5, <2>6
    DEF SaveTask, Goes, Owns, Made, Planned, Named, Filed
  <2>7. CASE WaitFails(s)
    <3>1. /\ work'[s].plan = NoPlan /\ work'[s].at \in {"idle", "dispatch"}
          /\ job[s].state \in {"clash", "error"} /\ job'[s] = NoJob
          /\ props'[s].file = props[s].file /\ props'[s].pending = props[s].pending
          /\ disk' = disk /\ lost' = lost
      BY <1>1, <2>7 DEF WaitFails, ForgetsTask, Ends, Worker, Properties
    <3> QED
      BY <1>3, <1>4, <1>5, <3>1 DEF Owns, Made
  <2> QED
    BY <1>7, <2>1, <2>2, <2>3, <2>4, <2>5, <2>6, <2>7 DEF Wrapper
<1>8. CASE Create(s)
  <2>1. CASE SkipCreate(s)
    BY <1>1, <1>2, <1>3, <1>4, <1>5, <2>1
    DEF SkipCreate, Ends, Owns, Made, Planned, Named, Filed
  <2>2. CASE PickUp(s)
    BY <1>1, <1>2, <1>3, <1>4, <1>5, <2>2
    DEF PickUp, Owns, Made, Planned, Named, Filed
  <2>3. CASE LookToAdd(s)
    BY <1>1, <1>2, <1>3, <1>4, <1>5, <2>3
    DEF LookToAdd, Owns, Made, Planned, Named, Filed
  <2>4. CASE ControllerFull(s)
    BY <1>1, <1>2, <1>3, <1>4, <1>5, <2>4
    DEF ControllerFull, Ends, Owns, Made, Planned, Named, Filed
  <2>5. CASE NoteName(s)
    BY <1>1, <1>2, <1>3, <1>4, <1>5, <2>5
    DEF NoteName, Goes, Owns, Made, Planned, Named, Filed
  <2>6. CASE AddReturns(s)
    BY <1>1, <1>2, <1>3, <1>4, <1>5, <2>6
    DEF AddReturns, ForgetsTask, Goes, Owns, Made, Planned, Named, Filed
  <2>7. CASE NameClash(s)
    <3>1. /\ work'[s].plan = NoPlan /\ work'[s].at \in {"idle", "dispatch"}
          /\ job[s].state \in {"clash", "error"} /\ job'[s] = NoJob
          /\ props'[s].file = props[s].file /\ props'[s].pending = props[s].pending
          /\ disk' = disk /\ lost' = lost
      BY <1>1, <2>7 DEF NameClash, ForgetsTask, Retries, Worker, Properties
    <3> QED
      BY <1>3, <1>4, <1>5, <3>1 DEF Owns, Made
  <2>8. CASE ForgetName(s)
    BY <1>1, <1>2, <1>3, <1>4, <1>5, <2>8
    DEF ForgetName, Goes, Owns, Made, Planned, Named, Filed
  <2>9. CASE Finish(s)
    BY <1>1, <1>2, <1>3, <1>4, <1>5, <2>9
    DEF Finish, Owns, Made, Planned, Named, Filed
  <2>10. CASE CreateReturns(s)
    BY <1>1, <1>2, <1>3, <1>4, <1>5, <2>10
    DEF CreateReturns, Ends, Owns, Made, Planned, Named, Filed
  <2>11. CASE NotFound(s)
    BY <1>1, <1>2, <1>3, <1>4, <1>5, <2>11
    DEF NotFound, Ends, Owns, Made, Planned, Named, Filed
  <2> QED
    BY <1>8, <2>1, <2>2, <2>3, <2>4, <2>5, <2>6, <2>7, <2>8, <2>9, <2>10, <2>11 DEF Create
<1>9. CASE Delete(s)
  <2>1. CASE SkipDelete(s)
    BY <1>1, <1>2, <1>3, <1>4, <1>5, <2>1
    DEF SkipDelete, Deleted, Ends, Owns, Made, Planned, Named, Filed
  <2>2. CASE AlreadyRemoved(s)
    BY <1>1, <1>2, <1>3, <1>4, <1>5, <2>2
    DEF AlreadyRemoved, Deleted, Ends, Owns, Made, Planned, Named, Filed
  <2>3. CASE LookToRemove(s)
    <3>1. /\ work[s].at = "body" /\ work'[s].at = "ready" /\ props[s].file # NoFile
          /\ work'[s].plan.kind = "remove" /\ work'[s].plan.by = disk[props[s].file].by
          /\ props' = props /\ job' = job /\ disk' = disk /\ lost' = lost
      BY <1>1, <2>3 DEF LookToRemove, Taken, File, NoFile, Worker
    <3>2. job[s].plan.kind = "none"
      BY <1>2, <1>3, <3>1 DEF Planned, Filed
    <3> QED
      BY <1>4, <1>5, <3>1, <3>2 DEF Owns, Made
  <2>4. CASE RemoveReturns(s)
    BY <1>1, <1>2, <1>3, <1>4, <1>5, <2>4
    DEF RemoveReturns, Deleted, Ends, Owns, Made, Planned, Named, Filed
  <2> QED
    BY <1>9, <2>1, <2>2, <2>3, <2>4 DEF Delete
<1>10. CASE Crash(s)
  <2>1. /\ work'[s].at = "dispatch" /\ work'[s].plan = NoPlan
        /\ props' = props /\ disk' = disk /\ job[s].plan.kind # "remove"
    BY <1>1, <1>10 DEF Crash, Worker
  <2>2. /\ work[s].at \in {"note", "save"} => job[s].state # "running" /\ job'[s] = NoJob
        /\ work[s].at \notin {"note", "save"} => job' = job
        /\ lost' = lost
    BY <1>1, <1>10 DEF Crash
  <2> QED
    BY <1>3, <1>4, <1>5, <2>1, <2>2 DEF Owns, Made
<1>11. CASE TaskEnds(s)
  <2>1. PICK result \in Results(job[s].plan) :
          /\ disk' = Reconfigured(job[s].plan, result)
          /\ job' = [job EXCEPT ![s].state = result]
          /\ doubtful' = (doubtful \/ Spoils(job[s].plan, result) # {})
    BY <1>11 DEF TaskEnds
  <2> DEFINE p == job[s].plan
  <2>2. /\ work' = work /\ props' = props /\ lost' = lost
        /\ job[s].state = "running"
    BY <1>11 DEF TaskEnds
  <2>3. /\ p \in Plan /\ Sound(p) /\ p.kind # "none" /\ p.by = s
        /\ p.kind = "add" => result = "success"
    BY <1>1, <1>2, <1>4, <2>1, <2>2 DEF IInv, Units, Planned, Owns, Spoils, Job
  <2>4. /\ \A f \in File \ {p.file} : disk'[f] = disk[f]
        /\ result # "success" => disk' = disk
        /\ p.kind = "add" => p.file \notin Taken /\ disk'[p.file].by = s
        /\ p.kind = "remove" /\ result = "success" => disk[p.file].by = s
    <3>1. Types /\ Units
      BY DEF IInv
    <3> HIDE DEF p
    <3>2. disk' = Reconfigured(p, result) /\ result \in Results(p)
      BY <2>1 DEF p
    <3>3. /\ \A f \in File \ {p.file} : disk'[f] = disk[f]
          /\ result # "success" => disk' = disk
          /\ result = "success" /\ p.kind = "add" =>
                p.file \notin Taken /\ disk'[p.file] = [by |-> p.by, unit |-> p.unit]
          /\ result = "success" /\ p.kind = "remove" => disk[p.file].by = p.by
      BY <2>3, <3>1, <3>2, DiskStep
    <3> QED
      BY <2>3, <3>3
  <2>5. job'[s].plan = p /\ job'[s].state = result
    BY <1>1, <2>1 DEF Job
  <2>6. ASSUME NEW u \in Storage \ {s}
        PROVE  Owns(u)'
    <3>1. work'[u] = work[u] /\ props'[u] = props[u] /\ job'[u] = job[u]
      BY OthersKept DEF IInv
    <3>2. \A f \in File : Made(u, f) => disk'[f] = disk[f]
      <4> SUFFICES ASSUME NEW f \in File, Made(u, f), f = p.file
                   PROVE  disk'[f] = disk[f]
        BY <2>4
      <4>1. f \in Taken /\ disk[f].by # s
        BY DEF Made, Taken
      <4>2. p.kind \in {"add", "remove"}
        BY <1>1, <2>3
      <4> QED
        BY <2>3, <2>4, <4>1, <4>2
    <3>3. work[u] \in Worker /\ props[u] \in Properties /\ job[u] \in Job
      BY DEF IInv, Types
    <3>4. /\ props[u].file # NoFile => props[u].file \in File
          /\ props[u].pending # NoFile => props[u].pending \in File
          /\ job[u].plan.kind = "add" => job[u].plan.file \in File
          /\ work[u].at \in {"forget", "find"} => work[u].plan.file \in File
      BY <3>3 DEF Properties, MaybeFile, IInv, Units, Sound, Stage, Named
    <3>5. \A f \in File : Made(u, f) => Made(u, f)'
      BY <3>2 DEF Made
    <3> HIDE DEF p
    <3> QED
      BY <1>4, <3>1, <3>4, <3>5 DEF Owns
  <2>7. Owns(s)'
    <3>1. props[s].file # NoFile => props[s].file \in File
      BY <1>1 DEF MaybeFile
    <3>2. props[s].pending # NoFile => props[s].pending \in File
      BY <1>1 DEF MaybeFile
    <3>3. p.kind \in {"add", "remove"} /\ p.file \in File
      BY <1>1, <2>3 DEF Sound
    <3>4. CASE p.kind = "add"
      <4>1. \A f \in File : Made(s, f) => Made(s, f)'
        BY <2>3, <2>4, <3>4 DEF Made
      <4> QED
        BY <1>2, <1>4, <2>2, <2>3, <2>4, <2>5, <3>1, <3>2, <3>3, <3>4, <4>1
        DEF Owns, Made, Planned, Named
    <3>5. CASE p.kind = "remove"
      <4>1. p.file = props[s].file /\ props[s].pending = NoFile /\ work[s].at \in {"save", "poll"}
        BY <1>2, <1>4, <3>3, <3>5 DEF Planned, Named, Owns, File, NoFile
      <4>2. result # "success" => Made(s, props[s].file)'
        BY <1>4, <2>2, <2>4, <3>3, <4>1 DEF Owns, Made, File, NoFile
      <4>3. work'[s].plan.kind = "remove" => work'[s].plan.by = s
        BY <1>4, <2>2 DEF Owns
      <4> QED
        BY <2>2, <2>3, <2>5, <3>5, <4>1, <4>2, <4>3 DEF Owns
    <3> QED
      BY <3>3, <3>4, <3>5
  <2> QED
    BY <1>4, <2>2, <2>6, <2>7
<1> QED
  BY <1>6, <1>7, <1>8, <1>9, <1>10, <1>11 DEF Step

\* An instance that is not excused goes on knowing each of its disks.
LEMMA TrackedStep ==
    ASSUME IInv, NEW s \in Storage, Step(s)
    PROVE  Tracked'
<1>1. /\ work \in [Storage -> Worker] /\ props \in [Storage -> Properties]
      /\ job \in [Storage -> Job] /\ excused \in SUBSET Storage
      /\ work[s].op \in {"create", "delete"} /\ props[s].file \in MaybeFile
      /\ props[s].pending \in MaybeFile /\ props[s].task \in BOOLEAN
      /\ work[s].plan.kind \in {"none", "add", "remove"}
      /\ job[s].plan.kind \in {"none", "add", "remove"}
  BY DEF IInv, Types, Worker, Properties, Job, Plan
<1>2. Planned(s) /\ Filed(s) /\ Named(s)
  BY DEF IInv, Stage
<1>3. /\ NoPlan.kind = "none" /\ NoJob.plan = NoPlan /\ NoJob.state = "none"
      /\ NoProps.pending = NoFile /\ NoProps.file = NoFile /\ NoProps.task = FALSE
  BY DEF NoPlan, NoJob, NoProps
<1>4. /\ \A u \in Storage \ excused : Tracks(u)
      /\ \A p \in lost : p.kind = "add" => p.by \in excused
  BY DEF IInv, Tracked
<1> DEFINE Local == /\ disk' = disk /\ lost' = lost /\ excused \subseteq excused'
                    /\ s \notin excused' => Tracks(s)'
<1>5. ASSUME NEW u \in Storage \ {s}, u \notin excused,
             \A f \in File : Made(u, f)' => Made(u, f),
             job[u].plan.kind = "remove" => job[u].plan.file \in File
      PROVE  Tracks(u)'
  <2>1. work'[u] = work[u] /\ props'[u] = props[u] /\ job'[u] = job[u]
    BY OthersKept DEF IInv
  <2> QED
    BY <1>4, <1>5, <2>1 DEF Tracks, Knows, Idle
<1>6. \A u \in Storage : job[u].plan.kind = "remove" => job[u].plan.file \in File
  BY DEF IInv, Units, Sound
<1>7. ASSUME disk' = disk, excused \subseteq excused', s \notin excused' => Tracks(s)'
      PROVE  \A u \in Storage \ excused' : Tracks(u)'
  BY <1>5, <1>6, <1>7 DEF Made
<1>8. ASSUME Local
      PROVE  Tracked'
  BY <1>4, <1>7, <1>8 DEF Tracked
<1>9. CASE Begin(s)
  BY <1>1, <1>2, <1>3, <1>4, <1>8, <1>9
  DEF Begin, MayBegin, Tracks, Knows, Made, Idle, Planned, Named, Filed
<1>10. CASE Wrapper(s)
  <2>1. CASE Dispatch(s)
    BY <1>1, <1>2, <1>3, <1>4, <1>8, <2>1
    DEF Dispatch, Goes, Tracks, Knows, Made, Idle, Planned, Named, Filed
  <2>2. CASE WaitTimesOut(s)
    <3>1. /\ work'[s].op = work[s].op /\ work'[s].plan = NoPlan
          /\ \/ work'[s].at = "dispatch"
             \/ work'[s].at = "idle" /\ work'[s].outcome = "failed"
          /\ work'[s].at = "idle" /\ work[s].op = "create" => s \in excused'
          /\ excused \subseteq excused' /\ work[s].at \in {"deferred", "poll"}
      BY <1>1, <2>2 DEF WaitTimesOut, Retries, Worker
    <3>2. props' = props /\ job' = job /\ disk' = disk /\ lost' = lost
      BY <2>2 DEF WaitTimesOut
    <3> QED
      BY <1>1, <1>2, <1>4, <1>8, <3>1, <3>2 DEF Tracks, Knows, Made, Idle
  <2>3. CASE DeferredReturns(s)
    BY <1>1, <1>2, <1>3, <1>4, <1>8, <2>3
    DEF DeferredReturns, ForgetsTask, Goes, Tracks, Knows, Made, Idle, Planned, Named, Filed
  <2>4. CASE DeferredFails(s)
    BY <1>1, <1>2, <1>3, <1>4, <1>8, <2>4
    DEF DeferredFails, ForgetsTask, Ends, Tracks, Knows, Made, Idle, Planned, Named, Filed
  <2>5. CASE Reconfigure(s)
    BY <1>1, <1>2, <1>3, <1>4, <1>8, <2>5
    DEF Reconfigure, Goes, Tracks, Knows, Made, Idle, Planned, Named, Filed
  <2>6. CASE SaveTask(s)
    BY <1>1, <1>2, <1>3, <1>4, <1>8, <2>6
    DEF SaveTask, Goes, Tracks, Knows, Made, Idle, Planned, Named, Filed
  <2>7. CASE WaitFails(s)
    BY <1>1, <1>2, <1>3, <1>4, <1>8, <2>7
    DEF WaitFails, ForgetsTask, Ends, Tracks, Knows, Made, Idle, Planned, Named, Filed
  <2> QED
    BY <1>10, <2>1, <2>2, <2>3, <2>4, <2>5, <2>6, <2>7 DEF Wrapper
<1>11. CASE Create(s)
  <2>1. CASE SkipCreate(s)
    BY <1>1, <1>2, <1>3, <1>4, <1>8, <2>1
    DEF SkipCreate, Ends, Tracks, Knows, Made, Idle, Planned, Named, Filed
  <2>2. CASE PickUp(s)
    BY <1>1, <1>2, <1>3, <1>4, <1>8, <2>2
    DEF PickUp, Tracks, Knows, Made, Idle, Planned, Named, Filed
  <2>3. CASE LookToAdd(s)
    BY <1>1, <1>2, <1>3, <1>4, <1>8, <2>3
    DEF LookToAdd, Tracks, Knows, Made, Idle, Planned, Named, Filed
  <2>4. CASE ControllerFull(s)
    BY <1>1, <1>2, <1>3, <1>4, <1>8, <2>4
    DEF ControllerFull, Ends, Tracks, Knows, Made, Idle, Planned, Named, Filed
  <2>5. CASE NoteName(s)
    BY <1>1, <1>2, <1>3, <1>4, <1>8, <2>5
    DEF NoteName, Goes, Tracks, Knows, Made, Idle, Planned, Named, Filed
  <2>6. CASE AddReturns(s)
    BY <1>1, <1>2, <1>3, <1>4, <1>8, <2>6
    DEF AddReturns, ForgetsTask, Goes, Tracks, Knows, Made, Idle, Planned, Named, Filed
  <2>7. CASE NameClash(s)
    <3>1. /\ work'[s].op = work[s].op
          /\ \/ work'[s].at = "dispatch"
             \/ work'[s].at = "idle" /\ work'[s].outcome = "failed"
          /\ excused \subseteq excused' /\ work[s].at = "poll" /\ job[s].state = "clash"
      BY <1>1, <2>7 DEF NameClash, Retries, Worker
    <3>2. /\ job'[s] = NoJob /\ disk' = disk /\ lost' = lost
          /\ props'[s].file = props[s].file /\ props'[s].pending = props[s].pending
      BY <1>1, <2>7 DEF NameClash, ForgetsTask, Properties
    <3>3. s \notin excused' => work[s].op = "delete"
      BY <1>1, <1>2, <1>4, <3>1 DEF Tracks, Planned
    <3> QED
      BY <1>1, <1>2, <1>3, <1>4, <1>8, <3>1, <3>2, <3>3 DEF Tracks, Knows, Made, Idle
  <2>8. CASE ForgetName(s)
    BY <1>1, <1>2, <1>3, <1>4, <1>8, <2>8
    DEF ForgetName, Goes, Tracks, Knows, Made, Idle, Planned, Named, Filed
  <2>9. CASE Finish(s)
    BY <1>1, <1>2, <1>3, <1>4, <1>8, <2>9
    DEF Finish, Tracks, Knows, Made, Idle, Planned, Named, Filed
  <2>10. CASE CreateReturns(s)
    BY <1>1, <1>2, <1>3, <1>4, <1>8, <2>10
    DEF CreateReturns, Ends, Tracks, Knows, Made, Idle, Planned, Named, Filed
  <2>11. CASE NotFound(s)
    BY <1>1, <1>2, <1>3, <1>4, <1>8, <2>11
    DEF NotFound, Ends, Tracks, Knows, Made, Idle, Planned, Named, Filed
  <2> QED
    BY <1>11, <2>1, <2>2, <2>3, <2>4, <2>5, <2>6, <2>7, <2>8, <2>9, <2>10, <2>11 DEF Create
<1>12. CASE Delete(s)
  <2>1. CASE SkipDelete(s)
    BY <1>1, <1>2, <1>3, <1>4, <1>8, <2>1
    DEF SkipDelete, Deleted, Ends, Tracks, Knows, Made, Idle, Planned, Named, Filed
  <2>2. CASE AlreadyRemoved(s)
    <3>1. /\ work[s].at = "body" /\ work[s].op = "delete" /\ props[s].file \notin Taken
          /\ disk' = disk /\ lost' = lost /\ excused' = excused /\ job' = job
      BY <2>2 DEF AlreadyRemoved
    <3>2. props'[s] = NoProps
      BY <1>1, <2>2 DEF AlreadyRemoved, Deleted
    <3>3. job[s].plan.kind = "none"
      BY <1>2, <1>3, <3>1 DEF Planned, Filed
    <3>4. s \notin excused => \A f \in File : ~Made(s, f)
      BY <1>4, <3>1, StorageDisksAssumption DEF Tracks, Knows, Made, Taken, File, NoFile
    <3> QED
      BY <1>3, <1>8, <3>1, <3>2, <3>3, <3>4 DEF Tracks, Made
  <2>3. CASE LookToRemove(s)
    BY <1>1, <1>2, <1>3, <1>4, <1>8, <2>3
    DEF LookToRemove, Tracks, Knows, Made, Idle, Planned, Named, Filed
  <2>4. CASE RemoveReturns(s)
    BY <1>1, <1>2, <1>3, <1>4, <1>8, <2>4
    DEF RemoveReturns, Deleted, Ends, Tracks, Knows, Made, Idle, Planned, Named, Filed
  <2> QED
    BY <1>12, <2>1, <2>2, <2>3, <2>4 DEF Delete
<1>13. CASE Crash(s)
  <2>1. /\ work'[s].at = "dispatch" /\ work'[s].op = work[s].op
        /\ props' = props /\ disk' = disk
    BY <1>1, <1>13 DEF Crash, Worker
  <2>2. /\ work[s].at \in {"note", "save"} => job'[s] = NoJob
        /\ work[s].at \notin {"note", "save"} => job' = job
        /\ \A p \in lost' \ lost :
              p = job[s].plan /\ job[s].state = "running" /\ work[s].at \in {"note", "save"}
        /\ excused \subseteq excused'
        /\ s \notin excused' =>
              /\ work[s].at \notin {"idle", "note", "find"}
              /\ work[s].at = "save" /\ work[s].op = "create" => job[s].state # "running"
    BY <1>1, <1>13 DEF Crash
  <2>3. \A p \in lost' : p.kind = "add" => p.by \in excused'
    <3> SUFFICES ASSUME NEW p \in lost' \ lost, p.kind = "add"
                 PROVE  p.by \in excused'
      BY <1>4, <2>2
    <3>1. job[s].plan.by = s /\ work[s].plan.kind = "add" /\ work[s].op = "create"
      BY <1>1, <1>2, <2>2 DEF Planned
    <3> QED
      BY <2>2, <3>1
  <2>4. ASSUME s \notin excused'
        PROVE  Tracks(s)'
    <3>1. Tracks(s) /\ work[s].at \notin {"idle", "note", "find"}
      BY <1>4, <2>2, <2>4
    <3>2. \A f \in File : Knows(s, f) => Knows(s, f)'
      BY <2>1, <3>1 DEF Knows
    <3> QED
      BY <1>3, <2>1, <2>2, <3>1, <3>2 DEF Tracks, Made, Idle, Knows
  <2>5. \A u \in Storage \ excused' : Tracks(u)'
    BY <1>7, <2>1, <2>2, <2>4
  <2> QED
    BY <2>3, <2>5 DEF Tracked
<1>14. CASE TaskEnds(s)
  <2>1. PICK result \in Results(job[s].plan) :
          /\ disk' = Reconfigured(job[s].plan, result)
          /\ job' = [job EXCEPT ![s].state = result]
          /\ excused' = excused \union Spoils(job[s].plan, result)
    BY <1>14 DEF TaskEnds
  <2> DEFINE p == job[s].plan
  <2>2. /\ work' = work /\ props' = props /\ lost' = lost
        /\ job[s].state = "running"
    BY <1>14 DEF TaskEnds
  <2>3. job'[s].plan = p /\ job'[s].state = result
    BY <1>1, <2>1 DEF Job
  <2>4. p \in Plan /\ Sound(p) /\ p.kind # "none" /\ (p.kind = "add" => p.by = s)
    BY <1>1, <1>2, <2>2 DEF IInv, Units, Planned, Job
  <2>5. /\ \A f \in File \ {p.file} : disk'[f] = disk[f]
        /\ result # "success" => disk' = disk
        /\ result = "success" /\ p.kind = "add" => disk'[p.file].by = s
        /\ result = "success" /\ p.kind = "remove" => disk'[p.file].by = Nobody
    <3>1. Types /\ Units
      BY DEF IInv
    <3> HIDE DEF p
    <3>2. disk' = Reconfigured(p, result) /\ result \in Results(p)
      BY <2>1 DEF p
    <3>3. /\ \A f \in File \ {p.file} : disk'[f] = disk[f]
          /\ result # "success" => disk' = disk
          /\ result = "success" /\ p.kind = "add" =>
                p.file \notin Taken /\ disk'[p.file] = [by |-> p.by, unit |-> p.unit]
          /\ result = "success" /\ p.kind = "remove" => disk'[p.file].by = Nobody
      BY <2>4, <3>1, <3>2, DiskStep
    <3> QED
      BY <2>4, <3>3
  <2>6. p.kind \in {"add", "remove"} /\ p.file \in File
    BY <1>1, <2>4 DEF Sound
  <2>7. \A u \in Storage \ {s}, f \in File : Made(u, f)' => Made(u, f)
    BY <2>5, <2>6, StorageDisksAssumption DEF Made
  <2>8. excused \subseteq excused'
    BY <2>1
  <2>9. ASSUME s \notin excused'
        PROVE  Tracks(s)'
    <3>1. Tracks(s)
      BY <1>4, <2>8, <2>9
    <3>2. p.kind = "add" => result = "success"
      BY <2>1, <2>4, <2>9 DEF Spoils
    <3>3. \A f \in File : Made(s, f)' => Made(s, f) \/ (p.kind = "add" /\ f = p.file)
      BY <2>5, <2>6, StorageDisksAssumption DEF Made
    <3>4. p.kind = "remove" /\ result = "success" => ~Made(s, p.file)'
      BY <2>3, <2>5, StorageDisksAssumption DEF Made
    <3> HIDE DEF p
    <3>5. \A f \in File : Knows(s, f)' <=> Knows(s, f)
      BY <2>2 DEF Knows
    <3> QED
      BY <2>2, <2>3, <2>6, <3>1, <3>2, <3>3, <3>4, <3>5 DEF Tracks, Idle, p
  <2> QED
    BY <1>4, <1>5, <1>6, <2>2, <2>7, <2>8, <2>9 DEF Tracked
<1> QED
  BY <1>9, <1>10, <1>11, <1>12, <1>13, <1>14 DEF Step

\* A task that a crash lost changes the disks and the histories only: an add of its is one
\* of an instance that is excused.
LEMMA LostTaskEndsStep ==
    ASSUME IInv, LostTaskEnds
    PROVE  IInv'
<1>0. PICK p \in lost : \E result \in Results(p) :
        /\ disk' = Reconfigured(p, result)
        /\ lost' = lost \ {p}
        /\ excused' = excused \union Spoils(p, result)
        /\ doubtful' = (doubtful \/ Spoils(p, result) # {})
  BY DEF LostTaskEnds
<1>1. PICK result \in Results(p) :
        /\ disk' = Reconfigured(p, result)
        /\ lost' = lost \ {p}
        /\ excused' = excused \union Spoils(p, result)
        /\ doubtful' = (doubtful \/ Spoils(p, result) # {})
  BY <1>0
<1>2. work' = work /\ props' = props /\ job' = job
  BY DEF LostTaskEnds
<1>3. /\ Types /\ Units /\ p \in Plan /\ Sound(p) /\ p.kind # "none"
      /\ p.kind = "add" => p.by \in excused
  BY DEF IInv, Types, Units, Tracked
<1>4. /\ \A f \in File \ {p.file} : disk'[f] = disk[f]
      /\ result # "success" => disk' = disk
      /\ result = "success" /\ p.kind = "add" =>
            p.file \notin Taken /\ disk'[p.file] = [by |-> p.by, unit |-> p.unit]
      /\ result = "success" /\ p.kind = "remove" => disk'[p.file].by = Nobody
      /\ \A f \in Taken' : disk'[f].unit \in Usable
      /\ \A f, g \in Taken' : disk'[f].unit = disk'[g].unit => f = g
  BY <1>1, <1>3, DiskStep
<1>5. Spoils(p, result) \subseteq excused
  BY <1>3 DEF Spoils
<1>6. Types'
  <2>1. disk' \in [File -> [by : Storage \union {Nobody}, unit : Unit]]
    BY <1>1, <1>3, ReconfiguredType
  <2> QED
    BY <1>1, <1>2, <1>3, <1>5, <2>1 DEF Types
<1>7. Units'
  BY <1>1, <1>2, <1>3, <1>4 DEF Units
<1>8. Stage'
  BY <1>2 DEF IInv, Stage, Planned, Filed, Named, Idle
<1>9. Owned'
  <2>1. doubtful /\ doubtful'
    BY <1>1, <1>3 DEF IInv, Owned, Types
  <2> QED
    BY <2>1 DEF Owned
<1>10. Tracked'
  <2>1. excused' = excused
    BY <1>1, <1>5
  <2>2. p.kind \in {"add", "remove"} /\ p.file \in File
    BY <1>3 DEF Sound, Plan
  <2>3. ASSUME NEW u \in Storage \ excused, NEW f \in File, Made(u, f)'
        PROVE  Made(u, f)
    BY <1>3, <1>4, <2>2, <2>3, StorageDisksAssumption DEF Made
  <2>4. \A u \in Storage : job[u].plan.kind = "remove" => job[u].plan.file \in File
    BY <1>3 DEF Units, Sound
  <2>5. ASSUME NEW u \in Storage \ excused
        PROVE  Tracks(u)'
    <3>1. Tracks(u)
      BY DEF IInv, Tracked
    <3> QED
      BY <1>2, <2>3, <2>4, <3>1 DEF Tracks, Knows, Idle
  <2>6. \A q \in lost' : q.kind = "add" => q.by \in excused'
    BY <1>1, <2>1 DEF IInv, Tracked
  <2> QED
    BY <2>1, <2>5, <2>6 DEF Tracked
<1> QED
  BY <1>6, <1>7, <1>8, <1>9, <1>10 DEF IInv

LEMMA InvariantInit ==
    ASSUME Init
    PROVE  IInv
<1> USE DEF Init
<1>1. /\ \A s \in Storage : work[s] = [op |-> "delete", at |-> "idle", outcome |-> "ok",
                                       plan |-> NoPlan]
      /\ \A s \in Storage : props[s] = NoProps /\ job[s] = NoJob
      /\ \A f \in File : disk[f].by = Nobody
  BY DEF Free
<1>2. Types
  <2>1. /\ NoPlan \in Plan /\ NoProps \in Properties
        /\ Free \in [by : Storage \union {Nobody}, unit : Unit]
    BY DEF NoPlan, Plan, NoProps, Properties, MaybeFile, Free, Unit
  <2>2. /\ NoJob \in Job
        /\ [op |-> "delete", at |-> "idle", outcome |-> "ok", plan |-> NoPlan] \in Worker
    BY <2>1 DEF NoJob, Job, JobState, Worker, Place
  <2> QED
    BY <2>1, <2>2 DEF Types
<1>3. Units
  BY <1>1 DEF Units, Taken, Sound, NoPlan, NoJob
<1>4. Stage
  BY <1>1 DEF Stage, Planned, Filed, Named, NoPlan, NoProps, NoJob, Idle
<1>5. Owned
  BY <1>1 DEF Owned, Owns, NoPlan, NoProps, NoJob
<1>6. Tracked
  BY <1>1, StorageDisksAssumption DEF Tracked, Tracks, Made, Knows, NoPlan, NoProps, NoJob, Idle
<1> QED
  BY <1>2, <1>3, <1>4, <1>5, <1>6 DEF IInv

LEMMA InvariantStutter ==
    ASSUME IInv, UNCHANGED vars
    PROVE  IInv'
BY DEF vars, IInv, Types, Units, Sound, Taken, Stage, Planned, Filed, Named, Idle, Owned, Owns,
   Made, Tracked, Tracks, Knows

-----------------------------------------------------------------------------
(* Theorems *)

\* The invariant holds in every state, whatever the storages, their tasks, vSphere and
\* crashes do: distinct units, stored names that mean disks of their instance unless a
\* history is doubtful, and no disk its instance does not know unless it is excused.
THEOREM Invariance == Spec => []IInv
<1>1. Init => IInv
  BY InvariantInit
<1>2. IInv /\ [Next]_vars => IInv'
  <2> SUFFICES ASSUME IInv, [Next]_vars
               PROVE  IInv'
    OBVIOUS
  <2>1. CASE LostTaskEnds
    BY <2>1, LostTaskEndsStep
  <2>2. CASE UNCHANGED vars
    BY <2>2, InvariantStutter
  <2>3. ASSUME NEW s \in Storage, Step(s)
        PROVE  IInv'
    BY <2>3, TypesStep, UnitsStep, StageStep, OwnedStep, TrackedStep DEF IInv
  <2> QED
    BY <2>1, <2>2, <2>3 DEF Next, Step
<1> QED
  BY <1>1, <1>2, PTL DEF Spec

\* Every variable always has its type, and no disk is asked for at the unit of the
\* controller or beyond the last, for every size of the controller: the number of disks
\* that are there (Devices) always gives a unit a disk may have.
THEOREM TypeCorrect == Spec => []TypeOK
<1>1. IInv => TypeOK
  <2> SUFFICES ASSUME IInv
               PROVE  TypeOK
    OBVIOUS
  <2>1. /\ disk \in [File -> [by : Storage \union {Nobody}, unit : Unit]]
        /\ props \in [Storage -> [pending : MaybeFile, file : MaybeFile, task : BOOLEAN]]
        /\ excused \subseteq Storage
    BY DEF IInv, Types, Properties
  <2>2. ASSUME NEW s \in Storage
        PROVE  /\ work[s].at \in Place /\ work[s].plan \in Plan /\ job[s].state \in JobState
               /\ work[s].plan.kind = "add" => work[s].plan.unit # Reserved
    <3>1. work[s] \in Worker /\ job[s] \in Job /\ Sound(work[s].plan)
      BY DEF IInv, Types, Units
    <3> QED
      BY <3>1 DEF Worker, Job, Sound, Usable
  <2> QED
    BY <2>1, <2>2 DEF TypeOK
<1> QED
  BY <1>1, Invariance, PTL

\* No two disks of the server share a unit, however create and delete of the storages
\* interleave, and the controller's own unit is never taken.
THEOREM UnitsAreDistinct ==
    Spec => [](\A f, g \in Taken : /\ disk[f].unit = disk[g].unit => f = g
                                   /\ disk[f].unit # Reserved)
<1>1. IInv => \A f, g \in Taken : /\ disk[f].unit = disk[g].unit => f = g
                                  /\ disk[f].unit # Reserved
  BY DEF IInv, Units, Usable
<1> QED
  BY <1>1, Invariance, PTL

\* Two storages of one server never get hold of each other's disks, for any number of
\* storages, retries and crashes: as long as no adding task failed or was lost and no
\* removal was broken off, a storage that is created has a disk it made itself.
THEOREM DisksAreOwn == Spec => []OwnDisk
<1>1. IInv => OwnDisk
  <2> SUFFICES ASSUME IInv, ~doubtful, NEW s \in Storage, Idle(s, "create")
               PROVE  disk[props[s].file].by = s
    BY DEF OwnDisk
  <2>1. Owns(s) /\ Planned(s) /\ Named(s)
    BY DEF IInv, Owned, Stage
  <2> QED
    BY <2>1 DEF Owns, Planned, Named, Made, Idle
<1> QED
  BY <1>1, Invariance, PTL

\* After a delete that worked the storage has no disk left, for any number of crashes,
\* unless it is excused: it ran out of retries, a task of its failed or was lost, or it
\* broke off with neither of its names stored.
THEOREM NoDiskIsLeft == Spec => []NoDiskLeft
<1>1. IInv => NoDiskLeft
  <2> SUFFICES ASSUME IInv, NEW s \in Storage \ excused, Idle(s, "delete"), NEW f \in Taken
               PROVE  disk[f].by # s
    BY DEF NoDiskLeft
  <2>1. Tracks(s)
    BY DEF IInv, Tracked
  <2> QED
    BY <2>1 DEF Tracks, Knows, Made, Idle, Taken, File, NoFile
<1> QED
  BY <1>1, Invariance, PTL

=============================================================================
