----------------------------- MODULE ServerUpdate -----------------------------
(***************************************************************************)
(* How a running server follows its node properties: poststart notes the   *)
(* expected configuration, check_drift compares and flags what has to      *)
(* change, update changes it, one Reconfigure task after the other, and    *)
(* resize_server changes CPUs and memory on request.  The same three       *)
(* operations of a storage, which have no flags, are here too: its size is *)
(* the kind "disk".                                                        *)
(*                                                                         *)
(* Node properties change (deployment update) while no operation runs.     *)
(***************************************************************************)
EXTENDS Naturals, Sequences

CONSTANTS
    Option,     \* keys of extra_config
    Value,      \* what a setting can be
    Empty,      \* an option that is not there, or blank
    Unset,      \* the node property is not set
    Missing,    \* not in expected_configuration, or not in a task
    MaxChanges, \* bound on changes of wishes, by hand, and on request
    MaxFaults   \* bound on crashes

ASSUME ServerUpdateAssumption ==
    /\ Option # {}
    /\ Option \cap {"spec", "disk", "extra", "nets"} = {}
    /\ Empty \in Value
    /\ {Unset, Missing} \cap Value = {}
    /\ MaxChanges \in Nat
    /\ MaxFaults \in Nat

\* The order in which update goes through the changes.
Stages == <<"spec", "disk", "extra", "nets">>
Kind == {"spec", "disk", "extra", "nets"}

\* extra_config is a setting for each option.
Setting == (Kind \ {"extra"}) \union Option
Part(k) == IF k = "extra" THEN Option ELSE {k}
KindOf(s) == IF s \in Option THEN "extra" ELSE s

VARIABLES
    storage,    \* this instance is a storage, not a server
    want,       \* node properties
    machine,    \* what is really there
    expected,   \* runtime property expected_configuration (VSPHERE_STORAGE_SIZE)
    networks,   \* runtime property networks: the cards with their MACs
    flags,      \* stored flags spec_update, disk_size_update, ...
    saved,      \* a task id is stored
    task,       \* the Reconfigure task
    lost,       \* running tasks whose id a crash lost
    work,       \* what the worker does
    unrecorded, \* history: settings that a task has changed, and nobody recorded
    dropped,    \* history: options that a change of networks dropped from the record
    masked,     \* history: settings whose difference may go unnoticed
    changes, faults

vars == <<storage, want, machine, expected, networks, flags, saved, task, lost,
          work, unrecorded, dropped, masked, changes, faults>>

\* For the actions that leave the histories alone.
history == <<unrecorded, dropped, masked>>

Operation == {"check", "update", "resize"}
Place == {"idle", "dispatch", "deferred", "body", "next", "save", "poll", "record"}
Outcome == {"none", "drift", "ok", "failed"}

NoTask == [state |-> "none", config |-> [s \in Setting |-> Missing]]

\* due: the flags update has popped and not dealt with, asked: all that was.
\* value: what resize was asked for.  again: not the first attempt.
Idle == [op |-> "check", at |-> "idle", due |-> {}, asked |-> {}, kind |-> "spec",
         value |-> Empty, again |-> FALSE, outcome |-> "none"]

\* After install: the clone was given the options, and poststart has run.  (A
\* storage stores its size in create.)
Init ==
    /\ storage \in BOOLEAN
    /\ machine \in [Setting -> Value]
    /\ \A s \in Setting : machine[s] # Empty => s \in Option /\ ~storage
    /\ LET asked == {Empty} \union (IF storage THEN {} ELSE {Unset})
       IN  \E d, s \in asked : want = [machine EXCEPT !.disk = d, !.spec = s]
    /\ expected = machine
    /\ networks = machine.nets
    /\ flags = {}
    /\ saved = FALSE
    /\ task = NoTask
    /\ lost = {}
    /\ work = Idle
    /\ unrecorded = {}
    /\ dropped = {}
    /\ masked = {}
    /\ changes = 0
    /\ faults = 0

-----------------------------------------------------------------------------
(* check_drift *)

Recorded(s) == IF s \in Option /\ expected[s] = Missing THEN Empty ELSE expected[s]

\* What check_drift finds.  Only the network cards of the machine are looked at;
\* the rest is compared with what was recorded.
Noticed(s) ==
    IF s = "nets" THEN machine.nets # want.nets \/ networks # machine.nets
    ELSE want[s] \notin {Unset, Recorded(s)}

NoticedKinds == {KindOf(s) : s \in {s \in Setting : Noticed(s)}}

\* expected_configuration['disk_size'] after update has dropped it: KeyError.
Stuck == ~storage /\ want.disk # Unset /\ expected.disk = Missing

\* "general case drift": the recorded configuration against one that has the
\* network and the summary only.
GeneralDrift ==
    \/ \E s \in Option \union {"disk"} : expected[s] # Missing
    \/ \E s \in {"spec", "nets"} : expected[s] # machine[s]

Runs(op) == work' = [Idle EXCEPT !.op = op, !.at = "dispatch"]
Checked(outcome) == work' = [Idle EXCEPT !.outcome = outcome]

CheckServer ==
    /\ work.at = "idle"
    /\ ~storage
    /\ ~Stuck
    /\ flags' = flags \union NoticedKinds
    /\ Checked(IF NoticedKinds # {} \/ GeneralDrift THEN "drift" ELSE "ok")
    /\ UNCHANGED <<storage, want, machine, expected, networks, saved, task, lost,
                   history, changes, faults>>

\* The flags set before the exception are stored.
CheckBreaks ==
    /\ work.at = "idle"
    /\ Stuck
    /\ flags' = flags \union (NoticedKinds \cap {"nets", "spec"})
    /\ Checked("failed")
    /\ UNCHANGED <<storage, want, machine, expected, networks, saved, task, lost,
                   history, changes, faults>>

CheckStorage ==
    /\ work.at = "idle"
    /\ storage
    /\ Checked(IF Noticed("disk") THEN "drift" ELSE "ok")
    /\ UNCHANGED <<storage, want, machine, expected, networks, flags, saved, task,
                   lost, history, changes, faults>>

-----------------------------------------------------------------------------
(* update and resize: attempts *)

\* The workflow runs update where drift was reported.
BeginUpdate ==
    /\ work.at = "idle"
    /\ work.op = "check"
    /\ work.outcome = "drift"
    /\ Runs("update")
    /\ UNCHANGED <<storage, want, machine, expected, networks, flags, saved, task,
                   lost, history, changes, faults>>

\* Somebody executes resize_server: cut short, it leaves a machine that differs
\* from its record.
BeginResize ==
    /\ work.at = "idle"
    /\ ~storage
    /\ changes < MaxChanges
    /\ changes' = changes + 1
    /\ \E v \in Value :
          work' = [Idle EXCEPT !.op = "resize", !.at = "dispatch", !.value = v]
    /\ masked' = masked \union {"spec"}
    /\ UNCHANGED <<storage, want, machine, expected, networks, flags, saved, task,
                   lost, unrecorded, dropped, faults>>

Goes(place) == work' = [work EXCEPT !.at = place]

Ends(outcome) ==
    work' = [work EXCEPT !.at = "idle", !.outcome = outcome, !.due = {}]

\* OperationRetry; Cloudify may retry no more.
Retries == work' \in {[work EXCEPT !.at = "dispatch", !.due = {}, !.again = TRUE],
                      [work EXCEPT !.at = "idle", !.due = {}, !.outcome = "failed"]}

\* run_deferred_task.
Dispatch ==
    /\ work.at = "dispatch"
    /\ Goes(IF saved THEN "deferred" ELSE "body")
    /\ UNCHANGED <<storage, want, machine, expected, networks, flags, saved, task,
                   lost, history, changes, faults>>

\* All the flags are popped, in memory.  A storage has none: its size is due.
UpdateBegins ==
    /\ work.at = "body"
    /\ LET due == IF work.op = "resize" THEN {"spec"}
                  ELSE IF storage THEN {"disk"} ELSE flags
       IN work' = [work EXCEPT !.at = "next", !.due = due, !.asked = @ \union due]
    /\ UNCHANGED <<storage, want, machine, expected, networks, flags, saved, task,
                   lost, history, changes, faults>>

First(due) == Stages[CHOOSE i \in 1 .. Len(Stages) :
    /\ Stages[i] \in due
    /\ \A j \in 1 .. (i - 1) : Stages[j] \notin due]

Goal(s) == IF work.op = "resize" THEN work.value ELSE want[s]

\* Mutant: a spec that is not set is not left alone.
NothingToDoIfEqual(k) ==
    CASE k = "spec" -> Goal(k) = machine.spec
      [] k = "disk" -> storage /\ Goal(k) = machine.disk
      [] k = "extra" -> FALSE
      [] k = "nets" -> ~Noticed("nets")

\* A size that is there already, or cards as they should be, need no task; a disk
\* size and extra_config of a server are always set.
NothingToDo(k) ==
    CASE k = "spec" -> Goal(k) \in {machine.spec, Unset}
      [] k = "disk" -> storage /\ Goal(k) = machine.disk
      [] k = "extra" -> FALSE
      [] k = "nets" -> ~Noticed("nets")

\* Mutant: an option that is no longer wished is left alone.
OnlyWished(k) ==
    [s \in Setting |->
        IF s \in Part(k) /\ (s \in Option => Goal(s) # Empty) THEN Goal(s) ELSE Missing]

\* An option that is no longer wished is blanked if it was recorded and is there.
Blanked(o) == Recorded(o) # Empty /\ machine[o] # Empty

\* The specification of the task: what is to be set.
ConfigSpec(k) ==
    [s \in Setting |->
        IF s \in Part(k) /\ (s \in Option => Goal(s) # Empty \/ Blanked(s))
        THEN Goal(s) ELSE Missing]

\* Mutant: one change at a time, the others are left for the next update.
ChangeOnly ==
    /\ work.at = "next"
    /\ work.due # {}
    /\ LET k == First(work.due) IN
       /\ ~NothingToDo(k)
       /\ k = "disk" => Goal(k) # Unset
       /\ task' = [state |-> "running", config |-> ConfigSpec(k)]
       /\ work' = [work EXCEPT !.at = "save", !.kind = k, !.due = {k}]
    /\ UNCHANGED <<storage, want, machine, expected, networks, flags, saved, lost,
                   history, changes, faults>>

Change ==
    /\ work.at = "next"
    /\ work.due # {}
    /\ LET k == First(work.due) IN
       /\ ~NothingToDo(k)
       /\ k = "disk" => Goal(k) # Unset
       /\ task' = [state |-> "running", config |-> ConfigSpec(k)]
       /\ work' = [work EXCEPT !.at = "save", !.kind = k]
    /\ UNCHANGED <<storage, want, machine, expected, networks, flags, saved, lost,
                   history, changes, faults>>

NoChange ==
    /\ work.at = "next"
    /\ work.due # {}
    /\ LET k == First(work.due) IN
       /\ NothingToDo(k)
       /\ work' = [work EXCEPT !.at = "record", !.kind = k]
    /\ UNCHANGED <<storage, want, machine, expected, networks, flags, saved, task,
                   lost, history, changes, faults>>

\* The size was unset after it had been flagged: TypeError, which is retried; but
\* the flags are gone.  (A storage does not get here: without a size no drift.)
ChangeBreaks ==
    /\ work.at = "next"
    /\ work.due # {}
    /\ First(work.due) = "disk"
    /\ Goal("disk") = Unset
    /\ flags' = {}
    /\ Retries
    /\ UNCHANGED <<storage, want, machine, expected, networks, saved, task, lost,
                   history, changes, faults>>

\* What is stored in an attempt of update no longer has the flags.
Stored == IF work.op = "update" THEN {} ELSE flags

SaveTask ==
    /\ work.at = "save"
    /\ saved' = TRUE
    /\ flags' = Stored
    /\ Goes("poll")
    /\ UNCHANGED <<storage, want, machine, expected, networks, task, lost, history,
                   changes, faults>>

WaitTimesOut ==
    /\ work.at \in {"deferred", "poll"}
    /\ task.state = "running"
    /\ Retries
    /\ UNCHANGED <<storage, want, machine, expected, networks, flags, saved, task,
                   lost, history, changes, faults>>

WaitEnds ==
    /\ work.at \in {"deferred", "poll"}
    /\ task.state \in {"success", "error"}
    /\ saved' = FALSE
    /\ task' = NoTask
    /\ IF task.state = "error" THEN Ends("failed")
       ELSE Goes(IF work.at = "deferred" THEN "body" ELSE "record")
    /\ UNCHANGED <<storage, want, machine, expected, networks, flags, lost, history,
                   changes, faults>>

\* What update records of one change.  The configuration recorded with networks
\* has no disk_size and no extra_config.
RecordedAfter(k) ==
    [s \in Setting |->
        IF k = "nets" THEN (IF s \in {"spec", "nets"} THEN machine[s] ELSE Missing)
        ELSE IF s \in Part(k) THEN Goal(s) ELSE expected[s]]

\* The options of which the record will not say that update has set them.
DroppedAfter(k) ==
    CASE k = "nets" -> dropped \union {o \in Option : Recorded(o) # Empty}
      [] k = "extra" -> {o \in dropped : Goal(o) = Empty}
      [] OTHER -> dropped

Record ==
    /\ work.at = "record"
    /\ expected' = RecordedAfter(work.kind)
    /\ networks' = IF work.kind = "nets" THEN machine.nets ELSE networks
    /\ flags' = Stored
    /\ work' = [work EXCEPT !.at = "next", !.due = @ \ {work.kind}]
    /\ unrecorded' = unrecorded \ Part(work.kind)
    /\ dropped' = DroppedAfter(work.kind)
    /\ masked' = masked \ {s \in Part(work.kind) : machine[s] = Goal(s)}
    /\ UNCHANGED <<storage, want, machine, saved, task, lost, changes, faults>>

Return ==
    /\ work.at = "next"
    /\ work.due = {}
    /\ flags' = Stored
    /\ Ends("ok")
    /\ UNCHANGED <<storage, want, machine, expected, networks, saved, task, lost,
                   history, changes, faults>>

\* Only what is stored survives.
Crash ==
    /\ work.at \notin {"idle", "dispatch"}
    /\ faults < MaxFaults
    /\ faults' = faults + 1
    /\ work' = [work EXCEPT !.at = "dispatch", !.due = {}, !.again = TRUE]
    /\ lost' = IF work.at = "save" /\ task.state = "running" THEN lost \union {task}
               ELSE lost
    /\ task' = IF work.at = "save" THEN NoTask ELSE task
    /\ UNCHANGED <<storage, want, machine, expected, networks, flags, saved, history,
                   changes>>

-----------------------------------------------------------------------------
(* vSphere, and the people around *)

Changed(t) == {s \in Setting : t.config[s] # Missing}

\* What the specification does not name stays.
Reconfigured(t) ==
    [s \in Setting |-> IF s \in Changed(t) THEN t.config[s] ELSE machine[s]]

TaskEnds ==
    /\ task.state = "running"
    /\ \/ /\ task' = [task EXCEPT !.state = "success"]
          /\ machine' = Reconfigured(task)
          /\ unrecorded' = unrecorded \union Changed(task)
       \/ /\ task' = [task EXCEPT !.state = "error"]
          /\ UNCHANGED <<machine, unrecorded>>
    /\ UNCHANGED <<storage, want, expected, networks, flags, saved, lost, work,
                   dropped, masked, changes, faults>>

Mask(settings) == masked' = masked \union settings

\* The task may change these settings yet.
Pending == IF task.state = "running" THEN Changed(task) ELSE {}

LostTaskEnds ==
    /\ \E t \in lost :
          /\ lost' = lost \ {t}
          /\ \/ UNCHANGED <<machine, masked>>
             \/ machine' = Reconfigured(t) /\ Mask(Changed(t))
    /\ UNCHANGED <<storage, want, expected, networks, flags, saved, task, work,
                   unrecorded, dropped, changes, faults>>

\* A change by hand.
Meddle ==
    /\ changes < MaxChanges
    /\ changes' = changes + 1
    /\ \E s \in Setting, v \in Value :
          /\ v # machine[s]
          /\ machine' = [machine EXCEPT ![s] = v]
          /\ Mask({s})
    /\ UNCHANGED <<storage, want, expected, networks, flags, saved, task, lost,
                   work, unrecorded, dropped, faults>>

\* A deployment update.  A wish that is taken back, so that it agrees with the
\* record again, hides what a task has made of the setting, or will.
WantChanges ==
    /\ work.at = "idle"
    /\ changes < MaxChanges
    /\ changes' = changes + 1
    /\ \E s \in IF storage THEN {"disk"} ELSE Setting :
       \E v \in Value \union (IF s \in {"spec", "disk"} THEN {Unset} ELSE {}) :
          /\ v # want[s]
          /\ want' = [want EXCEPT ![s] = v]
          /\ Mask(IF v = Recorded(s) THEN {s} \cap (unrecorded \union Pending) ELSE {})
    /\ work' = [work EXCEPT !.outcome = "none"]
    /\ UNCHANGED <<storage, machine, expected, networks, flags, saved, task, lost,
                   unrecorded, dropped, faults>>

\* start runs again, and with it poststart: it records the node's extra_config,
\* whatever the machine has.
Poststart ==
    /\ work.at = "idle"
    /\ ~storage
    /\ expected' = [s \in Setting |-> IF s \in Option THEN want[s] ELSE machine[s]]
    /\ unrecorded' = {}
    /\ dropped' = {o \in dropped : want[o] = Empty}
    /\ Mask(Pending \union {o \in Option : machine[o] # want[o]})
    /\ UNCHANGED <<storage, want, machine, networks, flags, saved, task, lost, work,
                   changes, faults>>

Attempt ==
    \/ Dispatch
    \/ UpdateBegins
    \/ Change
    \/ NoChange
    \/ ChangeBreaks
    \/ SaveTask
    \/ WaitTimesOut
    \/ WaitEnds
    \/ Record
    \/ Return

Next ==
    \/ CheckServer
    \/ CheckBreaks
    \/ CheckStorage
    \/ BeginUpdate
    \/ BeginResize
    \/ Attempt
    \/ Crash
    \/ TaskEnds
    \/ LostTaskEnds
    \/ Meddle
    \/ WantChanges
    \/ Poststart

Spec == Init /\ [][Next]_vars

-----------------------------------------------------------------------------
(* Properties *)

Task == [state : {"none", "running", "success", "error"},
         config : [Setting -> Value \union {Missing}]]

\* The variables stay within their types, a stored id is that of a task, and no
\* task is given a value that is not set.
TypeOK ==
    /\ storage \in BOOLEAN
    /\ machine \in [Setting -> Value]
    /\ want \in [Setting -> Value \union {Unset}]
    /\ expected \in [Setting -> Value \union {Unset, Missing}]
    /\ networks \in Value
    /\ flags \in SUBSET Kind
    /\ task \in Task
    /\ lost \in SUBSET Task
    /\ work \in [op : Operation, at : Place, due : SUBSET Kind, asked : SUBSET Kind,
                 kind : Kind, value : Value, again : BOOLEAN, outcome : Outcome]
    /\ work.due \subseteq work.asked
    /\ saved \in BOOLEAN
    /\ saved => task.state # "none"
    /\ unrecorded \in SUBSET Setting
    /\ dropped \in SUBSET Option
    /\ masked \in SUBSET Setting
    /\ changes \in 0 .. MaxChanges
    /\ faults \in 0 .. MaxFaults

\* An option that nobody wishes any more may be left on the machine, if a change
\* of networks dropped it from the record, by which update knows what to blank.
LeftOver(s) == s \in dropped /\ want[s] = Empty

AsWished(s) == want[s] \in {machine[s], Unset} \/ LeftOver(s)

\* update pops every flag before it acts on any, so that a retry may lose a
\* change; but no wish is forgotten: while the machine is not as wished, the next
\* check_drift finds it again (or breaks, see Stuck).  The only exceptions are
\* LeftOver and masked, and network cards are none.
NothingForgotten ==
    \A s \in (Setting \ masked) \union {"nets"} :
        work.at = "idle" /\ task.state = "none" => AsWished(s) \/ Noticed(s)

\* An update that succeeds at its first attempt has made every change that
\* check_drift had flagged, and that of a storage even if it was retried, with the
\* same exceptions.
SuccessApplies ==
    [][Return /\ work.op = "update" /\ (work.again => storage) =>
          \A k \in work.asked : \A s \in Part(k) \ masked : AsWished(s)]_vars

=============================================================================
