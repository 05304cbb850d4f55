----------------------------- MODULE Controllers -----------------------------
(***************************************************************************)
(* Network cards and SCSI controllers, node instances of their own, that   *)
(* are attached to one server and detached again, at the same time.        *)
(*                                                                         *)
(* vSphere does not tell which key a new device was given.  So             *)
(* attach_controller notes the keys of the devices of the type             *)
(* ("known_keys"), adds the device, and takes the first device of the type *)
(* that is not among them; its key is "busKey".  A card whose relationship *)
(* starts at the card (attach_ethernet_card) keeps known_keys and the task *)
(* id in the properties of the server, together with all such cards.       *)
(*                                                                         *)
(* Properties are fetched at the first use and dropped by update(), which  *)
(* the manager refuses when they were written in between.                  *)
(***************************************************************************)
EXTENDS Naturals, FiniteSetsExt

CONSTANTS
    Card,       \* attached with attach_ethernet_card
    Own,        \* attached with attach_scsi_controller and
                \* attach_server_to_ethernet_card
    Server, Template, Nobody,
    Type,       \* classes of devices
    TypeOf,     \* class of the device of a node instance
    Absent,     \* no known_keys in the properties
    MaxKey,     \* bound: keys of devices
    MaxTask,    \* bound: Reconfigure tasks in a behaviour
    MaxFaults   \* bound: crashes

Node == Card \union Own

ASSUME ControllersAssumption ==
    /\ Server \notin Node
    /\ Template \notin Node
    /\ Nobody \notin Node \union {Template}
    /\ Type # {}
    /\ TypeOf \in [Node -> Type]
    /\ {MaxKey, MaxTask, MaxFaults} \subseteq Nat
    /\ \A K \in SUBSET (1 .. MaxKey) : Absent # K

VARIABLES
    device,     \* who made the device with a key, and its class
    store,      \* known_keys and task id, stored in each instance
    bus,        \* busKey, stored in each card or controller
    task,       \* the Reconfigure tasks
    work,       \* what the worker of each instance does
    window,     \* history: instances between reading the keys and finding theirs
    excused,    \* history: instances that may have the wrong device, or two
    blamed,     \* history: instances whose known_keys outlive their device
    faults

vars == <<device, store, bus, task, work, window, excused, blamed, faults>>

Key == 1 .. MaxKey
NoKey == 0
Task == 1 .. MaxTask
NoTask == 0

Free == [by |-> Nobody, type |-> CHOOSE c \in Type : TRUE]
\* noted: history, who stored known_keys.
NoneStored == [known |-> Absent, task |-> NoTask, noted |-> Nobody]
Unused == [state |-> "unused", kind |-> "add", by |-> Nobody, key |-> NoKey]

\* "look": known_keys is about to be read.  "note": keys read, not stored.
\* "start": stored, task not started.  "save": task id not stored.  "find": looking for
\* the new device.  "drop": found, known_keys still stored.  "keep": busKey not
\* stored.  "unkey": the device is gone, busKey still stored.
Place == {"idle", "dispatch", "deferred", "look", "note", "start", "save",
          "poll", "find", "drop", "keep", "unkey"}

\* copy: the fetched properties of the instance, and whether they are old.
Idle(op, outcome) ==
    [op |-> op, at |-> "idle", outcome |-> outcome, known |-> {}, key |-> NoKey,
     task |-> NoTask, copy |-> "none"]

Init ==
    /\ device \in {[k \in Key |-> IF k = 1 THEN d ELSE Free] :
                      d \in {Free} \union {[by |-> Template, type |-> c] : c \in Type}}
    /\ store = [i \in Node \union {Server} |-> NoneStored]
    /\ bus = [n \in Node |-> NoKey]
    /\ task = [t \in Task |-> Unused]
    /\ work = [n \in Node |-> Idle("detach", "ok")]
    /\ window = {}
    /\ excused = {}
    /\ blamed = {}
    /\ faults = 0

OfType(c) == {k \in Key : device[k].by # Nobody /\ device[k].type = c}

\* The instance whose properties hold known_keys and the task id.
Home(n) == IF work[n].op = "attach" /\ n \in Card THEN Server ELSE n

-----------------------------------------------------------------------------
(* vSphere *)

\* Whom a new device with key k may mislead: who looks for a new device just
\* now, who still stores the key of a removed one, and who noted that one.
Misleads(t, k) ==
    {n \in Node :
        \/ n \in window \ {task[t].by} /\ TypeOf[n] = TypeOf[task[t].by]
        \/ bus[n] = k
        \/ \E i \in Node \union {Server} :
              store[i].noted = n /\ k \in store[i].known}

\* The device as generate_scsi_card and generate_ethernet_card describe it, down to
\* its class.
Described(n) == [by |-> n, type |-> TypeOf[n]]

\* A new device gets any free key.
AddEnds(t) ==
    /\ task[t].state = "running"
    /\ task[t].kind = "add"
    /\ \E k \in {j \in Key : device[j].by = Nobody} :
          /\ device' = [device EXCEPT ![k] = Described(task[t].by)]
          /\ excused' = excused \union Misleads(t, k)
    /\ task' = [task EXCEPT ![t].state = "success"]
    /\ UNCHANGED <<store, bus, work, window, blamed, faults>>

RemoveEnds(t) ==
    /\ task[t].state = "running"
    /\ task[t].kind = "remove"
    /\ device[task[t].key].by # Nobody
    /\ device' = [device EXCEPT ![task[t].key] = Free]
    /\ task' = [task EXCEPT ![t].state = "success"]
    /\ excused' = excused \union ({device[task[t].key].by} \ {task[t].by})
    /\ UNCHANGED <<store, bus, work, window, blamed, faults>>

TaskFails(t) ==
    /\ task[t].state = "running"
    /\ task' = [task EXCEPT ![t].state = "error"]
    /\ blamed' = IF task[t].kind = "add" THEN blamed \union {task[t].by} ELSE blamed
    /\ UNCHANGED <<device, store, bus, work, window, excused, faults>>

-----------------------------------------------------------------------------
(* Operations, attempts, and stored properties *)

Goes(n, place) == work' = [work EXCEPT ![n].at = place]

Ends(n, outcome) ==
    work' = [work EXCEPT ![n] = Idle(work[n].op, outcome)]

\* Another attempt, or no more of them.
Retries(n) ==
    \/ /\ work' = [work EXCEPT ![n] =
             [Idle(work[n].op, "none") EXCEPT !.at = "dispatch"]]
       /\ UNCHANGED excused
    \/ /\ Ends(n, "failed")
       /\ excused' = excused \union {n}

\* Without fetched properties.
At(n, place) == [work[n] EXCEPT !.at = place, !.copy = "none", !.task = NoTask]

\* update() of the instance: other workers' copies are old now.
Writes(n, properties, next) ==
    /\ store' = [store EXCEPT ![Home(n)] = properties]
    /\ work' = [m \in Node |->
          IF m = n THEN next
          ELSE IF Home(m) = Home(n) /\ work[m].copy = "fresh"
               THEN [work[m] EXCEPT !.copy = "old"] ELSE work[m]]

\* install runs attach, once more if it failed; uninstall runs detach.
MayBegin(n, op) ==
    IF op = "attach" THEN work[n].op = "detach" <=> work[n].outcome = "ok"
    ELSE work[n].op = "attach" \/ work[n].outcome = "failed"

Begin(n) ==
    /\ work[n].at = "idle"
    /\ \E op \in {"attach", "detach"} :
          /\ MayBegin(n, op)
          /\ work' = [work EXCEPT ![n] = [Idle(op, "none") EXCEPT !.at = "dispatch"]]
    /\ UNCHANGED <<device, store, bus, task, window, excused, blamed, faults>>

\* busKey says that there is nothing to do.
Skips(n) ==
    /\ work[n].at = "dispatch"
    /\ work[n].op = "attach" <=> bus[n] # NoKey
    /\ Ends(n, "ok")
    /\ UNCHANGED <<device, store, bus, task, window, excused, blamed, faults>>

\* run_deferred_task.
Dispatch(n) ==
    /\ work[n].at = "dispatch"
    /\ work[n].op = "attach" <=> bus[n] = NoKey
    /\ work' = [work EXCEPT ![n] = [@ EXCEPT
          !.copy = "fresh",
          !.task = store[Home(n)].task,
          !.at = IF store[Home(n)].task = NoTask THEN "look" ELSE "deferred",
          !.known = IF work[n].op = "attach" THEN store[Home(n)].known ELSE {}]]
    /\ UNCHANGED <<device, store, bus, task, window, excused, blamed, faults>>

WaitTimesOut(n) ==
    /\ work[n].at \in {"deferred", "poll"}
    /\ task[work[n].task].state = "running"
    /\ Retries(n)
    /\ UNCHANGED <<device, store, bus, task, window, blamed, faults>>

\* A stale copy, or a key that is not there any more: the attempt raises.
Breaks(n) ==
    /\ \/ work[n].at \in {"deferred", "note", "drop"} /\ work[n].copy = "old"
       \/ work[n].at = "poll" /\ store[Home(n)].task = NoTask
       \/ work[n].at = "drop" /\ work[n].copy = "none" /\ store[Home(n)].known = Absent
    /\ work[n].at \in {"deferred", "poll"} => task[work[n].task].state # "running"
    /\ Retries(n)
    /\ UNCHANGED <<device, store, bus, task, window, blamed, faults>>

\* The task ended, or is no longer listed: its id is removed, and the properties
\* are fetched again.
DeferredReturns(n) ==
    /\ work[n].at = "deferred"
    /\ task[work[n].task].state # "running"
    /\ work[n].copy = "fresh"
    /\ Writes(n, [store[Home(n)] EXCEPT !.task = NoTask], At(n, "look"))
    /\ UNCHANGED <<device, bus, task, window, excused, blamed, faults>>

DeferredFails(n) ==
    /\ work[n].at = "deferred"
    /\ task[work[n].task].state = "error"
    /\ work[n].copy = "fresh"
    /\ Writes(n, [store[Home(n)] EXCEPT !.task = NoTask], Idle(work[n].op, "failed"))
    /\ excused' = IF task[work[n].task].by = n THEN excused ELSE excused \union {n}
    /\ UNCHANGED <<device, bus, task, window, blamed, faults>>

-----------------------------------------------------------------------------
(* attach_controller *)

\* Mutant: what an earlier attempt noted is not read back.
NotedNever(n) == Absent

\* known_keys as this attempt sees it: fetched before, or just now.
Noted(n) == IF work[n].copy = "none" THEN store[Home(n)].known ELSE work[n].known

Looks(n, place, known) ==
    /\ work[n].at = "look"
    /\ work[n].op = "attach"
    /\ work' = [work EXCEPT ![n] = [@ EXCEPT
          !.at = place, !.known = known,
          !.copy = IF work[n].copy = "none" THEN "fresh" ELSE work[n].copy]]
    /\ excused' = IF Noted(n) = Absent \/ (place = "find" /\ store[Home(n)].noted = n)
                  THEN excused ELSE excused \union {n, store[Home(n)].noted}
    /\ UNCHANGED <<device, store, bus, task, blamed, faults>>

\* generate_ethernet_card: 'Network {0} could not be found', even in an attempt
\* that follows the one that added the card.
NoNetwork(n) ==
    /\ work[n].at = "look"
    /\ work[n].op = "attach"
    /\ Ends(n, "failed")
    /\ excused' = IF store[Home(n)].noted = n THEN excused \union {n} ELSE excused
    /\ UNCHANGED <<device, store, bus, task, window, blamed, faults>>

\* The keys of the devices are read.  An empty list counts as nothing noted.
Read(n) ==
    /\ Noted(n) \in {Absent, {}}
    /\ Looks(n, "note", OfType(TypeOf[n]))
    /\ window' = window \union {n}

\* An earlier attempt, or another card, has noted them and added the device.
AlreadyNoted(n) ==
    /\ Noted(n) \notin {Absent, {}}
    /\ Looks(n, "find", Noted(n))
    /\ UNCHANGED window

Note(n) ==
    /\ work[n].at = "note"
    /\ work[n].copy = "fresh"
    /\ Writes(n, [store[Home(n)] EXCEPT !.known = work[n].known, !.noted = n],
              At(n, "start"))
    /\ UNCHANGED <<device, bus, task, window, excused, blamed, faults>>

\* ReconfigVM_Task.
Launches(n, kind, key) ==
    \E t \in Task :
       /\ task[t].state = "unused"
       /\ \A u \in Task : u < t => task[u].state # "unused"
       /\ task' = [task EXCEPT ![t] =
             [state |-> "running", kind |-> kind, by |-> n, key |-> key]]
       /\ work' = [work EXCEPT ![n] = [@ EXCEPT !.task = t, !.at = "save", !.copy = "none"]]

Start(n) ==
    /\ work[n].at = "start"
    /\ Launches(n, "add", NoKey)
    /\ UNCHANGED <<device, store, bus, window, excused, blamed, faults>>

\* Whose task is not waited for any more when n overwrites or removes its stored id.
Robs(n) ==
    LET t == store[Home(n)].task
    IN excused' = IF t \in {NoTask, work[n].task} THEN excused ELSE excused \union {task[t].by}

\* Mutant: the task is not waited for.
SaveTaskOnly(n) ==
    /\ work[n].at = "save"
    /\ Writes(n, [store[Home(n)] EXCEPT !.task = work[n].task], At(n, "find"))
    /\ Robs(n)
    /\ UNCHANGED <<device, bus, task, window, blamed, faults>>

SaveTask(n) ==
    /\ work[n].at = "save"
    /\ Writes(n, [store[Home(n)] EXCEPT !.task = work[n].task],
              [At(n, "poll") EXCEPT !.task = work[n].task])
    /\ Robs(n)
    /\ UNCHANGED <<device, bus, task, window, blamed, faults>>

\* Whatever task id is stored is removed.
ForgetTask(n) ==
    /\ work[n].at = "poll"
    /\ task[work[n].task].state # "running"
    /\ store[Home(n)].task # NoTask
    /\ Writes(n, [store[Home(n)] EXCEPT !.task = NoTask],
              IF task[work[n].task].state = "error" THEN Idle(work[n].op, "failed")
              ELSE At(n, IF work[n].op = "attach" THEN "find" ELSE "unkey"))
    /\ Robs(n)
    /\ UNCHANGED <<device, bus, task, window, blamed, faults>>

\* Mutant: a device that was there before counts as new.
AnyKeys(n) == OfType(TypeOf[n])

\* The devices are read again, past the cache: the first unknown one is taken.
NewKeys(n) == OfType(TypeOf[n]) \ work[n].known

Find(n) ==
    /\ work[n].at = "find"
    /\ NewKeys(n) # {}
    /\ work' = [work EXCEPT ![n] = [@ EXCEPT !.key = Min(NewKeys(n)), !.at = "drop"]]
    /\ UNCHANGED <<device, store, bus, task, window, excused, blamed, faults>>

NotFound(n) ==
    /\ work[n].at = "find"
    /\ NewKeys(n) = {}
    /\ Ends(n, "missing")
    /\ UNCHANGED <<device, store, bus, task, window, excused, blamed, faults>>

Drop(n) ==
    /\ work[n].at = "drop"
    /\ work[n].copy # "old"
    /\ store[Home(n)].known # Absent
    /\ Writes(n, [store[Home(n)] EXCEPT !.known = Absent, !.noted = Nobody],
              [At(n, "keep") EXCEPT !.known = {}])
    /\ window' = window \ {n}
    /\ excused' = excused \union ({store[Home(n)].noted} \ {n})
    /\ UNCHANGED <<device, bus, task, blamed, faults>>

Keep(n) ==
    /\ work[n].at = "keep"
    /\ bus' = [bus EXCEPT ![n] = work[n].key]
    /\ Ends(n, "ok")
    /\ UNCHANGED <<device, store, task, window, excused, blamed, faults>>

-----------------------------------------------------------------------------
(* detach_controller *)

\* There is a device with this key: it is removed.
Detach(n) ==
    /\ work[n].at = "look"
    /\ work[n].op = "detach"
    /\ device[bus[n]].by # Nobody
    /\ Launches(n, "remove", bus[n])
    /\ UNCHANGED <<device, store, bus, window, excused, blamed, faults>>

NothingToDetach(n) ==
    /\ work[n].at = "look"
    /\ work[n].op = "detach"
    /\ device[bus[n]].by = Nobody
    /\ Goes(n, "unkey")
    /\ UNCHANGED <<device, store, bus, task, window, excused, blamed, faults>>

\* Mutant: busKey is set to None instead of deleted.
UnkeyToNone(n) ==
    /\ work[n].at = "unkey"
    /\ bus' = [bus EXCEPT ![n] = Absent]
    /\ Ends(n, "ok")
    /\ UNCHANGED <<device, store, task, window, excused, blamed, faults>>

Unkey(n) ==
    /\ work[n].at = "unkey"
    /\ bus' = [bus EXCEPT ![n] = NoKey]
    /\ Ends(n, "ok")
    /\ UNCHANGED <<device, store, task, window, excused, blamed, faults>>

-----------------------------------------------------------------------------

\* The worker dies; the resumed workflow runs the operation again.
Crash(n) ==
    /\ work[n].at # "idle"
    /\ faults < MaxFaults
    /\ faults' = faults + 1
    /\ work' = [work EXCEPT ![n] = [Idle(work[n].op, "none") EXCEPT !.at = "dispatch"]]
    /\ excused' = excused \union {n}
    /\ UNCHANGED <<device, store, bus, task, window, blamed>>

Worker(n) ==
    \/ Begin(n) \/ Skips(n) \/ Dispatch(n) \/ WaitTimesOut(n) \/ Breaks(n)
    \/ DeferredReturns(n) \/ DeferredFails(n) \/ NoNetwork(n) \/ Read(n)
    \/ AlreadyNoted(n) \/ Note(n) \/ Start(n) \/ SaveTask(n) \/ ForgetTask(n) \/ Find(n)
    \/ NotFound(n) \/ Drop(n) \/ Keep(n) \/ Detach(n) \/ NothingToDetach(n) \/ Unkey(n)
    \/ Crash(n)

Next ==
    \/ \E n \in Node : Worker(n)
    \/ \E t \in Task : AddEnds(t) \/ RemoveEnds(t) \/ TaskFails(t)

Spec == Init /\ [][Next]_vars

-----------------------------------------------------------------------------
(* Correctness *)

\* The variables stay within their types.
TypeOK ==
    /\ device \in [Key -> [by : Node \union {Template, Nobody}, type : Type]]
    /\ store \in [Node \union {Server} ->
                    [known : (SUBSET Key) \union {Absent}, task : 0 .. MaxTask,
                     noted : Node \union {Nobody}]]
    /\ bus \in [Node -> 0 .. MaxKey]
    /\ task \in [Task -> [state : {"unused", "running", "success", "error"},
                         kind : {"add", "remove"}, by : Node \union {Nobody},
                         key : 0 .. MaxKey]]
    /\ work \in [Node -> [op : {"attach", "detach"}, at : Place,
                         outcome : {"none", "ok", "failed", "missing"},
                         known : (SUBSET Key) \union {Absent}, key : 0 .. MaxKey,
                         task : 0 .. MaxTask, copy : {"none", "fresh", "old"}]]
    /\ window \in SUBSET Node
    /\ excused \in SUBSET (Node \union {Template, Nobody})
    /\ blamed \in SUBSET Node
    /\ faults \in 0 .. MaxFaults

\* The device that busKey names was made for this instance, or is gone: what is
\* detached is never the card of another.  (attach_controller and detach_controller;
\* excused are the instances that lost their place to another one or to a crash.)
OwnDevice ==
    \A n \in Node \ excused :
       bus[n] # NoKey => device[bus[n]].by \in {n, Nobody}

MadeBy(n) == {k \in Key : device[k].by = n}

\* After attach there is exactly one device of this instance, the one busKey names,
\* however often it was tried; after detach there is none.
SuccessMeansDone ==
    \A n \in Node \ excused :
       work[n].outcome = "ok" =>
          IF work[n].op = "attach" THEN MadeBy(n) = {bus[n]} ELSE MadeBy(n) = {}

\* 'Have not found key for new added device' is raised only if adding it failed, or
\* if another instance or a crash came in between.
NotFoundHasReason ==
    \A n \in Node : work[n].outcome = "missing" => n \in excused \union blamed

=============================================================================
